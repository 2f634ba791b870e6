-------------------------- MODULE DrvRegistryProofs --------------------------
(***************************************************************************)
(* Proofs about DrvRegistry.  In any build the list has no node twice and  *)
(* drv_type_num is its length.  In a dynamic build the loader's lock keeps *)
(* registrations apart; use counts, and the loader keeping what init2      *)
(* opened, leave the nodes in the list while a front end can look at them, *)
(* if the front ends brought up by init are those of one library.          *)
(***************************************************************************)
EXTENDS DrvRegistry, RingArith, FiniteSetTheorems, SequenceTheorems, TLAPS

Texts == STRING \cup {""}
NodeType == [name : Texts, class : Texts,
             drv : Drivers \cup {Null}, algs : SUBSET Drivers, on : SUBSET Drivers,
             refcnt : Int]

Labels == {"closed", "opening", "probe", "register", "open", "walk", "found", "bound",
           "closing", "remove", "unregister"}

TypeInv ==
  /\ node \in [NodeIds -> NodeType]
  /\ pc \in [Users -> Labels] /\ todo \in [Users -> SUBSET Drivers]
  /\ ptr \in [Users -> NodeIds \cup {Null}]
  /\ max \in [Users -> Nat] /\ count \in [Users -> Nat] /\ arr \in [Users -> SUBSET Drivers]
  /\ loads \in [Libs -> Int]

\* The list has no node twice, and its nodes have a driver.
ListInv ==
  /\ list \in Seq(NodeIds) /\ drv_type_num = Len(list)
  /\ \A i, j \in 1 .. Len(list) : list[i] = list[j] => i = j
  /\ \A i \in 1 .. Len(list) : node[list[i]].drv \in Drivers

\* A front end has a pointer and an array only where it uses them.
LocalOf(u) ==
  /\ pc[u] \notin {"register", "unregister", "walk"} => ptr[u] = Null
  /\ pc[u] \notin {"walk", "found", "bound"} => arr[u] = {}
  /\ pc[u] = "walk" => count[u] <= max[u]
LocalInv == \A u \in Users : LocalOf(u)

\* Who loads or unloads holds the loader's lock, and its pointer is to the
\* first node the list still has.
Busy == {"probe", "register", "remove", "unregister"}
LoaderOf(u) == /\ pc[u] \in Busy <=> loader = u
               /\ pc[u] \in {"register", "unregister"} => ptr[u] = First
LoaderInv == build = "dynamic" => \A u \in Users : LoaderOf(u)

\* A front end that can look at the list has all its libraries open, and what it
\* opened by init2 stays in memory.
Stands == {"open", "walk", "found", "bound"}
HeldOf(u) == /\ held[u] \subseteq Opens(u)
             /\ pc[u] \in Stands => held[u] = Opens(u)
             /\ pc[u] \in Busy \cup Stands => V1(u) \/ V2(u)
             /\ V2(u) => held[u] \subseteq pinned
HeldInv == /\ \E p \in Programs : build = p.build /\ init_type = p.init_type
           /\ held \in [Users -> SUBSET Libs]
           /\ build = "dynamic" => \A u \in Users : HeldOf(u)

\* loads counts the front ends that have a library open.
HoldersOf(l) == {u \in Users : l \in held[u]}
LoadInv == build = "dynamic" => \A l \in Libs : loads[l] = Cardinality(HoldersOf(l))

\* Nobody looks at the list while a front end has drivers to unregister.
Drops == {"remove", "unregister"}
AloneInv ==
  build = "dynamic" =>
    \A u, v \in Users : pc[u] \in Drops /\ todo[u] # {} /\ v # u => pc[v] \notin Stands

\* A node has the name and the class of its driver.
NameInv == build = "dynamic" =>
             \A n \in Live : /\ node[n].name = Name[node[n].drv]
                             /\ node[n].class = Class[node[n].drv]

\* The drivers in an array have a node,
NodeInv == build = "dynamic" =>
             \A u \in Users : \A d \in arr[u] : \E n \in Live : node[n].drv = d

\* and the nodes count the front ends.
RefInv == build = "dynamic" =>
            \A d \in Drivers : \A n \in Live :
              node[n].drv = d => node[n].refcnt = Cardinality(BoundTo(d))


-----------------------------------------------------------------------------
\* The list

\* Every node of the list has one place in it.
LEMMA IndexOf ==
  ASSUME ListInv
  PROVE  /\ Len(list) \in Nat /\ DOMAIN list = 1 .. Len(list)
         /\ Live = {list[i] : i \in 1 .. Len(list)} /\ Live \subseteq NodeIds
         /\ \A n \in Live : Index(n) \in 1 .. Len(list) /\ list[Index(n)] = n
         /\ \A i \in 1 .. Len(list) : Index(list[i]) = i
<1>1. Len(list) \in Nat /\ DOMAIN list = 1 .. Len(list)
  BY LenProperties DEF ListInv
<1>2. Live = {list[i] : i \in 1 .. Len(list)} /\ Live \subseteq NodeIds
  BY <1>1, ElementOfSeq DEF Live, ListInv
<1>3. \A n \in Live : Index(n) \in 1 .. Len(list) /\ list[Index(n)] = n
  <2> SUFFICES ASSUME NEW n \in Live
               PROVE  Index(n) \in 1 .. Len(list) /\ list[Index(n)] = n
    OBVIOUS
  <2>1. \E i \in DOMAIN list : list[i] = n
    BY <1>1, <1>2
  <2> QED BY <1>1, <2>1 DEF Index
<1>4. \A i \in 1 .. Len(list) : Index(list[i]) = i
  BY <1>1, <1>2, <1>3 DEF ListInv
<1> QED BY <1>1, <1>2, <1>3, <1>4

\* A walk meets nodes of the list, and all of them from the first on.
LEMMA FromLive ==
  ASSUME ListInv
  PROVE  /\ \A p : p = Null \/ p \in Live => From(p) \subseteq Live
         /\ From(First) = Live
         /\ First = Null \/ First \in Live
         /\ \A n \in Live : Succ(n) = Null \/ Succ(n) \in Live
<1>1. /\ Len(list) \in Nat /\ DOMAIN list = 1 .. Len(list)
      /\ Live = {list[i] : i \in 1 .. Len(list)} /\ Live \subseteq NodeIds
      /\ \A n \in Live : Index(n) \in 1 .. Len(list) /\ list[Index(n)] = n
      /\ \A i \in 1 .. Len(list) : Index(list[i]) = i
  BY IndexOf
<1>2. ASSUME NEW p, p = Null \/ p \in Live PROVE From(p) \subseteq Live
  <2>1. CASE p = Null
    BY <2>1 DEF From
  <2>2. CASE p # Null
    <3>1. Index(p) \in 1 .. Len(list)
      BY <1>1, <1>2, <2>2
    <3>2. Index(p) .. Len(list) \subseteq 1 .. Len(list)
      BY <1>1, <3>1
    <3> QED BY <1>1, <2>2, <3>2 DEF From
  <2> QED BY <2>1, <2>2
<1>3. From(First) = Live /\ (First = Null \/ First \in Live)
  <2>1. CASE list = << >>
    <3>1. Len(list) = 0
      BY <2>1
    <3>2. Live = {}
      BY <1>1, <3>1
    <3> QED BY <2>1, <3>2 DEF From, First
  <2>2. CASE list # << >>
    <3>1. Len(list) > 0 /\ Head(list) = list[1]
      BY <2>2 DEF ListInv
    <3>2. 1 \in 1 .. Len(list)
      BY <1>1, <3>1
    <3>3. First = list[1] /\ First \in Live /\ First # Null /\ Index(First) = 1
      BY <1>1, <2>2, <3>1, <3>2, NodeAssumption DEF First
    <3> QED BY <1>1, <3>3 DEF From
  <2> QED BY <2>1, <2>2
<1>4. ASSUME NEW n \in Live PROVE Succ(n) = Null \/ Succ(n) \in Live
  <2>1. CASE Index(n) = Len(list)
    BY <2>1 DEF Succ
  <2>2. CASE Index(n) # Len(list)
    <3>1. Index(n) + 1 \in 1 .. Len(list)
      BY <1>1, <2>2
    <3> QED BY <1>1, <2>2, <3>1 DEF Succ
  <2> QED BY <2>1, <2>2
<1> QED BY <1>2, <1>3, <1>4

\* The earliest of some nodes of the list is one of them.
LEMMA EarliestIn ==
  ASSUME ListInv, NEW S \in SUBSET Live, S # {}
  PROVE  Earliest(S) \in S
<1>1. /\ Len(list) \in Nat /\ \A n \in Live : Index(n) \in 1 .. Len(list)
  BY IndexOf
<1> DEFINE T == {Index(n) : n \in S}
<1>2. T \in SUBSET Nat /\ T # {}
  BY <1>1
<1>3. PICK k \in T : \A m \in T : k <= m
  <2> HIDE DEF T
  <2> QED BY <1>2, LeastNat
<1>4. PICK n \in S : k = Index(n)
  BY <1>3
<1>5. \A m \in S : Index(n) <= Index(m)
  BY <1>3, <1>4
<1> QED BY <1>5 DEF Earliest

\* wd_alg_driver_register appends a node that is not in the list.
LEMMA AppendList ==
  ASSUME ListInv, NEW n \in NodeIds, n \notin Live, list' = Append(list, n)
  PROVE  /\ list' \in Seq(NodeIds) /\ Len(list') = Len(list) + 1
         /\ \A i, j \in 1 .. Len(list') : list'[i] = list'[j] => i = j
         /\ Live' = Live \cup {n}
<1>1. /\ Len(list) \in Nat /\ DOMAIN list = 1 .. Len(list)
      /\ Live = {list[i] : i \in 1 .. Len(list)}
  BY IndexOf
<1>2. /\ list' \in Seq(NodeIds) /\ Len(list') = Len(list) + 1
      /\ \A i \in 1 .. Len(list) : list'[i] = list[i]
      /\ list'[Len(list) + 1] = n
  BY AppendProperties DEF ListInv
<1>3. 1 .. Len(list') = (1 .. Len(list)) \cup {Len(list) + 1}
  BY <1>1, <1>2
<1>4. \A i \in 1 .. Len(list) : list[i] # n
  BY <1>1
<1>5. \A i, j \in 1 .. Len(list') : list'[i] = list'[j] => i = j
  BY <1>2, <1>3, <1>4 DEF ListInv
<1>6. DOMAIN list' = 1 .. Len(list')
  BY <1>2, LenProperties
<1>7. Live' = Live \cup {n}
  BY <1>1, <1>2, <1>3, <1>6 DEF Live
<1> QED BY <1>2, <1>5, <1>7

\* A function on 1 .. m is a sequence of length m.
LEMMA FnSeq == ASSUME NEW S, NEW m \in Nat, NEW f \in [1 .. m -> S]
               PROVE  f \in Seq(S) /\ Len(f) = m
  OBVIOUS

\* wd_alg_driver_unregister takes one node out.
LEMMA RemoveList ==
  ASSUME ListInv, NEW n \in Live, list' = Remove(n)
  PROVE  /\ list' \in Seq(NodeIds) /\ Len(list') = Len(list) - 1
         /\ \A i, j \in 1 .. Len(list') : list'[i] = list'[j] => i = j
         /\ Live' = Live \ {n}
<1> DEFINE k == Index(n)
           m == Len(list)
           g(i) == IF i < k THEN i ELSE i + 1
<1>1. /\ m \in Nat /\ DOMAIN list = 1 .. m
      /\ Live = {list[i] : i \in 1 .. m} /\ Live \subseteq NodeIds
      /\ k \in 1 .. m /\ list[k] = n
      /\ \A i \in 1 .. m : list[i] \in NodeIds
  <2>1. /\ m \in Nat /\ DOMAIN list = 1 .. m
        /\ Live = {list[i] : i \in 1 .. m} /\ Live \subseteq NodeIds
        /\ k \in 1 .. m /\ list[k] = n
    BY IndexOf
  <2> QED BY <2>1
<1>2. list' = [i \in 1 .. m - 1 |-> list[g(i)]]
  BY DEF Remove
<1>3. \A i, j \in 1 .. m : list[i] = list[j] => i = j
  BY DEF ListInv
<1> HIDE DEF k, m
<1>4. \A i \in 1 .. m - 1 : g(i) \in 1 .. m /\ g(i) # k
  BY <1>1
<1>5. \A i \in 1 .. m - 1 : list[g(i)] \in NodeIds
  BY <1>1, <1>4
<1>6. m - 1 \in Nat
  BY <1>1
<1>7. list' \in [1 .. m - 1 -> NodeIds]
  BY <1>2, <1>5
<1>8. list' \in Seq(NodeIds) /\ Len(list') = m - 1
  BY <1>6, <1>7, FnSeq
<1>9. \A i \in 1 .. m - 1 : list'[i] = list[g(i)]
  BY <1>2
<1>10. \A i, j \in 1 .. m - 1 : list'[i] = list'[j] => i = j
  <2> SUFFICES ASSUME NEW i \in 1 .. m - 1, NEW j \in 1 .. m - 1, list'[i] = list'[j]
               PROVE  i = j
    OBVIOUS
  <2>1. g(i) = g(j)
    BY <1>3, <1>4, <1>9
  <2> QED BY <1>1, <2>1
<1>11. Live' = {list'[i] : i \in 1 .. m - 1}
  <2>1. DOMAIN list' = 1 .. m - 1
    BY <1>2
  <2> QED BY <2>1 DEF Live
<1>12. \A j \in 1 .. m : j # k => \E i \in 1 .. m - 1 : g(i) = j
  <2> SUFFICES ASSUME NEW j \in 1 .. m, j # k PROVE \E i \in 1 .. m - 1 : g(i) = j
    OBVIOUS
  <2>1. CASE j < k
    <3>1. j \in 1 .. m - 1 /\ g(j) = j
      BY <1>1, <2>1
    <3> QED BY <3>1
  <2>2. CASE j > k
    <3>1. j - 1 \in 1 .. m - 1 /\ g(j - 1) = j
      BY <1>1, <2>2
    <3> QED BY <3>1
  <2> QED BY <1>1, <2>1, <2>2
<1>13. Live' = Live \ {n}
  <2> HIDE DEF g
  <2>1. ASSUME NEW x \in Live' PROVE x \in Live \ {n}
    <3>1. PICK i \in 1 .. m - 1 : x = list[g(i)]
      BY <1>9, <1>11, <2>1
    <3> QED BY <1>1, <1>3, <1>4, <3>1
  <2>2. ASSUME NEW x \in Live, x # n PROVE x \in Live'
    <3>1. PICK j \in 1 .. m : x = list[j] /\ j # k
      BY <1>1, <2>2
    <3>2. PICK i \in 1 .. m - 1 : g(i) = j
      BY <1>12, <3>1
    <3> QED BY <1>9, <1>11, <3>1, <3>2
  <2> QED BY <2>1, <2>2
<1> QED BY <1>8, <1>10, <1>13 DEF m

-----------------------------------------------------------------------------
\* The steps

\* The other front ends are left alone.
Frame(u) == \A v \in Users : v # u =>
              /\ pc'[v] = pc[v] /\ todo'[v] = todo[v] /\ ptr'[v] = ptr[v]
              /\ max'[v] = max[v] /\ count'[v] = count[v] /\ arr'[v] = arr[v]

SameNodes == /\ list' = list /\ drv_type_num' = drv_type_num
             /\ \A n \in NodeIds : /\ node'[n].name = node[n].name
                                   /\ node'[n].class = node[n].class
                                   /\ node'[n].drv = node[n].drv

\* A step that neither adds nor removes a node nor takes or gives the loader's
\* lock: where front end u may be after it, and what it may point to.
Calm(u) ==
  /\ Frame(u) /\ SameNodes /\ TypeInv' /\ LocalOf(u)'
  /\ loads' = loads /\ loader' = loader
  /\ build = "dynamic" => /\ pc'[u] \in Busy <=> pc[u] \in Busy
                          /\ pc'[u] \in Stands <=> pc[u] \in Stands
                          /\ pc'[u] \in Drops => pc[u] \in Drops
                          /\ todo'[u] \subseteq todo[u]
  /\ pc'[u] \in {"register", "unregister"} => ptr'[u] = First
  /\ ptr'[u] = Null \/ ptr'[u] \in Live
  /\ \A e \in arr'[u] : e \in arr[u] \/ \E n \in Live : node[n].drv = e

\* The references are left alone.
RefKept(u) == /\ \A n \in NodeIds : node'[n].refcnt = node[n].refcnt
              /\ pc'[u] = "bound" <=> pc[u] = "bound"
              /\ pc[u] = "bound" => arr'[u] = arr[u]

\* wd_alg_driver_register and _unregister read head->next.
LEMMA EnterCalm ==
  ASSUME TypeInv, ListInv, LocalInv, NEW u \in Users,
         RegisterEnter(u) \/ UnregisterEnter(u)
  PROVE  Calm(u) /\ RefKept(u)
<1>1. /\ pc[u] \in {"probe", "remove"} /\ list' = list /\ node' = node
      /\ drv_type_num' = drv_type_num /\ loads' = loads /\ loader' = loader
      /\ todo' = todo /\ max' = max /\ count' = count /\ arr' = arr
      /\ pc' = [pc EXCEPT ![u] = IF pc[u] = "probe" THEN "register" ELSE "unregister"]
      /\ ptr' = [ptr EXCEPT ![u] = First]
  BY DEF RegisterEnter, UnregisterEnter, regVars
<1>2. First = Null \/ First \in Live
  BY FromLive
<1>3. First \in NodeIds \cup {Null}
  BY <1>2, IndexOf
<1>4. TypeInv'
  BY <1>1, <1>3 DEF TypeInv, Labels
<1>5. /\ pc'[u] = IF pc[u] = "probe" THEN "register" ELSE "unregister"
      /\ ptr'[u] = First
  BY <1>1 DEF TypeInv
<1>6. Frame(u)
  BY <1>1 DEF TypeInv, Frame
<1>7. LocalOf(u)'
  BY <1>1, <1>5 DEF LocalInv, LocalOf
<1>8. SameNodes
  BY <1>1 DEF SameNodes
<1>9. RefKept(u)
  BY <1>1, <1>5 DEF RefKept
<1> QED BY <1>1, <1>2, <1>4, <1>5, <1>6, <1>7, <1>8, <1>9 DEF Calm, Busy,
           Drops, Stands

\* What the end of wd_alg_driver_register or _unregister does to the front end.
LEMMA DoneCalm ==
  ASSUME TypeInv, ListInv, LocalInv, NEW u \in Users, NEW d \in Drivers,
         pc[u] \in {"register", "unregister"},
         RegisterDone(u, d) \/ UnregisterDone(u, d),
         pc[u] = "register" => RegisterDone(u, d),
         pc[u] = "unregister" => UnregisterDone(u, d),
         node' \in [NodeIds -> NodeType], SameNodes,
         \A n \in NodeIds : node'[n].refcnt = node[n].refcnt
  PROVE  Calm(u) /\ RefKept(u)
<1>1. /\ loads' = loads /\ loader' = loader /\ max' = max /\ count' = count /\ arr' = arr
      /\ todo' = [todo EXCEPT ![u] = todo[u] \ {d}]
      /\ ptr' = [ptr EXCEPT ![u] = Null]
      /\ pc' = [pc EXCEPT ![u] = IF pc[u] = "register" THEN "probe" ELSE "remove"]
  BY DEF RegisterDone, UnregisterDone
<1>2. TypeInv'
  BY <1>1 DEF TypeInv, Labels
<1>3. /\ pc'[u] = IF pc[u] = "register" THEN "probe" ELSE "remove"
      /\ ptr'[u] = Null /\ todo'[u] = todo[u] \ {d}
  BY <1>1 DEF TypeInv
<1>4. Frame(u)
  BY <1>1 DEF TypeInv, Frame
<1>5. LocalOf(u)'
  BY <1>1, <1>3 DEF LocalInv, LocalOf
<1>6. RefKept(u)
  BY <1>1, <1>3 DEF RefKept
<1> QED BY <1>1, <1>2, <1>3, <1>4, <1>5, <1>6 DEF Calm, Busy, Drops, Stands

\* A driver is skipped.
LEMMA SkipCalm ==
  ASSUME TypeInv, ListInv, LocalInv, NEW u \in Users, NEW d \in Drivers,
         RegisterSkip(u, d) \/ UnregisterSkip(u, d)
  PROVE  Calm(u) /\ RefKept(u)
<1>1. /\ pc[u] \in {"register", "unregister"}
      /\ list' = list /\ node' = node /\ drv_type_num' = drv_type_num
      /\ RegisterDone(u, d) \/ UnregisterDone(u, d)
      /\ pc[u] = "register" => RegisterDone(u, d)
      /\ pc[u] = "unregister" => UnregisterDone(u, d)
  BY DEF RegisterSkip, UnregisterSkip, regVars
<1>2. /\ node' \in [NodeIds -> NodeType] /\ SameNodes
      /\ \A n \in NodeIds : node'[n].refcnt = node[n].refcnt
  BY <1>1 DEF TypeInv, SameNodes
<1> QED BY <1>1, <1>2, DoneCalm

\* The algorithms of node n change, its name, class, driver and count do not.
LEMMA AlgsChange ==
  ASSUME TypeInv, NEW n \in NodeIds, NEW A \in SUBSET Drivers, NEW O \in SUBSET Drivers,
         list' = list, drv_type_num' = drv_type_num,
         node' = [node EXCEPT ![n] = [node[n] EXCEPT !.algs = A, !.on = O]]
  PROVE  /\ node' \in [NodeIds -> NodeType] /\ SameNodes
         /\ \A m \in NodeIds : node'[m].refcnt = node[m].refcnt
<1> DEFINE r == [node[n] EXCEPT !.algs = A, !.on = O]
<1>1. node[n] \in NodeType
  BY DEF TypeInv
<1>2. /\ r \in NodeType /\ r.name = node[n].name /\ r.class = node[n].class
      /\ r.drv = node[n].drv /\ r.refcnt = node[n].refcnt
  BY <1>1 DEF NodeType
<1> HIDE DEF r
<1>3. node' = [node EXCEPT ![n] = r]
  BY DEF r
<1>4. node'[n] = r /\ \A m \in NodeIds : m # n => node'[m] = node[m]
  BY <1>3 DEF TypeInv
<1> QED BY <1>2, <1>3, <1>4 DEF TypeInv, SameNodes

\* The node a registration or a removal works on.
LEMMA HoldingNode ==
  ASSUME ListInv, NEW u \in Users, NEW d \in Drivers, InList(u), Holding(ptr[u], d) # {}
  PROVE  /\ Earliest(Holding(ptr[u], d)) \in Holding(ptr[u], d)
         /\ Holding(ptr[u], d) \subseteq Live /\ Live \subseteq NodeIds
<1>1. Holding(ptr[u], d) \subseteq Live
  BY FromLive DEF InList, Holding
<1> QED BY <1>1, IndexOf, EarliestIn

\* An algorithm joins the node found.
LEMMA AlgCalm ==
  ASSUME TypeInv, ListInv, LocalInv, NEW u \in Users, NEW d \in Drivers,
         RegisterAlg(u, d)
  PROVE  Calm(u) /\ RefKept(u)
<1> DEFINE n == Earliest(Holding(ptr[u], d))
<1>1. /\ pc[u] = "register" /\ InList(u) /\ Holding(ptr[u], d) # {}
      /\ node' = [node EXCEPT ![n].algs = @ \cup {d}, ![n].on = @ \cup {d}]
      /\ list' = list /\ drv_type_num' = drv_type_num /\ RegisterDone(u, d)
  BY DEF RegisterAlg
<1>2. n \in NodeIds
  BY <1>1, HoldingNode
<1> HIDE DEF n
<1>3. node[n] \in NodeType
  BY <1>2 DEF TypeInv
<1> DEFINE A == node[n].algs \cup {d}
           O == node[n].on \cup {d}
<1>4. A \in SUBSET Drivers /\ O \in SUBSET Drivers
  BY <1>3 DEF NodeType
<1>5. node' = [node EXCEPT ![n] = [node[n] EXCEPT !.algs = A, !.on = O]]
  BY <1>1, <1>2, <1>3 DEF TypeInv, NodeType
<1> HIDE DEF A, O
<1>6. /\ node' \in [NodeIds -> NodeType] /\ SameNodes
      /\ \A m \in NodeIds : node'[m].refcnt = node[m].refcnt
  BY <1>1, <1>2, <1>4, <1>5, AlgsChange
<1> QED BY <1>1, <1>6, DoneCalm

\* An algorithm leaves a node that keeps others.
LEMMA LeaveCalm ==
  ASSUME TypeInv, ListInv, LocalInv, NEW u \in Users, NEW d \in Drivers,
         UnregisterDrv(u, d), node[Earliest(Holding(ptr[u], d))].algs \ {d} # {}
  PROVE  Calm(u) /\ RefKept(u)
<1> DEFINE n == Earliest(Holding(ptr[u], d))
           A == node[n].algs \ {d}
           O == node[n].on \ {d}
<1>1. /\ pc[u] = "unregister" /\ InList(u) /\ Holding(ptr[u], d) # {}
      /\ node' = [node EXCEPT ![n].algs = A, ![n].on = @ \ {d}]
      /\ list' = list /\ drv_type_num' = drv_type_num /\ UnregisterDone(u, d)
  BY DEF UnregisterDrv
<1>2. n \in NodeIds
  BY <1>1, HoldingNode
<1> HIDE DEF n
<1>3. node[n] \in NodeType
  BY <1>2 DEF TypeInv
<1>4. A \in SUBSET Drivers /\ O \in SUBSET Drivers
  BY <1>3 DEF NodeType
<1>5. node' = [node EXCEPT ![n] = [node[n] EXCEPT !.algs = A, !.on = O]]
  BY <1>1, <1>2, <1>3 DEF TypeInv, NodeType
<1> HIDE DEF A, O
<1>6. /\ node' \in [NodeIds -> NodeType] /\ SameNodes
      /\ \A m \in NodeIds : node'[m].refcnt = node[m].refcnt
  BY <1>1, <1>2, <1>4, <1>5, AlgsChange
<1> QED BY <1>1, <1>6, DoneCalm

\* wd_disable_drv and wd_enable_drv.
LEMMA SwitchCalm ==
  ASSUME TypeInv, ListInv, LocalInv, NEW u \in Users, NEW d \in Drivers,
         Disable(u, d) \/ Enable(u, d)
  PROVE  Calm(u) /\ RefKept(u)
<1> DEFINE n == Earliest(NamedAs(d))
<1>1. /\ pc[u] \in {"open", "bound"} /\ NamedAs(d) # {} /\ list' = list
      /\ drv_type_num' = drv_type_num /\ loads' = loads /\ loader' = loader
      /\ pc' = pc /\ todo' = todo /\ ptr' = ptr /\ max' = max /\ count' = count /\ arr' = arr
      /\ \E O \in {{}, node[n].algs} : node' = [node EXCEPT ![n].on = O]
  BY DEF Disable, Enable
<1>2. NamedAs(d) \subseteq Live /\ Live \subseteq NodeIds
  BY IndexOf DEF NamedAs
<1>3. n \in NodeIds
  BY <1>1, <1>2, EarliestIn
<1> HIDE DEF n
<1>4. node[n] \in NodeType
  BY <1>3 DEF TypeInv
<1>5. PICK O \in {{}, node[n].algs} : node' = [node EXCEPT ![n].on = O]
  BY <1>1
<1> DEFINE A == node[n].algs
<1>6. A \in SUBSET Drivers /\ O \in SUBSET Drivers
  BY <1>4, <1>5 DEF NodeType
<1>7. node' = [node EXCEPT ![n] = [node[n] EXCEPT !.algs = A, !.on = O]]
  BY <1>3, <1>4, <1>5 DEF TypeInv, NodeType
<1> HIDE DEF A
<1>8. /\ node' \in [NodeIds -> NodeType] /\ SameNodes
      /\ \A m \in NodeIds : node'[m].refcnt = node[m].refcnt
  BY <1>1, <1>3, <1>6, <1>7, AlgsChange
<1>9. TypeInv' /\ Frame(u)
  BY <1>1, <1>8 DEF TypeInv, Frame
<1>10. LocalOf(u)' /\ ptr[u] = Null
  BY <1>1 DEF LocalInv, LocalOf
<1>11. RefKept(u)
  BY <1>1, <1>8 DEF RefKept
<1> QED BY <1>1, <1>8, <1>9, <1>10, <1>11 DEF Calm

\* wd_get_drv_array reads the counter and the head of the list.
LEMMA StartCalm ==
  ASSUME TypeInv, ListInv, LocalInv, NEW u \in Users, DiscoverStart(u)
  PROVE  Calm(u) /\ RefKept(u)
<1>1. /\ pc[u] = "open" /\ list' = list /\ node' = node
      /\ drv_type_num' = drv_type_num /\ loads' = loads /\ loader' = loader
      /\ todo' = todo /\ arr' = arr /\ count' = [count EXCEPT ![u] = 0]
      /\ max' = [max EXCEPT ![u] = drv_type_num]
      /\ ptr' = [ptr EXCEPT ![u] = First]
      /\ pc' = [pc EXCEPT ![u] = "walk"]
  BY DEF DiscoverStart, regVars
<1>2. First = Null \/ First \in Live
  BY FromLive
<1>3. First \in NodeIds \cup {Null}
  BY <1>2, IndexOf
<1>4. drv_type_num \in Nat
  BY IndexOf DEF ListInv
<1>5. TypeInv'
  BY <1>1, <1>3, <1>4 DEF TypeInv, Labels
<1>6. pc'[u] = "walk" /\ ptr'[u] = First /\ max'[u] = drv_type_num /\ count'[u] = 0
  BY <1>1 DEF TypeInv
<1>7. Frame(u)
  BY <1>1 DEF TypeInv, Frame
<1>8. arr[u] = {}
  BY <1>1 DEF LocalInv, LocalOf
<1>10. LocalOf(u)'
  BY <1>4, <1>6 DEF LocalOf
<1>11. SameNodes
  BY <1>1 DEF SameNodes
<1>12. RefKept(u)
  BY <1>1, <1>6 DEF RefKept
<1> QED BY <1>1, <1>2, <1>5, <1>6, <1>7, <1>10, <1>11, <1>12 DEF Calm, Busy,
           Drops, Stands

\* The walk takes a node's driver or passes the node over.
LEMMA WalkCalm ==
  ASSUME TypeInv, ListInv, LocalInv, NEW u \in Users, DiscoverTake(u) \/ DiscoverPass(u)
  PROVE  Calm(u) /\ RefKept(u)
<1> DEFINE e == node[ptr[u]].drv
           a == arr[u] \cup {e}
<1>1. /\ pc[u] = "walk" /\ ptr[u] \in Live /\ list' = list /\ node' = node
      /\ drv_type_num' = drv_type_num /\ loads' = loads /\ loader' = loader
      /\ pc' = pc /\ todo' = todo /\ max' = max
      /\ ptr' = [ptr EXCEPT ![u] = Succ(ptr[u])]
      /\ \/ arr' = arr /\ count' = count
         \/ /\ arr' = [arr EXCEPT ![u] = arr[u] \cup {e}]
            /\ count' = [count EXCEPT ![u] = count[u] + 1] /\ count[u] < max[u]
  BY DEF DiscoverTake, DiscoverPass, WalkNext, regVars
<1>2. Succ(ptr[u]) = Null \/ Succ(ptr[u]) \in Live
  BY <1>1, FromLive
<1>3. Succ(ptr[u]) \in NodeIds \cup {Null}
  BY <1>2, IndexOf
<1>4. e \in Drivers
  <2>1. PICK i \in 1 .. Len(list) : ptr[u] = list[i]
    BY <1>1, IndexOf
  <2> QED BY <2>1 DEF ListInv
<1>5. a \in SUBSET Drivers
  BY <1>4 DEF TypeInv
<1>6. TypeInv'
  BY <1>1, <1>3, <1>5 DEF TypeInv
<1>7. /\ ptr'[u] = Succ(ptr[u])
      /\ arr'[u] = arr[u] \/ arr'[u] = a
      /\ count'[u] = count[u] \/ (count'[u] = count[u] + 1 /\ count[u] < max[u])
  BY <1>1 DEF TypeInv
<1>8. Frame(u)
  BY <1>1 DEF TypeInv, Frame
<1>9. count[u] <= max[u] /\ max[u] \in Nat /\ count[u] \in Nat
  BY <1>1 DEF LocalInv, LocalOf, TypeInv
<1>11. count'[u] <= max[u]
  BY <1>7, <1>9
<1>12. LocalOf(u)'
  BY <1>1, <1>11 DEF LocalOf
<1>13. SameNodes
  BY <1>1 DEF SameNodes
<1>14. RefKept(u)
  BY <1>1 DEF RefKept
<1>15. \A x \in arr'[u] : x \in arr[u] \/ \E n \in Live : node[n].drv = x
  BY <1>1, <1>7
<1> QED BY <1>1, <1>2, <1>6, <1>7, <1>8, <1>12, <1>13, <1>14, <1>15 DEF Calm

\* The walk ends.
LEMMA EndCalm ==
  ASSUME TypeInv, ListInv, LocalInv, NEW u \in Users,
         DiscoverOverflow(u) \/ DiscoverOk(u) \/ DiscoverNone(u)
  PROVE  Calm(u) /\ RefKept(u)
<1>1. \E q \in {"open", "found"} :
      /\ pc[u] = "walk" /\ list' = list /\ node' = node
      /\ drv_type_num' = drv_type_num /\ loads' = loads /\ loader' = loader
      /\ todo' = todo /\ max' = [max EXCEPT ![u] = 0] /\ count' = [count EXCEPT ![u] = 0]
      /\ ptr' = [ptr EXCEPT ![u] = Null] /\ pc' = [pc EXCEPT ![u] = q]
      /\ arr' = [arr EXCEPT ![u] = {}] \/ (arr' = arr /\ (q = "found" \/ arr[u] = {}))
  BY DEF DiscoverOverflow, DiscoverOk, DiscoverNone, DiscoverEnd, regVars
<1>2. PICK q \in {"open", "found"} :
      /\ pc[u] = "walk" /\ list' = list /\ node' = node
      /\ drv_type_num' = drv_type_num /\ loads' = loads /\ loader' = loader
      /\ todo' = todo /\ max' = [max EXCEPT ![u] = 0] /\ count' = [count EXCEPT ![u] = 0]
      /\ ptr' = [ptr EXCEPT ![u] = Null] /\ pc' = [pc EXCEPT ![u] = q]
      /\ arr' = [arr EXCEPT ![u] = {}] \/ (arr' = arr /\ (q = "found" \/ arr[u] = {}))
  BY <1>1
<1>3. TypeInv'
  BY <1>2 DEF TypeInv, Labels
<1>4. /\ pc'[u] = q /\ ptr'[u] = Null
      /\ arr'[u] = {} \/ (arr'[u] = arr[u] /\ q = "found")
  BY <1>2 DEF TypeInv
<1>5. Frame(u)
  BY <1>2 DEF TypeInv, Frame
<1>7. LocalOf(u)'
  BY <1>4 DEF LocalOf
<1>8. SameNodes
  BY <1>2 DEF SameNodes
<1>9. RefKept(u)
  BY <1>2, <1>4 DEF RefKept
<1> QED BY <1>2, <1>3, <1>4, <1>5, <1>7, <1>8, <1>9 DEF Calm, Busy, Drops,
           Stands

\* Bind and Unbind change the counts.
LEMMA BindCalm ==
  ASSUME TypeInv, ListInv, LocalInv, NEW u \in Users, NEW delta \in {-1, 1},
         \/ Bind(u) /\ delta = 1
         \/ Unbind(u) /\ delta = -1
  PROVE  Calm(u) /\ \A n \in NodeIds : node'[n] = Bumped(u, n, delta)
<1>1. /\ pc[u] \in {"found", "bound"} /\ list' = list
      /\ node' = [n \in NodeIds |-> Bumped(u, n, delta)]
      /\ drv_type_num' = drv_type_num /\ loads' = loads /\ loader' = loader
      /\ todo' = todo /\ max' = max /\ count' = count /\ ptr' = ptr
      /\ pc' = [pc EXCEPT ![u] = IF pc[u] = "found" THEN "bound" ELSE "open"]
      /\ arr' = IF pc[u] = "found" THEN arr ELSE [arr EXCEPT ![u] = {}]
  BY DEF Bind, Unbind
<1>2. ASSUME NEW n \in NodeIds
      PROVE  /\ Bumped(u, n, delta) \in NodeType
             /\ Bumped(u, n, delta).name = node[n].name
             /\ Bumped(u, n, delta).class = node[n].class
             /\ Bumped(u, n, delta).drv = node[n].drv
  <2>1. node[n] \in NodeType
    BY DEF TypeInv
  <2>2. node[n].refcnt + delta \in Int
    BY <2>1 DEF NodeType
  <2>3. /\ [node[n] EXCEPT !.refcnt = @ + delta] \in NodeType
        /\ [node[n] EXCEPT !.refcnt = @ + delta].name = node[n].name
        /\ [node[n] EXCEPT !.refcnt = @ + delta].class = node[n].class
        /\ [node[n] EXCEPT !.refcnt = @ + delta].drv = node[n].drv
    BY <2>1, <2>2 DEF NodeType
  <2> QED BY <2>1, <2>3 DEF Bumped
<1>3. \A n \in NodeIds : node'[n] = Bumped(u, n, delta)
  BY <1>1
<1>4. SameNodes /\ node' \in [NodeIds -> NodeType]
  BY <1>1, <1>2, <1>3 DEF SameNodes
<1>5. TypeInv'
  BY <1>1, <1>4 DEF TypeInv, Labels
<1>6. /\ pc'[u] = IF pc[u] = "found" THEN "bound" ELSE "open"
      /\ arr'[u] = IF pc[u] = "found" THEN arr[u] ELSE {}
      /\ ptr'[u] = Null
  BY <1>1 DEF TypeInv, LocalInv, LocalOf
<1>7. Frame(u)
  BY <1>1 DEF TypeInv, Frame
<1>9. LocalOf(u)'
  BY <1>1, <1>6 DEF LocalOf
<1> QED BY <1>1, <1>3, <1>4, <1>5, <1>6, <1>7, <1>9 DEF Calm, Busy, Drops,
           Stands

\* An array is released without having been bound.
LEMMA ReleaseCalm ==
  ASSUME TypeInv, ListInv, LocalInv, NEW u \in Users, Release(u)
  PROVE  Calm(u) /\ RefKept(u)
<1>1. /\ pc[u] = "found" /\ list' = list /\ node' = node
      /\ drv_type_num' = drv_type_num /\ loads' = loads /\ loader' = loader
      /\ todo' = todo /\ ptr' = ptr /\ max' = max /\ count' = count
      /\ arr' = [arr EXCEPT ![u] = {}] /\ pc' = [pc EXCEPT ![u] = "open"]
  BY DEF Release, regVars
<1>2. TypeInv'
  BY <1>1 DEF TypeInv, Labels
<1>3. pc'[u] = "open" /\ arr'[u] = {} /\ ptr'[u] = Null
  BY <1>1 DEF TypeInv, LocalInv, LocalOf
<1>4. Frame(u)
  BY <1>1 DEF TypeInv, Frame
<1>5. LocalOf(u)'
  BY <1>3 DEF LocalOf
<1>6. SameNodes
  BY <1>1 DEF SameNodes
<1>7. RefKept(u)
  BY <1>1, <1>3 DEF RefKept
<1> QED BY <1>1, <1>2, <1>3, <1>4, <1>5, <1>6, <1>7 DEF Calm, Busy, Drops,
           Stands

\* The probe and remove functions of a static build.
LEMMA StaticCalm ==
  ASSUME TypeInv, ListInv, LocalInv, NEW u \in Users, OpenStatic(u) \/ CloseStatic(u)
  PROVE  Calm(u) /\ RefKept(u)
<1>1. \E q \in {"probe", "remove"} :
      /\ build = "static" /\ pc[u] \in {"closed", "open"} /\ list' = list /\ node' = node
      /\ drv_type_num' = drv_type_num /\ loads' = loads /\ loader' = loader
      /\ max' = max /\ count' = count /\ arr' = arr /\ ptr' = ptr
      /\ todo' = [todo EXCEPT ![u] = DriversOf(Own[u])] /\ pc' = [pc EXCEPT ![u] = q]
  BY DEF OpenStatic, CloseStatic, regVars
<1>2. PICK q \in {"probe", "remove"} :
      /\ build = "static" /\ pc[u] \in {"closed", "open"} /\ list' = list /\ node' = node
      /\ drv_type_num' = drv_type_num /\ loads' = loads /\ loader' = loader
      /\ max' = max /\ count' = count /\ arr' = arr /\ ptr' = ptr
      /\ todo' = [todo EXCEPT ![u] = DriversOf(Own[u])] /\ pc' = [pc EXCEPT ![u] = q]
  BY <1>1
<1>3. TypeInv'
  BY <1>2 DEF TypeInv, Labels, DriversOf
<1>4. pc'[u] = q /\ ptr'[u] = Null
  BY <1>2 DEF TypeInv, LocalInv, LocalOf
<1>5. Frame(u)
  BY <1>2 DEF TypeInv, Frame
<1>6. LocalOf(u)'
  BY <1>2, <1>4 DEF LocalInv, LocalOf
<1>7. SameNodes
  BY <1>2 DEF SameNodes
<1>8. RefKept(u)
  BY <1>2, <1>4 DEF RefKept
<1> QED BY <1>2, <1>3, <1>4, <1>5, <1>6, <1>7, <1>8 DEF Calm

\* dlopen and dlclose take the loader's lock ...
Loads(u) == \E l \in Libs : OpenDynamic(u, l)
Unloads(u) == \E l \in Libs : CloseDynamic(u, l)

LEMMA LockStep ==
  ASSUME TypeInv, ListInv, LocalInv, NEW u \in Users, Loads(u) \/ Unloads(u)
  PROVE  /\ Frame(u) /\ SameNodes /\ TypeInv' /\ LocalOf(u)' /\ RefKept(u)
         /\ build = "dynamic" /\ loader = Null /\ loader' = u
         /\ ptr'[u] = Null /\ arr'[u] = {} /\ arr[u] = {}
         /\ pc[u] \notin Busy
         /\ Loads(u) => pc'[u] = "probe"
         /\ Unloads(u) => pc'[u] = "remove"
<1>1. PICK l \in Libs : OpenDynamic(u, l) \/ CloseDynamic(u, l)
  BY DEF Loads, Unloads
<1>2. \E D \in SUBSET Drivers, q \in {"probe", "remove"} :
      /\ build = "dynamic" /\ loader = Null /\ loader' = u
      /\ list' = list /\ node' = node /\ drv_type_num' = drv_type_num
      /\ max' = max /\ count' = count /\ arr' = arr /\ ptr' = ptr
      /\ todo' = [todo EXCEPT ![u] = D] /\ pc' = [pc EXCEPT ![u] = q]
      /\ pc[u] \in {"closed", "opening", "open", "closing"}
  <2>1. DriversOf(l) \in SUBSET Drivers /\ {} \in SUBSET Drivers
    BY DEF DriversOf
  <2>2. CASE OpenDynamic(u, l)
    BY <2>1, <2>2 DEF OpenDynamic, regVars
  <2>3. CASE CloseDynamic(u, l)
    BY <2>1, <2>3 DEF CloseDynamic, regVars
  <2> QED BY <1>1, <2>2, <2>3
<1>3. PICK D \in SUBSET Drivers, q \in {"probe", "remove"} :
      /\ build = "dynamic" /\ loader = Null /\ loader' = u
      /\ list' = list /\ node' = node /\ drv_type_num' = drv_type_num
      /\ max' = max /\ count' = count /\ arr' = arr /\ ptr' = ptr
      /\ todo' = [todo EXCEPT ![u] = D] /\ pc' = [pc EXCEPT ![u] = q]
      /\ pc[u] \in {"closed", "opening", "open", "closing"}
  BY <1>2
<1>4. loads' \in [Libs -> Int]
  BY <1>1 DEF OpenDynamic, CloseDynamic, TypeInv
<1>5. TypeInv'
  BY <1>3, <1>4 DEF TypeInv, Labels
<1>6. /\ pc'[u] = q
      /\ Loads(u) => pc'[u] = "probe"
      /\ Unloads(u) => pc'[u] = "remove"
  BY <1>3 DEF OpenDynamic, CloseDynamic, Loads, Unloads, TypeInv
<1>7. arr[u] = {} /\ ptr[u] = Null
  BY <1>3 DEF LocalInv, LocalOf
<1>8. Frame(u)
  BY <1>3 DEF TypeInv, Frame
<1>9. LocalOf(u)'
  BY <1>3, <1>6, <1>7 DEF LocalInv, LocalOf
<1>10. SameNodes
  BY <1>3 DEF SameNodes
<1>11. RefKept(u)
  BY <1>3, <1>6 DEF RefKept
<1> QED BY <1>3, <1>5, <1>6, <1>7, <1>8, <1>9, <1>10, <1>11 DEF Busy

\* ... and give it back.
LEMMA UnlockStep ==
  ASSUME TypeInv, ListInv, LocalInv, NEW u \in Users, OpenDone(u) \/ CloseDone(u)
  PROVE  /\ Frame(u) /\ SameNodes /\ TypeInv' /\ LocalOf(u)' /\ RefKept(u)
         /\ loader' = (IF loader = u THEN Null ELSE loader) /\ loads' = loads
         /\ pc[u] \in Busy /\ pc'[u] \notin Busy /\ todo'[u] = {}
         /\ pc'[u] \in Stands => (build = "dynamic" => held[u] = Opens(u))
         /\ ptr'[u] = Null /\ arr'[u] = {} /\ arr[u] = {}
<1>1. \E q \in {"opening", "open", "closing", "closed"} :
      /\ todo[u] = {} /\ loader' = (IF loader = u THEN Null ELSE loader)
      /\ list' = list /\ node' = node /\ drv_type_num' = drv_type_num
      /\ max' = max /\ count' = count /\ arr' = arr /\ ptr' = ptr /\ todo' = todo
      /\ loads' = loads
      /\ pc[u] \in {"probe", "remove"} /\ pc' = [pc EXCEPT ![u] = q]
      /\ q = "open" /\ build = "dynamic" => held[u] = Opens(u)
  BY DEF OpenDone, CloseDone, regVars
<1>2. PICK q \in {"opening", "open", "closing", "closed"} :
      /\ todo[u] = {} /\ loader' = (IF loader = u THEN Null ELSE loader)
      /\ list' = list /\ node' = node /\ drv_type_num' = drv_type_num
      /\ max' = max /\ count' = count /\ arr' = arr /\ ptr' = ptr /\ todo' = todo
      /\ loads' = loads
      /\ pc[u] \in {"probe", "remove"} /\ pc' = [pc EXCEPT ![u] = q]
      /\ q = "open" /\ build = "dynamic" => held[u] = Opens(u)
  BY <1>1
<1>3. TypeInv'
  BY <1>2 DEF TypeInv, Labels
<1>4. pc'[u] = q
  BY <1>2 DEF TypeInv
<1>5. arr[u] = {} /\ ptr[u] = Null
  BY <1>2 DEF LocalInv, LocalOf
<1>6. Frame(u)
  BY <1>2 DEF TypeInv, Frame
<1>7. LocalOf(u)'
  BY <1>2, <1>4, <1>5 DEF LocalInv, LocalOf
<1>8. SameNodes
  BY <1>2 DEF SameNodes
<1>9. RefKept(u)
  BY <1>2, <1>4 DEF RefKept
<1> QED BY <1>2, <1>3, <1>4, <1>5, <1>6, <1>7, <1>8, <1>9 DEF Busy, Stands

\* A node is added for a new driver name and class.
LEMMA AddStep ==
  ASSUME TypeInv, ListInv, LocalInv, NEW u \in Users, NEW d \in Drivers,
         RegisterNode(u, d)
  PROVE  /\ Frame(u) /\ TypeInv' /\ ListInv' /\ LocalOf(u)'
         /\ loads' = loads /\ loader' = loader /\ ptr'[u] = Null /\ arr'[u] = arr[u]
         /\ pc[u] = "register" /\ pc'[u] = "probe" /\ todo'[u] = todo[u] \ {d}
         /\ d \in todo[u] /\ Holding(ptr[u], d) = {}
         /\ \E n \in NodeIds \ Live :
              /\ Live' = Live \cup {n} /\ node'[n].refcnt = 0 /\ node'[n].drv = d
              /\ node'[n].name = Name[d] /\ node'[n].class = Class[d]
              /\ \A m \in NodeIds : m # n => node'[m] = node[m]
<1> DEFINE r == [name |-> Name[d], class |-> Class[d], drv |-> d, algs |-> {d},
                 on |-> {d}, refcnt |-> 0]
<1>1. /\ pc[u] = "register" /\ d \in Turn(u) /\ Holding(ptr[u], d) = {}
      /\ \E n \in Fresh : node' = [node EXCEPT ![n] = r] /\ list' = Append(list, n)
      /\ drv_type_num' = drv_type_num + 1 /\ loads' = loads /\ loader' = loader
      /\ max' = max /\ count' = count /\ arr' = arr /\ todo' = [todo EXCEPT ![u] = todo[u] \ {d}]
      /\ ptr' = [ptr EXCEPT ![u] = Null] /\ pc' = [pc EXCEPT ![u] = "probe"]
  BY DEF RegisterNode, RegisterDone
<1>2. d \in todo[u]
  BY <1>1 DEF Turn
<1>a. Name[d] \in Texts /\ Class[d] \in Texts
  BY DriverAssumption DEF Texts
<1>3. /\ r \in NodeType /\ r.name = Name[d] /\ r.class = Class[d] /\ r.drv = d
      /\ r.refcnt = 0
  BY <1>a DEF NodeType
<1> HIDE DEF r
<1>4. PICK n \in Fresh : node' = [node EXCEPT ![n] = r] /\ list' = Append(list, n)
  BY <1>1
<1>5. n \in NodeIds /\ n \notin Live
  BY DEF Fresh
<1>6. /\ list' \in Seq(NodeIds) /\ Len(list') = Len(list) + 1
      /\ \A i, j \in 1 .. Len(list') : list'[i] = list'[j] => i = j
      /\ Live' = Live \cup {n}
  BY <1>4, <1>5, AppendList
<1>7. node'[n] = r /\ \A m \in NodeIds : m # n => node'[m] = node[m]
  BY <1>4, <1>5 DEF TypeInv
<1>8. TypeInv'
  BY <1>1, <1>3, <1>4 DEF TypeInv, Labels
<1>9. ListInv'
  <2>1. drv_type_num' = Len(list')
    BY <1>1, <1>6 DEF ListInv
  <2>2. \A m \in Live : m \in NodeIds /\ node[m].drv \in Drivers
    BY IndexOf DEF ListInv
  <2>3. \A m \in Live' : node'[m].drv \in Drivers
    BY <1>3, <1>5, <1>6, <1>7, <2>2
  <2>4. \A i \in 1 .. Len(list') : list'[i] \in Live'
    BY <1>6, LenProperties DEF Live
  <2> QED BY <1>6, <2>1, <2>3, <2>4 DEF ListInv
<1>10. pc'[u] = "probe" /\ ptr'[u] = Null /\ todo'[u] = todo[u] \ {d}
  BY <1>1 DEF TypeInv
<1>11. Frame(u)
  BY <1>1 DEF TypeInv, Frame
<1>12. LocalOf(u)'
  BY <1>1, <1>10 DEF LocalInv, LocalOf
<1> QED BY <1>1, <1>2, <1>3, <1>5, <1>6, <1>7, <1>8, <1>9, <1>10, <1>11, <1>12

\* The contents of a freed node.
LEMMA BlankTyped == Blank \in NodeType
<1>1. /\ "" \in Texts /\ Null \in Drivers \cup {Null} /\ {} \in SUBSET Drivers
      /\ 0 \in Int
  BY DEF Texts
<1> QED BY <1>1, Zenon DEF NodeType, Blank

\* A node is taken out with its last algorithm.
LEMMA DropStep ==
  ASSUME TypeInv, ListInv, LocalInv, NEW u \in Users, NEW d \in Drivers,
         UnregisterDrv(u, d), node[Earliest(Holding(ptr[u], d))].algs \ {d} = {}
  PROVE  /\ Frame(u) /\ TypeInv' /\ ListInv' /\ LocalOf(u)'
         /\ loads' = loads /\ loader' = loader /\ ptr'[u] = Null /\ arr'[u] = arr[u]
         /\ pc[u] = "unregister" /\ pc'[u] = "remove" /\ todo'[u] = todo[u] \ {d}
         /\ d \in todo[u]
         /\ \E n \in Live : /\ Live' = Live \ {n}
                            /\ \A m \in NodeIds : m # n => node'[m] = node[m]
<1> DEFINE n == Earliest(Holding(ptr[u], d))
<1>1. /\ pc[u] = "unregister" /\ d \in Turn(u) /\ InList(u)
      /\ Holding(ptr[u], d) # {}
      /\ node' = [node EXCEPT ![n] = Blank] /\ list' = Remove(n)
      /\ drv_type_num' = drv_type_num - 1 /\ loads' = loads /\ loader' = loader
      /\ max' = max /\ count' = count /\ arr' = arr /\ todo' = [todo EXCEPT ![u] = todo[u] \ {d}]
      /\ ptr' = [ptr EXCEPT ![u] = Null] /\ pc' = [pc EXCEPT ![u] = "remove"]
  BY DEF UnregisterDrv, UnregisterDone
<1>2. d \in todo[u]
  BY <1>1 DEF Turn
<1>3. Blank \in NodeType
  BY BlankTyped
<1>4. n \in Live /\ n \in NodeIds
  BY <1>1, HoldingNode
<1> HIDE DEF n
<1>5. /\ list' \in Seq(NodeIds) /\ Len(list') = Len(list) - 1
      /\ \A i, j \in 1 .. Len(list') : list'[i] = list'[j] => i = j
      /\ Live' = Live \ {n}
  BY <1>1, <1>4, RemoveList
<1>6. \A m \in NodeIds : m # n => node'[m] = node[m]
  BY <1>1, <1>4 DEF TypeInv
<1>7. TypeInv'
  BY <1>1, <1>3, <1>4 DEF TypeInv, Labels
<1>8. ListInv'
  <2>1. drv_type_num' = Len(list')
    BY <1>1, <1>5 DEF ListInv
  <2>2. \A m \in Live : m \in NodeIds /\ node[m].drv \in Drivers
    BY IndexOf DEF ListInv
  <2>3. \A m \in Live' : node'[m].drv \in Drivers
    BY <1>5, <1>6, <2>2
  <2>4. \A i \in 1 .. Len(list') : list'[i] \in Live'
    BY <1>5, LenProperties DEF Live
  <2> QED BY <1>5, <2>1, <2>3, <2>4 DEF ListInv
<1>9. pc'[u] = "remove" /\ ptr'[u] = Null /\ todo'[u] = todo[u] \ {d}
  BY <1>1 DEF TypeInv
<1>10. Frame(u)
  BY <1>1 DEF TypeInv, Frame
<1>11. LocalOf(u)'
  BY <1>1, <1>9 DEF LocalInv, LocalOf
<1> QED BY <1>1, <1>2, <1>4, <1>5, <1>6, <1>7, <1>8, <1>9, <1>10, <1>11

\* Every step is of one of eight kinds.
CalmStep(u) == Calm(u) /\ RefKept(u)
BindStep(u) == Calm(u) /\ (Bind(u) \/ Unbind(u))
AddsNode(u, d) == RegisterNode(u, d)
DropsNode(u, d) == /\ UnregisterDrv(u, d)
                   /\ node[Earliest(Holding(ptr[u], d))].algs \ {d} = {}
Kinds(u) ==
  \/ Loads(u) \/ Unloads(u)
  \/ /\ held' = held /\ pinned' = pinned
     /\ \/ CalmStep(u) \/ BindStep(u)
        \/ OpenDone(u) \/ CloseDone(u)
        \/ \E d \in Drivers : AddsNode(u, d) \/ DropsNode(u, d)

LEMMA StepKinds ==
  ASSUME TypeInv, ListInv, LocalInv, Next
  PROVE  /\ build' = build /\ init_type' = init_type
         /\ \E u \in Users : Kinds(u)
<1>1. PICK u \in Users :
        \/ Work(u)
        \/ \E l \in Libs : OpenDynamic(u, l) \/ CloseDynamic(u, l)
        \/ /\ \/ OpenStatic(u) \/ DiscoverStart(u) \/ Bind(u) \/ Unbind(u)
              \/ Release(u) \/ CloseStatic(u)
              \/ \E d \in Switched : Disable(u, d) \/ Enable(u, d)
           /\ UNCHANGED libVars
  BY Zenon DEF Next
<1>2. build' = build /\ init_type' = init_type
  BY DEF Next, fixed
<1>3. \/ Loads(u) \/ Unloads(u)
      \/ /\ held' = held /\ pinned' = pinned
         /\ \/ RegisterEnter(u) \/ UnregisterEnter(u) \/ OpenDone(u) \/ CloseDone(u)
            \/ Walk(u) \/ OpenStatic(u) \/ DiscoverStart(u)
            \/ Bind(u) \/ Unbind(u) \/ Release(u) \/ CloseStatic(u)
            \/ \E d \in Drivers : \/ RegisterNode(u, d) \/ RegisterAlg(u, d)
                                  \/ RegisterSkip(u, d) \/ UnregisterSkip(u, d)
                                  \/ UnregisterDrv(u, d) \/ Disable(u, d) \/ Enable(u, d)
  <2>1. Switched \subseteq Drivers
    BY DriverAssumption
  <2>2. UNCHANGED libVars => held' = held /\ pinned' = pinned
    BY DEF libVars
  <2> QED BY <1>1, <2>1, <2>2, Zenon DEF Work, Loads, Unloads
<1>4. ASSUME RegisterEnter(u) \/ UnregisterEnter(u) PROVE CalmStep(u)
  BY <1>4, EnterCalm DEF CalmStep
<1>5. ASSUME Walk(u) PROVE CalmStep(u)
  <2>1. CASE DiscoverTake(u) \/ DiscoverPass(u)
    BY <2>1, WalkCalm DEF CalmStep
  <2>2. CASE DiscoverOverflow(u) \/ DiscoverOk(u) \/ DiscoverNone(u)
    BY <2>2, EndCalm DEF CalmStep
  <2> QED BY <1>5, <2>1, <2>2, Zenon DEF Walk
<1>6. ASSUME DiscoverStart(u) \/ Release(u) PROVE CalmStep(u)
  BY <1>6, StartCalm, ReleaseCalm DEF CalmStep
<1>7. ASSUME OpenStatic(u) \/ CloseStatic(u) PROVE CalmStep(u)
  BY <1>7, StaticCalm DEF CalmStep
<1>8. ASSUME Bind(u) \/ Unbind(u) PROVE BindStep(u)
  <2>1. CASE Bind(u)
    <3>1. 1 \in {-1, 1}
      OBVIOUS
    <3>2. Calm(u)
      BY <2>1, <3>1, BindCalm
    <3> QED BY <1>8, <3>2 DEF BindStep
  <2>2. CASE Unbind(u)
    <3>1. -1 \in {-1, 1}
      OBVIOUS
    <3>2. Calm(u)
      BY <2>2, <3>1, BindCalm
    <3> QED BY <1>8, <3>2 DEF BindStep
  <2> QED BY <1>8, <2>1, <2>2
<1>9. ASSUME NEW d \in Drivers,
             \/ RegisterNode(u, d) \/ RegisterAlg(u, d)
             \/ RegisterSkip(u, d) \/ UnregisterSkip(u, d)
             \/ UnregisterDrv(u, d) \/ Disable(u, d) \/ Enable(u, d)
      PROVE  CalmStep(u) \/ AddsNode(u, d) \/ DropsNode(u, d)
  <2>1. CASE RegisterNode(u, d)
    BY <2>1 DEF AddsNode
  <2>2. CASE RegisterAlg(u, d)
    BY <2>2, AlgCalm DEF CalmStep
  <2>3. CASE RegisterSkip(u, d) \/ UnregisterSkip(u, d)
    BY <2>3, SkipCalm DEF CalmStep
  <2>4. CASE UnregisterDrv(u, d)
    <3>1. CASE node[Earliest(Holding(ptr[u], d))].algs \ {d} = {}
      BY <2>4, <3>1, Zenon DEF DropsNode
    <3>2. CASE node[Earliest(Holding(ptr[u], d))].algs \ {d} # {}
      BY <2>4, <3>2, LeaveCalm, Zenon DEF CalmStep
    <3> QED BY <3>1, <3>2
  <2>5. CASE Disable(u, d) \/ Enable(u, d)
    BY <2>5, SwitchCalm DEF CalmStep
  <2> QED BY <1>9, <2>1, <2>2, <2>3, <2>4, <2>5
<1> QED BY <1>2, <1>3, <1>4, <1>5, <1>6, <1>7, <1>8, <1>9, Zenon DEF Kinds

-----------------------------------------------------------------------------
\* The list and its counter

\* The list stays as it is.
LEMMA SameList ==
  ASSUME ListInv, SameNodes
  PROVE  ListInv' /\ Live' = Live /\ First' = First /\ Live \subseteq NodeIds
<1>1. list' = list /\ drv_type_num' = drv_type_num
  BY DEF SameNodes
<1>2. Live' = Live /\ First' = First
  BY <1>1 DEF Live, First
<1>3. \A i \in 1 .. Len(list) : list[i] \in NodeIds
  BY IndexOf
<1>4. \A i \in 1 .. Len(list) : node'[list[i]].drv = node[list[i]].drv
  BY <1>3 DEF SameNodes
<1>5. ListInv'
  BY <1>1, <1>4 DEF ListInv
<1> QED BY <1>2, <1>5, IndexOf

\* In any build: the invariant of CountExact.
ListPart == TypeInv /\ ListInv /\ LocalInv

LEMMA ListPartInit == ASSUME Init PROVE ListPart
<1>1. TypeInv
  <2>1. node \in [NodeIds -> NodeType]
    BY BlankTyped DEF Init
  <2> QED BY <2>1 DEF Init, TypeInv, Labels
<1>2. ListInv
  BY DEF Init, ListInv
<1>3. LocalInv
  BY FS_EmptySet DEF Init, LocalInv, LocalOf
<1> QED BY <1>1, <1>2, <1>3 DEF ListPart

\* What a step of front end u leaves of the invariant.
LEMMA LocalStep ==
  ASSUME LocalInv, NEW u \in Users, Frame(u), LocalOf(u)'
  PROVE  LocalInv'
<1> SUFFICES ASSUME NEW v \in Users, v # u PROVE LocalOf(v)'
  BY DEF LocalInv
<1>1. /\ pc'[v] = pc[v] /\ ptr'[v] = ptr[v] /\ max'[v] = max[v]
      /\ count'[v] = count[v] /\ arr'[v] = arr[v]
  BY DEF Frame
<1> QED BY <1>1 DEF LocalInv, LocalOf

LEMMA ListPartStep == ASSUME ListPart, Next PROVE ListPart'
<1> USE DEF ListPart
<1>1. PICK u \in Users : Kinds(u)
  BY StepKinds
<1>2. CASE CalmStep(u) \/ BindStep(u)
  <2>1. Frame(u) /\ SameNodes /\ TypeInv' /\ LocalOf(u)'
    BY <1>2 DEF CalmStep, BindStep, Calm
  <2> QED BY <2>1, SameList, LocalStep
<1>3. CASE Loads(u) \/ Unloads(u)
  <2>1. Frame(u) /\ SameNodes /\ TypeInv' /\ LocalOf(u)'
    BY <1>3, LockStep
  <2> QED BY <2>1, SameList, LocalStep
<1>4. CASE OpenDone(u) \/ CloseDone(u)
  <2>1. Frame(u) /\ SameNodes /\ TypeInv' /\ LocalOf(u)'
    BY <1>4, UnlockStep
  <2> QED BY <2>1, SameList, LocalStep
<1>5. ASSUME NEW d \in Drivers, AddsNode(u, d) PROVE ListPart'
  <2>1. Frame(u) /\ ListInv' /\ TypeInv' /\ LocalOf(u)'
    BY <1>5, AddStep DEF AddsNode
  <2> QED BY <2>1, LocalStep
<1>6. ASSUME NEW d \in Drivers, DropsNode(u, d) PROVE ListPart'
  <2>1. Frame(u) /\ ListInv' /\ TypeInv' /\ LocalOf(u)'
    BY <1>6, DropStep DEF DropsNode
  <2> QED BY <2>1, LocalStep
<1> QED BY <1>1, <1>2, <1>3, <1>4, <1>5, <1>6 DEF Kinds

\* Nothing changes.
LEMMA ListPartStutter == ASSUME ListPart, UNCHANGED vars PROVE ListPart'
  BY DEF ListPart, TypeInv, ListInv, LocalInv, LocalOf, vars

\* In any build, however front ends interleave, drv_type_num is the number of
\* nodes of the list, no node is in it twice, and a walk stays in its array.
THEOREM ListInvariance == Spec => []ListPart
<1>1. Init => ListPart
  BY ListPartInit
<1>2. ListPart /\ [Next]_vars => ListPart'
  BY ListPartStep, ListPartStutter
<1> QED BY <1>1, <1>2, PTL DEF Spec

-----------------------------------------------------------------------------
\* The loader's lock

Apart == LoaderInv /\ NodesUnique

LEMMA ApartInit == ASSUME Init PROVE Apart
<1>1. LoaderInv
  BY UserAssumption DEF Init, LoaderInv, LoaderOf, Busy
<1>2. NodesUnique
  BY DEF Init, NodesUnique, Live
<1> QED BY <1>1, <1>2 DEF Apart

\* One name and class, one node, when no node changes them.
LEMMA SameUnique ==
  ASSUME NodesUnique, ListInv, SameNodes, build' = build
  PROVE  NodesUnique'
<1>1. Live' = Live /\ Live \subseteq NodeIds
  BY SameList
<1>2. \A n \in Live : node'[n].name = node[n].name /\ node'[n].class = node[n].class
  BY <1>1 DEF SameNodes
<1> QED BY <1>1, <1>2 DEF NodesUnique

\* The others do not load while u does.
LEMMA OthersWait ==
  ASSUME LoaderInv, build = "dynamic", NEW u \in Users, NEW v \in Users, v # u,
         pc[u] \in Busy \/ loader = Null
  PROVE  pc[v] \notin Busy
  BY UserAssumption DEF LoaderInv, LoaderOf

LEMMA ApartStep == ASSUME ListPart, Apart, Next PROVE Apart'
<1> USE DEF ListPart, Apart
<1>1. /\ build' = build
      /\ \E u \in Users : Kinds(u)
  BY StepKinds
<1>2. CASE build # "dynamic"
  BY <1>1, <1>2 DEF LoaderInv, NodesUnique
<1>3. CASE build = "dynamic"
  <2>1. PICK u \in Users : Kinds(u)
    BY <1>1
  <2>2. \A v \in Users : LoaderOf(v)
    BY <1>3 DEF LoaderInv
  <2>3. CASE CalmStep(u) \/ BindStep(u)
    <3>1. Calm(u)
      BY <2>3 DEF CalmStep, BindStep
    <3>2. NodesUnique' /\ First' = First
      BY <1>1, <3>1, SameUnique, SameList DEF Calm
    <3>3. LoaderOf(u)'
      BY <1>3, <2>2, <3>1, <3>2 DEF Calm, LoaderOf
    <3>4. ASSUME NEW v \in Users, v # u PROVE LoaderOf(v)'
      BY <2>2, <3>1, <3>2, <3>4 DEF Calm, Frame, LoaderOf
    <3> QED BY <3>2, <3>3, <3>4 DEF LoaderInv
  <2>4. CASE Loads(u) \/ Unloads(u)
    <3>1. /\ Frame(u) /\ SameNodes /\ loader = Null /\ loader' = u
          /\ pc'[u] \in {"probe", "remove"}
      BY <2>4, LockStep
    <3>2. NodesUnique' /\ First' = First
      BY <1>1, <3>1, SameUnique, SameList
    <3>3. LoaderOf(u)'
      BY <3>1 DEF LoaderOf, Busy
    <3>4. ASSUME NEW v \in Users, v # u PROVE LoaderOf(v)'
      <4>1. pc[v] \notin Busy
        BY <1>3, <3>1, <3>4, OthersWait
      <4> QED BY <3>1, <3>4, <4>1 DEF Frame, LoaderOf, Busy
    <3> QED BY <3>2, <3>3, <3>4 DEF LoaderInv
  <2>5. CASE OpenDone(u) \/ CloseDone(u)
    <3>1. /\ Frame(u) /\ SameNodes /\ loader' = (IF loader = u THEN Null ELSE loader)
          /\ pc[u] \in Busy /\ pc'[u] \notin Busy
      BY <2>5, UnlockStep
    <3>2. NodesUnique' /\ First' = First
      BY <1>1, <3>1, SameUnique, SameList
    <3>3. loader' = Null /\ Null \notin Users
      BY <2>2, <3>1, UserAssumption DEF LoaderOf
    <3>4. LoaderOf(u)'
      BY <3>1, <3>3 DEF LoaderOf, Busy
    <3>5. ASSUME NEW v \in Users, v # u PROVE LoaderOf(v)'
      <4>1. pc[v] \notin Busy
        BY <1>3, <3>1, <3>5, OthersWait
      <4> QED BY <3>1, <3>3, <3>5, <4>1 DEF Frame, LoaderOf, Busy
    <3> QED BY <3>2, <3>4, <3>5 DEF LoaderInv
  <2>6. ASSUME NEW d \in Drivers, AddsNode(u, d) \/ DropsNode(u, d)
        PROVE  LoaderInv'
    <3>1. /\ Frame(u) /\ loader' = loader /\ pc[u] \in {"register", "unregister"}
          /\ pc'[u] \in {"probe", "remove"}
      BY <2>6, AddStep, DropStep DEF AddsNode, DropsNode
    <3>2. loader = u
      BY <2>2, <3>1 DEF LoaderOf, Busy
    <3>3. LoaderOf(u)'
      BY <3>1, <3>2 DEF LoaderOf, Busy
    <3>4. ASSUME NEW v \in Users, v # u PROVE LoaderOf(v)'
      <4>1. pc[v] \notin Busy
        BY <2>2, <3>2, <3>4 DEF LoaderOf
      <4> QED BY <3>1, <3>2, <3>4, <4>1 DEF Frame, LoaderOf, Busy
    <3> QED BY <3>3, <3>4 DEF LoaderInv
  <2>7. ASSUME NEW d \in Drivers, AddsNode(u, d) PROVE NodesUnique'
    <3>1. Holding(ptr[u], d) = {} /\ pc[u] = "register"
      BY <2>7, AddStep DEF AddsNode
    <3>2. PICK n \in NodeIds \ Live :
              /\ Live' = Live \cup {n}
              /\ node'[n].name = Name[d] /\ node'[n].class = Class[d]
              /\ \A m \in NodeIds : m # n => node'[m] = node[m]
      BY <2>7, AddStep DEF AddsNode
    <3>3. ptr[u] = First /\ From(First) = Live /\ Live \subseteq NodeIds
      BY <2>2, <3>1, FromLive, IndexOf DEF LoaderOf
    <3>4. \A m \in Live : ~(node[m].name = Name[d] /\ node[m].class = Class[d])
      BY <3>1, <3>3 DEF Holding
    <3>5. \A m \in Live : node'[m] = node[m]
      BY <3>2, <3>3
    <3> QED BY <1>1, <1>3, <3>2, <3>4, <3>5 DEF NodesUnique
  <2>8. ASSUME NEW d \in Drivers, DropsNode(u, d) PROVE NodesUnique'
    <3>1. PICK n \in Live : /\ Live' = Live \ {n}
                            /\ \A m \in NodeIds : m # n => node'[m] = node[m]
      BY <2>8, DropStep DEF DropsNode
    <3>2. \A m \in Live' : m \in Live /\ node'[m] = node[m]
      BY <3>1, IndexOf
    <3> QED BY <1>1, <3>2 DEF NodesUnique
  <2> QED BY <2>1, <2>3, <2>4, <2>5, <2>6, <2>7, <2>8 DEF Kinds
<1> QED BY <1>2, <1>3

\* The list and its counter agree in any build, and in a dynamic build a driver
\* name and class has one node ("duplicate drivers will be skipped").
THEOREM ListStaysExact == Spec => []ListExact
<1>1. Init => ListPart /\ Apart
  BY ListPartInit, ApartInit
<1>2. ListPart /\ Apart /\ [Next]_vars => ListPart' /\ Apart'
  <2> SUFFICES ASSUME ListPart, Apart, [Next]_vars PROVE ListPart' /\ Apart'
    OBVIOUS
  <2>1. CASE Next
    BY <2>1, ListPartStep, ApartStep
  <2>2. CASE UNCHANGED vars
    <3>1. Apart'
      BY <2>2 DEF Apart, LoaderInv, LoaderOf, First, NodesUnique, Live, vars
    <3> QED BY <2>2, <3>1, ListPartStutter
  <2> QED BY <2>1, <2>2
<1>3. ListPart /\ Apart => ListExact
  BY DEF ListPart, Apart, ListExact, CountExact, ListInv, LocalInv, LocalOf
<1> QED BY <1>1, <1>2, <1>3, PTL DEF Spec

-----------------------------------------------------------------------------
\* The libraries

\* The front ends brought up by init are those of one library: cipher, digest and
\* AEAD of libhisi_sec, for example.
OneLib ==
  \A p \in Programs : p.build = "dynamic" =>
    \A u, v \in Users : p.init_type[u] = "init" /\ p.init_type[v] = "init" =>
                         Own[u] = Own[v]

LEMMA FiniteUsers ==
  /\ \A l : IsFiniteSet(HoldersOf(l))
  /\ \A d : IsFiniteSet(BoundTo(d))
<1>1. \A S : S \subseteq Users => IsFiniteSet(S)
  BY UserAssumption, FS_Subset
<1>2. (\A l : HoldersOf(l) \subseteq Users) /\ \A d : BoundTo(d) \subseteq Users
  BY DEF HoldersOf, BoundTo
<1> QED BY <1>1, <1>2

\* dlopen and dlclose count one front end more or less.
LEMMA LoadChange ==
  ASSUME ListPart, HeldInv, LoadInv, NEW u \in Users, Loads(u) \/ Unloads(u)
  PROVE  LoadInv'
<1>1. PICK k \in Libs : OpenDynamic(u, k) \/ CloseDynamic(u, k)
  BY DEF Loads, Unloads
<1>2. build = "dynamic" /\ held \in [Users -> SUBSET Libs] /\ loads \in [Libs -> Int]
  BY LockStep DEF ListPart, HeldInv, TypeInv
<1>3. /\ OpenDynamic(u, k) => /\ k \notin held[u] /\ held'[u] = held[u] \cup {k}
                              /\ loads' = [loads EXCEPT ![k] = loads[k] + 1]
      /\ CloseDynamic(u, k) => /\ k \in held[u] /\ held'[u] = held[u] \ {k}
                               /\ loads' = [loads EXCEPT ![k] = loads[k] - 1]
      /\ \A v \in Users : v # u => held'[v] = held[v]
  BY <1>1, <1>2 DEF OpenDynamic, CloseDynamic
<1> SUFFICES ASSUME NEW l \in Libs PROVE loads'[l] = Cardinality(HoldersOf(l)')
  BY DEF LoadInv
<1>4. loads[l] = Cardinality(HoldersOf(l)) /\ IsFiniteSet(HoldersOf(l))
  BY <1>2, FiniteUsers DEF LoadInv
<1>5. \A v \in Users : v # u => (v \in HoldersOf(l)' <=> v \in HoldersOf(l))
  BY <1>3 DEF HoldersOf
<1>6. HoldersOf(l) \subseteq Users /\ HoldersOf(l)' \subseteq Users
  BY DEF HoldersOf
<1>7. CASE l # k
  <2>1. u \in HoldersOf(l)' <=> u \in HoldersOf(l)
    BY <1>1, <1>3, <1>7 DEF HoldersOf
  <2>2. HoldersOf(l)' = HoldersOf(l)
    BY <1>5, <1>6, <2>1
  <2>3. loads'[l] = loads[l]
    BY <1>1, <1>2, <1>3, <1>7
  <2> QED BY <1>4, <2>2, <2>3
<1>8. CASE l = k /\ OpenDynamic(u, k)
  <2>1. u \notin HoldersOf(l) /\ u \in HoldersOf(l)'
    BY <1>3, <1>8 DEF HoldersOf
  <2>2. HoldersOf(l)' = HoldersOf(l) \cup {u}
    BY <1>5, <1>6, <2>1
  <2>3. loads'[l] = loads[l] + 1
    BY <1>2, <1>3, <1>8
  <2>4. Cardinality(HoldersOf(l) \cup {u}) = Cardinality(HoldersOf(l)) + 1
    BY <1>4, <2>1, FS_AddElement
  <2> QED BY <1>4, <2>2, <2>3, <2>4
<1>9. CASE l = k /\ CloseDynamic(u, k)
  <2>1. u \in HoldersOf(l) /\ u \notin HoldersOf(l)'
    BY <1>3, <1>9 DEF HoldersOf
  <2>2. HoldersOf(l)' = HoldersOf(l) \ {u}
    BY <1>5, <1>6, <2>1
  <2>3. loads'[l] = loads[l] - 1
    BY <1>2, <1>3, <1>9
  <2>4. Cardinality(HoldersOf(l) \ {u}) = Cardinality(HoldersOf(l)) - 1
    BY <1>4, <2>1, FS_RemoveElement
  <2> QED BY <1>4, <2>2, <2>3, <2>4
<1> QED BY <1>1, <1>7, <1>8, <1>9

\* What dlopen and dlclose leave of HeldInv.
LEMMA HeldChange ==
  ASSUME ListPart, HeldInv, NEW u \in Users, Loads(u) \/ Unloads(u),
         build' = build, init_type' = init_type
  PROVE  HeldInv'
<1>1. PICK k \in Libs : OpenDynamic(u, k) \/ CloseDynamic(u, k)
  BY DEF Loads, Unloads
<1>2. /\ build = "dynamic" /\ Frame(u) /\ pc'[u] \in {"probe", "remove"}
      /\ held \in [Users -> SUBSET Libs]
  BY LockStep DEF ListPart, HeldInv
<1>3. /\ held' \in [Users -> SUBSET Libs] /\ pinned \subseteq pinned'
      /\ \A v \in Users : v # u => held'[v] = held[v]
      /\ OpenDynamic(u, k) => /\ held'[u] = held[u] \cup {k} /\ k \in Opens(u)
                              /\ V2(u) => k \in pinned'
      /\ CloseDynamic(u, k) => /\ held'[u] = held[u] \ {k} /\ pc[u] \in {"open", "closing"}
                               /\ k \in held[u]
  BY <1>1, <1>2 DEF OpenDynamic, CloseDynamic
<1>4. \A v \in Users : Opens(v)' = Opens(v) /\ (V1(v)' <=> V1(v)) /\ (V2(v)' <=> V2(v))
  BY DEF Opens, V1, V2
<1>5. ASSUME NEW v \in Users PROVE HeldOf(v)'
  <2>1. HeldOf(v)
    BY <1>2 DEF HeldInv
  <2>2. CASE v # u
    <3>1. pc'[v] = pc[v] /\ held'[v] = held[v]
      BY <1>2, <1>3, <2>2 DEF Frame
    <3> QED BY <1>3, <1>4, <2>1, <3>1 DEF HeldOf
  <2>3. CASE v = u
    <3>1. k \in Opens(u)
      BY <1>1, <1>3, <2>1, <2>3 DEF HeldOf
    <3>2. V1(u) \/ V2(u)
      BY <3>1 DEF Opens
    <3>3. held'[u] \subseteq Opens(u) /\ (V2(u) => held'[u] \subseteq pinned')
      BY <1>1, <1>3, <2>1, <2>3 DEF HeldOf
    <3>4. pc'[u] \notin Stands
      BY <1>2 DEF Stands
    <3> QED BY <1>4, <2>3, <3>2, <3>3, <3>4 DEF HeldOf
  <2> QED BY <2>2, <2>3
<1>6. \E p \in Programs : build' = p.build /\ init_type' = p.init_type
  BY DEF HeldInv
<1> QED BY <1>3, <1>5, <1>6 DEF HeldInv

\* A step that is not dlopen or dlclose.
LEMMA HeldKept ==
  ASSUME HeldInv, NEW u \in Users, Frame(u), held' = held, pinned' = pinned,
         build' = build, init_type' = init_type,
         build = "dynamic" => /\ pc'[u] \in Busy \cup Stands => pc[u] \in Busy \cup Stands
                              /\ pc'[u] \in Stands => \/ pc[u] \in Stands
                                                      \/ held[u] = Opens(u)
  PROVE  HeldInv'
<1>1. \A v \in Users : Opens(v)' = Opens(v) /\ (V1(v)' <=> V1(v)) /\ (V2(v)' <=> V2(v))
  BY DEF Opens, V1, V2
<1>2. ASSUME build = "dynamic", NEW v \in Users PROVE HeldOf(v)'
  <2>1. HeldOf(v)
    BY <1>2 DEF HeldInv
  <2>2. CASE v # u
    <3>1. pc'[v] = pc[v]
      BY <2>2 DEF Frame
    <3> QED BY <1>1, <2>1, <3>1 DEF HeldOf
  <2>3. CASE v = u
    BY <1>1, <1>2, <2>1, <2>3 DEF HeldOf
  <2> QED BY <2>2, <2>3
<1> QED BY <1>2 DEF HeldInv

LEMMA LoadKept ==
  ASSUME LoadInv, held' = held, loads' = loads, build' = build PROVE LoadInv'
<1>1. \A l \in Libs : HoldersOf(l)' = HoldersOf(l)
  BY DEF HoldersOf
<1> QED BY <1>1 DEF LoadInv

\* When a library leaves the memory, no other front end looks at the list.
LEMMA AloneChange ==
  ASSUME OneLib, ListPart, HeldInv, LoadInv, NEW u \in Users, Unloads(u),
         todo'[u] # {}, NEW v \in Users, v # u
  PROVE  pc[v] \notin Stands
<1> SUFFICES ASSUME pc[v] \in Stands PROVE FALSE
  OBVIOUS
<1>1. PICK l \in Libs : CloseDynamic(u, l)
  BY DEF Unloads
<1>2. build = "dynamic"
  BY LockStep DEF ListPart
<1>3. l \in held[u] /\ loads[l] = 1 /\ l \notin pinned
  BY <1>1 DEF CloseDynamic, ListPart, TypeInv
<1>4. HeldOf(u) /\ HeldOf(v) /\ held[v] = Opens(v) /\ (V1(v) \/ V2(v))
  BY <1>2 DEF HeldInv, HeldOf
<1>5. ~V2(v)
  BY <1>3, <1>4 DEF HeldOf, Opens
<1>6. ~V2(u) /\ l \in Opens(u)
  BY <1>3, <1>4 DEF HeldOf
<1>7. V1(u) /\ l = Own[u]
  BY <1>6 DEF Opens
<1>8. Own[u] = Own[v]
  BY <1>2, <1>4, <1>5, <1>7 DEF HeldInv, OneLib, V1
<1>9. l \in held[v]
  BY <1>4, <1>5, <1>7, <1>8 DEF Opens
<1>10. u \in HoldersOf(l) /\ v \in HoldersOf(l)
  BY <1>3, <1>9 DEF HoldersOf
<1>11. Cardinality(HoldersOf(l)) = 1 /\ IsFiniteSet(HoldersOf(l))
  BY <1>2, <1>3, FiniteUsers DEF LoadInv
<1>12. \E x : HoldersOf(l) = {x}
  BY <1>11, FS_Singleton
<1> QED BY <1>10, <1>12

-----------------------------------------------------------------------------
\* Pointers and references

\* All parts of the invariant of a dynamic build.
DynPart == /\ HeldInv /\ LoadInv /\ AloneInv /\ NoStalePointer /\ NameInv /\ NodeInv
           /\ RefInv

LEMMA DynInit == ASSUME Init PROVE DynPart
<1>1. LoadInv
  <2>1. \A l \in Libs : HoldersOf(l) = {} /\ loads[l] = 0
    BY DEF Init, HoldersOf
  <2> QED BY <2>1, FS_EmptySet DEF LoadInv
<1>2. AloneInv /\ NoStalePointer /\ NodeInv
  BY DEF Init, AloneInv, Drops, NoStalePointer, NodeInv
<1>3. Live = {}
  BY DEF Init, Live
<1>4. RefInv /\ NameInv
  BY <1>3 DEF RefInv, NameInv
<1>5. HeldInv
  <2>1. held \in [Users -> SUBSET Libs]
    BY DEF Init
  <2>2. \A u \in Users : held[u] = {} /\ pc[u] = "closed"
    BY DEF Init
  <2>3. \A u \in Users : HeldOf(u)
    BY <2>2 DEF HeldOf, Busy, Stands
  <2> QED BY <2>1, <2>3 DEF Init, HeldInv
<1> QED BY <1>1, <1>2, <1>4, <1>5 DEF DynPart

\* Nothing but Bind and Unbind changes who is bound to what.
LEMMA BoundKept ==
  ASSUME NEW u \in Users, Frame(u), RefKept(u), NEW d PROVE BoundTo(d)' = BoundTo(d)
<1>1. \A v \in Users : /\ pc'[v] = "bound" <=> pc[v] = "bound"
                       /\ pc[v] = "bound" => arr'[v] = arr[v]
  BY DEF Frame, RefKept
<1> QED BY <1>1 DEF BoundTo

\* The parts that a step keeps when it keeps the list and the nodes.
LEMMA SameRefs ==
  ASSUME ListPart, RefInv, NEW u \in Users, Frame(u), RefKept(u), SameNodes,
         build' = build
  PROVE  RefInv'
<1>1. Live' = Live /\ Live \subseteq NodeIds
  BY SameList DEF ListPart
<1>2. \A d \in Drivers : BoundTo(d)' = BoundTo(d)
  BY BoundKept
<1>3. \A n \in Live : node'[n].drv = node[n].drv /\ node'[n].refcnt = node[n].refcnt
  BY <1>1 DEF SameNodes, RefKept
<1> QED BY <1>1, <1>2, <1>3 DEF RefInv

\* Bind and Unbind: the nodes follow.
LEMMA BindRefs ==
  ASSUME ListPart, RefInv, NEW u \in Users, BindStep(u), build' = build
  PROVE  RefInv'
<1> USE DEF ListPart
<1>1. Frame(u) /\ SameNodes
  BY DEF BindStep, Calm
<1>2. Live' = Live /\ Live \subseteq NodeIds
  BY <1>1, SameList
<1> SUFFICES ASSUME build = "dynamic", NEW d \in Drivers, NEW n \in Live,
                    node[n].drv = d
             PROVE  node'[n].refcnt = Cardinality(BoundTo(d)')
  BY <1>1, <1>2 DEF RefInv, SameNodes
<1>3. node[n].refcnt = Cardinality(BoundTo(d)) /\ IsFiniteSet(BoundTo(d))
  BY FiniteUsers DEF RefInv
<1>4. \A v \in Users : v # u => (v \in BoundTo(d)' <=> v \in BoundTo(d))
  BY <1>1 DEF Frame, BoundTo
<1>5. BoundTo(d) \subseteq Users /\ BoundTo(d)' \subseteq Users
  BY DEF BoundTo
<1>6. n \in NodeIds /\ node[n] \in NodeType /\ node[n].refcnt \in Int
  BY <1>2 DEF TypeInv, NodeType
<1>7. CASE Bind(u)
  <2>1. 1 \in {-1, 1}
    OBVIOUS
  <2>2. node'[n] = Bumped(u, n, 1)
    BY <1>6, <1>7, <2>1, BindCalm
  <2>3. pc[u] = "found" /\ pc'[u] = "bound" /\ arr'[u] = arr[u]
    BY <1>7 DEF Bind, TypeInv
  <2>4. u \notin BoundTo(d) /\ (u \in BoundTo(d)' <=> d \in arr[u])
    BY <2>3 DEF BoundTo
  <2>5. CASE d \in arr[u]
    <3>1. BoundTo(d)' = BoundTo(d) \cup {u}
      BY <1>4, <1>5, <2>4, <2>5
    <3>2. Cardinality(BoundTo(d) \cup {u}) = Cardinality(BoundTo(d)) + 1
      BY <1>3, <2>4, FS_AddElement
    <3>3. node[n].refcnt \in Nat
      BY <1>3, FS_CardinalityType
    <3>4. node'[n] = [node[n] EXCEPT !.refcnt = @ + 1]
      BY <2>2, <2>5, <3>3 DEF Bumped
    <3>5. node'[n].refcnt = node[n].refcnt + 1
      BY <1>6, <3>4 DEF NodeType
    <3> QED BY <1>3, <3>1, <3>2, <3>5
  <2>6. CASE d \notin arr[u]
    <3>1. BoundTo(d)' = BoundTo(d)
      BY <1>4, <1>5, <2>4, <2>6
    <3>2. node'[n] = node[n]
      BY <2>2, <2>6 DEF Bumped
    <3> QED BY <1>3, <3>1, <3>2
  <2> QED BY <2>5, <2>6
<1>8. CASE Unbind(u)
  <2>1. -1 \in {-1, 1}
    OBVIOUS
  <2>2. node'[n] = Bumped(u, n, -1)
    BY <1>6, <1>8, <2>1, BindCalm
  <2>3. pc[u] = "bound" /\ pc'[u] = "open"
    BY <1>8 DEF Unbind, TypeInv
  <2>4. u \notin BoundTo(d)' /\ (u \in BoundTo(d) <=> d \in arr[u])
    BY <2>3 DEF BoundTo
  <2>5. CASE d \in arr[u]
    <3>1. BoundTo(d)' = BoundTo(d) \ {u} /\ u \in BoundTo(d)
      BY <1>4, <1>5, <2>4, <2>5
    <3>2. Cardinality(BoundTo(d) \ {u}) = Cardinality(BoundTo(d)) - 1
      BY <1>3, <3>1, FS_RemoveElement
    <3>3. Cardinality(BoundTo(d)) \in Nat /\ Cardinality(BoundTo(d)) # 0
      BY <1>3, <3>1, FS_CardinalityType, FS_EmptySet
    <3>4. node[n].refcnt + (-1) >= 0
      BY <1>3, <1>6, <3>3
    <3>5. node'[n] = [node[n] EXCEPT !.refcnt = @ + (-1)]
      BY <2>2, <2>5, <3>4 DEF Bumped
    <3>6. node'[n].refcnt = node[n].refcnt + (-1)
      BY <1>6, <3>5 DEF NodeType
    <3> QED BY <1>3, <1>6, <3>1, <3>2, <3>6
  <2>6. CASE d \notin arr[u]
    <3>1. BoundTo(d)' = BoundTo(d)
      BY <1>4, <1>5, <2>4, <2>6
    <3>2. node'[n] = node[n]
      BY <2>2, <2>6 DEF Bumped
    <3> QED BY <1>3, <3>1, <3>2
  <2> QED BY <2>5, <2>6
<1> QED BY <1>7, <1>8 DEF BindStep

\* While u has drivers to unregister no other front end has a pointer, an array or
\* a reference.
LEMMA OthersIdle ==
  ASSUME ListPart, LoaderInv, AloneInv, build = "dynamic", NEW u \in Users,
         pc[u] \in Drops, todo[u] # {}, NEW v \in Users, v # u
  PROVE  ptr[v] = Null /\ arr[v] = {}
<1>1. pc[v] \notin Busy
  BY OthersWait DEF Drops, Busy
<1>2. pc[v] \notin Stands
  BY DEF AloneInv
<1>3. pc[v] \notin {"register", "unregister", "walk", "found", "bound"}
  BY <1>1, <1>2 DEF Busy, Stands
<1> QED BY <1>3 DEF ListPart, LocalInv, LocalOf

\* A step that keeps the nodes: what it leaves of the other parts.
LEMMA KeepStep ==
  ASSUME ListPart, NoStalePointer, NodeInv, NameInv, build = "dynamic", build' = build,
         NEW u \in Users, Frame(u), SameNodes,
         ptr'[u] = Null \/ ptr'[u] \in Live,
         \A e \in arr'[u] : e \in arr[u] \/ \E n \in Live : node[n].drv = e
  PROVE  NoStalePointer' /\ NodeInv' /\ NameInv'
<1>1. Live' = Live /\ Live \subseteq NodeIds
  BY SameList DEF ListPart
<1>2. NoStalePointer'
  BY <1>1 DEF NoStalePointer, Frame
<1>3. \A n \in Live : /\ node'[n].drv = node[n].drv /\ node'[n].name = node[n].name
                      /\ node'[n].class = node[n].class
  BY <1>1 DEF SameNodes
<1>4. ASSUME NEW v \in Users, NEW d \in arr'[v] PROVE \E n \in Live : node[n].drv = d
  <2>1. CASE v = u
    BY <2>1, <1>4 DEF NodeInv
  <2>2. CASE v # u
    BY <2>2, <1>4 DEF Frame, NodeInv
  <2> QED BY <2>1, <2>2
<1>5. NodeInv' /\ NameInv'
  BY <1>1, <1>3, <1>4 DEF NodeInv, NameInv
<1> QED BY <1>2, <1>5

\* AloneInv when u does not come to look at the list and gets nothing to unregister.
LEMMA AloneKept ==
  ASSUME AloneInv, NEW u \in Users, Frame(u), build = "dynamic", build' = build,
         pc'[u] \in Stands => \/ pc[u] \in Stands
                              \/ \A v \in Users : v # u => pc[v] \notin Drops,
         todo'[u] # {} /\ pc'[u] \in Drops => todo[u] # {} /\ pc[u] \in Drops
  PROVE  AloneInv'
<1> SUFFICES ASSUME NEW v \in Users, NEW w \in Users, pc'[v] \in Drops, todo'[v] # {},
                    w # v
             PROVE  pc'[w] \notin Stands
  BY DEF AloneInv
<1>1. pc[v] \in Drops /\ todo[v] # {}
  BY DEF Frame
<1>2. pc[w] \notin Stands
  BY <1>1 DEF AloneInv
<1>3. CASE w # u
  BY <1>2, <1>3 DEF Frame
<1>4. CASE w = u
  BY <1>1, <1>2, <1>4
<1> QED BY <1>3, <1>4

\* Calm steps, and those that give the loader's lock back.
LEMMA DynCalm ==
  ASSUME ListPart, Apart, DynPart, build = "dynamic", build' = build,
         init_type' = init_type, NEW u \in Users, held' = held, pinned' = pinned,
         CalmStep(u) \/ BindStep(u)
  PROVE  DynPart'
<1> USE DEF DynPart
<1>1. /\ Frame(u) /\ SameNodes /\ loads' = loads
      /\ pc'[u] \in Busy <=> pc[u] \in Busy
      /\ pc'[u] \in Stands <=> pc[u] \in Stands
      /\ pc'[u] \in Drops => pc[u] \in Drops
      /\ todo'[u] \subseteq todo[u]
      /\ ptr'[u] = Null \/ ptr'[u] \in Live
      /\ \A e \in arr'[u] : e \in arr[u] \/ \E n \in Live : node[n].drv = e
  BY DEF CalmStep, BindStep, Calm
<1>2. HeldInv'
  BY <1>1, HeldKept
<1>3. LoadInv' /\ AloneInv'
  BY <1>1, LoadKept, AloneKept
<1>4. NoStalePointer' /\ NodeInv' /\ NameInv'
  BY <1>1, KeepStep
<1>5. RefInv'
  BY <1>1, SameRefs, BindRefs DEF CalmStep
<1> QED BY <1>2, <1>3, <1>4, <1>5

LEMMA DynUnlock ==
  ASSUME ListPart, Apart, DynPart, build = "dynamic", build' = build,
         init_type' = init_type, NEW u \in Users, held' = held, pinned' = pinned,
         OpenDone(u) \/ CloseDone(u)
  PROVE  DynPart'
<1> USE DEF DynPart
<1>1. /\ Frame(u) /\ SameNodes /\ RefKept(u) /\ loads' = loads
      /\ ptr'[u] = Null /\ arr'[u] = {} /\ todo'[u] = {} /\ pc[u] \in Busy
      /\ pc'[u] \notin Busy
      /\ pc'[u] \in Stands => held[u] = Opens(u)
  BY UnlockStep DEF ListPart
<1>2. HeldInv'
  BY <1>1, HeldKept
<1>3. \A v \in Users : v # u => pc[v] \notin Drops
  BY <1>1, OthersWait DEF Apart, Drops, Busy
<1>4. LoadInv' /\ AloneInv'
  BY <1>1, <1>3, LoadKept, AloneKept
<1>5. NoStalePointer' /\ NodeInv' /\ NameInv'
  BY <1>1, KeepStep
<1>6. RefInv'
  BY <1>1, SameRefs
<1> QED BY <1>2, <1>4, <1>5, <1>6

\* dlopen and dlclose.
LEMMA DynLock ==
  ASSUME OneLib, ListPart, Apart, DynPart, build' = build,
         init_type' = init_type, NEW u \in Users, Loads(u) \/ Unloads(u)
  PROVE  DynPart'
<1> USE DEF DynPart
<1>1. /\ Frame(u) /\ SameNodes /\ RefKept(u) /\ loader = Null /\ build = "dynamic"
      /\ ptr'[u] = Null /\ arr'[u] = {} /\ pc'[u] \in {"probe", "remove"}
      /\ Loads(u) => pc'[u] = "probe"
  BY LockStep DEF ListPart
<1>2. HeldInv' /\ LoadInv'
  BY HeldChange, LoadChange
<1>3. NoStalePointer' /\ NodeInv' /\ NameInv'
  BY <1>1, KeepStep
<1>4. RefInv'
  BY <1>1, SameRefs
<1>5. ASSUME NEW v \in Users, NEW w \in Users, pc'[v] \in Drops, todo'[v] # {}, w # v
      PROVE  pc'[w] \notin Stands
  <2>1. v = u
    <3>1. ASSUME v # u PROVE FALSE
      <4>1. pc[v] \notin Busy
        BY <1>1, <3>1, OthersWait DEF Apart
      <4> QED BY <1>1, <1>5, <3>1, <4>1 DEF Frame, Drops, Busy
    <3> QED BY <3>1
  <2>2. Unloads(u)
    BY <1>1, <1>5, <2>1 DEF Drops
  <2>3. pc[w] \notin Stands
    BY <1>5, <2>1, <2>2, AloneChange
  <2> QED BY <1>1, <1>5, <2>1, <2>3 DEF Frame
<1>6. AloneInv'
  BY <1>5 DEF AloneInv
<1> QED BY <1>2, <1>3, <1>4, <1>6

\* A node is added: no front end can be bound to its driver, which had no node.
LEMMA DynAdd ==
  ASSUME ListPart, Apart, DynPart, build = "dynamic", build' = build,
         init_type' = init_type, NEW u \in Users, held' = held, pinned' = pinned,
         NEW d \in Drivers, AddsNode(u, d)
  PROVE  DynPart'
<1> USE DEF DynPart
<1>1. /\ Frame(u) /\ loads' = loads /\ ptr'[u] = Null /\ arr'[u] = arr[u]
      /\ pc[u] = "register" /\ pc'[u] = "probe" /\ Holding(ptr[u], d) = {}
  BY AddStep DEF AddsNode, ListPart
<1>2. PICK n \in NodeIds \ Live :
              /\ Live' = Live \cup {n} /\ node'[n].refcnt = 0 /\ node'[n].drv = d
              /\ node'[n].name = Name[d] /\ node'[n].class = Class[d]
              /\ \A m \in NodeIds : m # n => node'[m] = node[m]
  BY AddStep DEF AddsNode, ListPart
<1>3. Live \subseteq NodeIds /\ From(First) = Live /\ ptr[u] = First
  BY <1>1, IndexOf, FromLive DEF ListPart, Apart, LoaderInv, LoaderOf
<1>4. \A m \in Live : m \in Live' /\ node'[m] = node[m]
  BY <1>2, <1>3
<1>5. HeldInv' /\ LoadInv' /\ AloneInv'
  <2>1. pc[u] \in Busy /\ pc'[u] \notin Drops /\ pc'[u] \notin Stands
    BY <1>1 DEF Busy, Drops, Stands
  <2> QED BY <1>1, <2>1, HeldKept, LoadKept, AloneKept
<1>6. NoStalePointer'
  BY <1>1, <1>4 DEF NoStalePointer, Frame
<1>7. \A v \in Users : arr'[v] = arr[v]
  BY <1>1 DEF Frame
<1>8. NodeInv'
  BY <1>4, <1>7 DEF NodeInv
<1>9. NameInv'
  BY <1>2, <1>4 DEF NameInv
<1>10. \A e : BoundTo(e)' = BoundTo(e)
  <2>1. \A v \in Users : pc'[v] = "bound" <=> pc[v] = "bound"
    BY <1>1 DEF Frame
  <2> QED BY <1>7, <2>1 DEF BoundTo
<1>11. BoundTo(d) = {}
  <2> SUFFICES ASSUME NEW v \in Users, d \in arr[v] PROVE FALSE
    BY DEF BoundTo
  <2>1. PICK m \in Live : node[m].drv = d
    BY DEF NodeInv
  <2>2. m \in Holding(ptr[u], d)
    BY <1>3, <2>1 DEF NameInv, Holding
  <2> QED BY <1>1, <2>2
<1>12. Cardinality(BoundTo(d)) = 0
  BY <1>11, FS_EmptySet
<1>13. ASSUME NEW e \in Drivers, NEW m \in Live', node'[m].drv = e
       PROVE  node'[m].refcnt = Cardinality(BoundTo(e)')
  <2>1. CASE m = n
    BY <1>2, <1>10, <1>12, <1>13, <2>1
  <2>2. CASE m # n
    <3>1. m \in Live /\ node'[m] = node[m]
      BY <1>2, <1>4, <2>2
    <3> QED BY <1>10, <1>13, <3>1 DEF RefInv
  <2> QED BY <2>1, <2>2
<1>14. RefInv'
  BY <1>13 DEF RefInv
<1> QED BY <1>5, <1>6, <1>8, <1>9, <1>14

\* A node is removed: no front end looks at the list.
LEMMA DynDrop ==
  ASSUME ListPart, Apart, DynPart, build = "dynamic", build' = build,
         init_type' = init_type, NEW u \in Users, held' = held, pinned' = pinned,
         NEW d \in Drivers, DropsNode(u, d)
  PROVE  DynPart'
<1> USE DEF DynPart
<1>1. /\ Frame(u) /\ loads' = loads /\ ptr'[u] = Null /\ arr'[u] = arr[u]
      /\ pc[u] = "unregister" /\ pc'[u] = "remove" /\ d \in todo[u]
  BY DropStep DEF DropsNode, ListPart
<1>2. PICK n \in Live : /\ Live' = Live \ {n}
                        /\ \A m \in NodeIds : m # n => node'[m] = node[m]
  BY DropStep DEF DropsNode, ListPart
<1>3. \A m \in Live' : m \in Live /\ node'[m] = node[m]
  BY <1>2, IndexOf DEF ListPart
<1>4. arr[u] = {}
  BY <1>1 DEF ListPart, LocalInv, LocalOf
<1>5. ASSUME NEW v \in Users PROVE ptr'[v] = Null /\ arr'[v] = {} /\ arr[v] = {}
  <2>1. CASE v = u
    BY <1>1, <1>4, <2>1
  <2>2. CASE v # u
    <3>1. pc[u] \in Drops /\ todo[u] # {}
      BY <1>1 DEF Drops
    <3>2. ptr[v] = Null /\ arr[v] = {}
      BY <2>2, <3>1, OthersIdle DEF Apart
    <3> QED BY <1>1, <2>2, <3>2 DEF Frame
  <2> QED BY <2>1, <2>2
<1>6. HeldInv' /\ LoadInv' /\ AloneInv'
  <2>1. /\ pc[u] \in Busy /\ pc[u] \in Drops /\ todo[u] # {}
        /\ pc'[u] \in Busy /\ pc'[u] \notin Stands
    BY <1>1 DEF Busy, Drops, Stands
  <2> QED BY <1>1, <2>1, HeldKept, LoadKept, AloneKept
<1>7. NoStalePointer' /\ NodeInv'
  BY <1>5 DEF NoStalePointer, NodeInv
<1>8. NameInv'
  BY <1>3 DEF NameInv
<1>9. \A e : BoundTo(e)' = {} /\ BoundTo(e) = {}
  BY <1>5 DEF BoundTo
<1>10. RefInv'
  BY ZenonT(60), <1>3, <1>9 DEF RefInv
<1> QED BY <1>6, <1>7, <1>8, <1>10

LEMMA DynStep ==
  ASSUME OneLib, ListPart, Apart, DynPart, Next PROVE DynPart'
<1>1. build' = build /\ init_type' = init_type /\ \E u \in Users : Kinds(u)
  BY StepKinds DEF ListPart
<1>2. PICK u \in Users : Kinds(u)
  BY <1>1
<1>3. CASE Loads(u) \/ Unloads(u)
  BY <1>1, <1>3, DynLock
<1>4. CASE ~(Loads(u) \/ Unloads(u))
  <2>1. /\ held' = held /\ pinned' = pinned
        /\ \/ CalmStep(u) \/ BindStep(u)
           \/ OpenDone(u) \/ CloseDone(u)
           \/ \E d \in Drivers : AddsNode(u, d) \/ DropsNode(u, d)
    BY <1>2, <1>4 DEF Kinds
  <2>2. CASE build # "dynamic"
    BY <1>1, <2>1, <2>2 DEF DynPart, HeldInv, LoadInv, AloneInv,
       NoStalePointer,
       NameInv, NodeInv, RefInv
  <2>3. CASE build = "dynamic"
    BY <1>1, <2>1, <2>3, DynCalm, DynUnlock, DynAdd, DynDrop
  <2> QED BY <2>2, <2>3
<1> QED BY <1>3, <1>4

\* The front ends brought up by init share one library: then use counts and the
\* loader keeping the libraries of init2 protect every pointer into the list and
\* every driver a front end is bound to.
LEMMA Protected ==
  ASSUME OneLib PROVE Spec => [](ListPart /\ Apart /\ DynPart)
<1>1. Init => ListPart /\ Apart /\ DynPart
  BY ListPartInit, ApartInit, DynInit
<1>2. ListPart /\ Apart /\ DynPart /\ [Next]_vars => (ListPart /\ Apart /\ DynPart)'
  <2> SUFFICES ASSUME ListPart, Apart, DynPart, [Next]_vars
               PROVE  ListPart' /\ Apart' /\ DynPart'
    OBVIOUS
  <2>1. CASE Next
    BY <2>1, ListPartStep, ApartStep, DynStep
  <2>2. CASE UNCHANGED vars
    <3>1. Apart'
      BY <2>2 DEF Apart, LoaderInv, LoaderOf, First, NodesUnique, Live, vars
    <3>2. LoadInv' /\ AloneInv' /\ NoStalePointer' /\ NameInv' /\ NodeInv' /\ RefInv'
      BY <2>2 DEF DynPart, LoadInv, HoldersOf, AloneInv, NoStalePointer,
         NameInv,
         NodeInv, RefInv, BoundTo, Live, vars
    <3>3. HeldInv'
      BY <2>2 DEF DynPart, HeldInv, HeldOf, Opens, V1, V2, vars
    <3> QED BY <2>2, <3>1, <3>2, <3>3, ListPartStutter DEF DynPart
  <2> QED BY <2>1, <2>2
<1> QED BY <1>1, <1>2, PTL DEF Spec

\* No pointer of a walk, or read before the mutex, is to a freed node, in a
\* dynamic build whose front ends brought up by init share one library.
THEOREM PointersStayLive == ASSUME OneLib PROVE Spec => []NoStalePointer
<1>1. ListPart /\ Apart /\ DynPart => NoStalePointer
  BY DEF DynPart
<1> QED BY <1>1, Protected, PTL

\* refcnt is the number of front ends bound to the driver, and a driver in use
\* keeps its node, under the same condition.
THEOREM RefcntExact == ASSUME OneLib PROVE Spec => []RefcntIsUsers
<1>1. ListPart /\ Apart /\ DynPart => RefcntIsUsers
  <2> SUFFICES ASSUME NodeInv, RefInv PROVE RefcntIsUsers
    BY DEF DynPart
  <2> QED BY DEF NodeInv, RefInv, RefcntIsUsers, BoundTo
<1> QED BY <1>1, Protected, PTL
=============================================================================
