--------------------------- MODULE SchedPollProofs ---------------------------
(***************************************************************************)
(* Proofs about SchedPoll.  The answers of a context are covered: counted  *)
(* over its sessions, the pending counters exceed what is in the queue.    *)
(* One counter may be far below zero, because a poll takes the answers of  *)
(* other sessions off it; the sum is what counts.  A sum is counted here   *)
(* as the size of a pile of units, one slice for each session.             *)
(*                                                                         *)
(* At the end, the context cache of HUNGRY (SkeyCache): its entries stay   *)
(* distinct, and no load goes below zero or above what its counter holds as *)
(* long as few enough threads share the cache.                             *)
(*                                                                         *)
(* Then the domains (SchedDomain): what was instanced is found, a session  *)
(* is given contexts that fit, and the first domain implements RoundRobin. *)
(* The search of a session counts what it tries; a fitting context is ahead *)
(* of it while the tried and those before the context are not all of them. *)
(***************************************************************************)
EXTENDS SchedPoll, SkeyCache, SchedDomain, RingArith, FiniteSetTheorems, SequenceTheorems, TLAPS

Pile(D, F) == UNION {{x} \X F[x] : x \in D}

\* What the counters of the context's sessions are above and below zero.
Over(c) == [s \in Sessions |-> IF entry[s] = c THEN 1 .. pending[s] ELSE {}]
Under(c) == [s \in Sessions |-> IF entry[s] = c THEN (pending[s] + 1) .. 0 ELSE {}]
Above(c) == Pile(Sessions, Over(c))
Below(c) == Pile(Sessions, Under(c))

\* Submissions between the pick and the queue; answers between the queue and
\* the counter.
Sending(c) == {t \in Senders : spc[t] = "send" /\ entry[of[t]] = c}
Share(c) == [p \in Pollers |-> IF ppc[p] = "credit" /\ entry[key[p]] = c
                               THEN 1 .. got[p] ELSE {}]
Gotten(c) == Pile(Pollers, Share(c))

Covered(c) ==
  /\ IsFiniteSet(Above(c)) /\ IsFiniteSet(Below(c))
  /\ IsFiniteSet(Sending(c)) /\ IsFiniteSet(Gotten(c))
  /\ Cardinality(Above(c)) >= Cardinality(Below(c)) + Held(c)
                              + Cardinality(Sending(c)) + Cardinality(Gotten(c))

TypeInv ==
  /\ setup \in Setups
  /\ skey \in [Slots -> Sessions \cup {Null}]
  /\ state \in [Sessions -> {"none", "open", "refused", "freed"}]
  /\ entry \in [Sessions -> Contexts \cup {NoContext}]
  /\ pending \in [Sessions -> Int]
  /\ wire \in [Contexts -> Seq(Sessions)] /\ done \in [Contexts -> Seq(Sessions)]
  /\ spc \in [Senders -> {"idle", "send"}] /\ of \in [Senders -> Sessions \cup {Null}]
  /\ ppc \in [Pollers -> {"idle", "scan", "poll", "credit", "next"}]
  /\ key \in [Pollers -> Sessions \cup {Null}]
  /\ got \in [Pollers -> Nat] /\ pos \in [Pollers -> [start : Nat, i : Nat]]
  /\ tidx \in [Pollers -> Nat] /\ threads \in Nat

\* A session has a context and one slot from its creation on, and skey_num
\* counts the slots in use.
KeyInv ==
  /\ \A s \in Sessions : /\ state[s] \in {"none", "refused"} =>
                                entry[s] = NoContext /\ pending[s] = 0
                         /\ state[s] = "open" => \E i \in Slots : skey[i] = s
                         /\ setup.release = "never" => state[s] # "freed"
  /\ \A i \in Slots : skey[i] # Null =>
       /\ state[skey[i]] \in IF setup.release = "uninit" THEN {"open"} ELSE {"open", "freed"}
       /\ \A j \in Slots : skey[j] = skey[i] => j = i
  /\ skey_num = Cardinality(Slots \ FreeSlots)

\* The threads work with sessions that were created.
UseInv ==
  /\ \A t \in Senders : spc[t] = "send" =>
                          of[t] \in Sessions /\ entry[of[t]] \in Contexts
  /\ \A p \in Pollers : /\ ppc[p] \in {"poll", "credit", "next"} => key[p] \in Sessions
                        /\ ppc[p] = "credit" => entry[key[p]] \in Contexts

CoverInv == setup.policy = "rr" => \A c \in Contexts : Covered(c)

-----------------------------------------------------------------------------
\* One slice of a pile is exchanged.
LEMMA PileChange ==
  ASSUME NEW D, NEW x \in D, NEW F, NEW G, \A y \in D \ {x} : F[y] = G[y],
         IsFiniteSet(Pile(D, F)), IsFiniteSet(F[x]), IsFiniteSet(G[x])
  PROVE  /\ IsFiniteSet(Pile(D, G))
         /\ Cardinality(Pile(D, G)) =
              Cardinality(Pile(D, F)) - Cardinality(F[x]) + Cardinality(G[x])
<1> DEFINE R == Pile(D \ {x}, F)
           A == {x} \X F[x]
           B == {x} \X G[x]
<1>1. Pile(D, F) = R \cup A /\ R \cap A = {}
  BY DEF Pile
<1>2. Pile(D, G) = R \cup B /\ R \cap B = {}
  BY DEF Pile
<1>3. /\ IsFiniteSet(A) /\ Cardinality(A) = Cardinality(F[x])
      /\ IsFiniteSet(B) /\ Cardinality(B) = Cardinality(G[x])
  <2>1. IsFiniteSet({x}) /\ Cardinality({x}) = 1
    BY FS_Singleton
  <2>2. Cardinality(F[x]) \in Nat /\ Cardinality(G[x]) \in Nat
    BY FS_CardinalityType
  <2>3. /\ IsFiniteSet(A) /\ Cardinality(A) = 1 * Cardinality(F[x])
        /\ IsFiniteSet(B) /\ Cardinality(B) = 1 * Cardinality(G[x])
    BY <2>1, FS_Product
  <2> QED BY <2>2, <2>3
<1>4. IsFiniteSet(R)
  BY <1>1, FS_Subset
<1> HIDE DEF R, A, B
<1>5. /\ Cardinality(R) \in Nat /\ Cardinality(A) \in Nat /\ Cardinality(B) \in Nat
  BY <1>3, <1>4, FS_CardinalityType
<1>6. Cardinality(Pile(D, F)) = Cardinality(R) + Cardinality(A)
  <2>1. Cardinality(R \cup A) = Cardinality(R) + Cardinality(A) - Cardinality(R \cap A)
    BY <1>3, <1>4, FS_Union
  <2>2. Cardinality(R \cap A) = 0 /\ Cardinality(Pile(D, F)) = Cardinality(R \cup A)
    BY <1>1, FS_EmptySet
  <2> QED BY <1>5, <2>1, <2>2
<1>7. /\ IsFiniteSet(Pile(D, G))
      /\ Cardinality(Pile(D, G)) = Cardinality(R) + Cardinality(B)
  <2>1. /\ IsFiniteSet(R \cup B)
        /\ Cardinality(R \cup B) = Cardinality(R) + Cardinality(B) - Cardinality(R \cap B)
    BY <1>3, <1>4, FS_Union
  <2>2. Cardinality(R \cap B) = 0 /\ Pile(D, G) = R \cup B
    BY <1>2, FS_EmptySet
  <2> QED BY <1>5, <2>1, <2>2
<1> QED BY <1>3, <1>5, <1>6, <1>7

\* Piles with the same slices.
LEMMA PileSame == ASSUME NEW D, NEW F, NEW G, \A x \in D : F[x] = G[x]
                  PROVE  Pile(D, F) = Pile(D, G)
  BY DEF Pile

\* The size of the slices.
LEMMA SliceSize ==
  ASSUME NEW n \in Int
  PROVE  /\ IsFiniteSet(1 .. n) /\ IsFiniteSet((n + 1) .. 0) /\ IsFiniteSet({})
         /\ Cardinality({}) = 0
         /\ Cardinality(1 .. n) = IF n > 0 THEN n ELSE 0
         /\ Cardinality((n + 1) .. 0) = IF n < 0 THEN -n ELSE 0
<1>1. /\ IsFiniteSet(1 .. n) /\ Cardinality(1 .. n) = IF 1 > n THEN 0 ELSE n - 1 + 1
  BY FS_Interval
<1>2. /\ IsFiniteSet((n + 1) .. 0)
      /\ Cardinality((n + 1) .. 0) = IF n + 1 > 0 THEN 0 ELSE 0 - (n + 1) + 1
  BY FS_Interval
<1> QED BY <1>1, <1>2, FS_EmptySet

\* The least free slot is one, if there is any.
LEMMA MinFree == ASSUME FreeSlots # {} PROVE Min(FreeSlots) \in FreeSlots
<1>1. FreeSlots \in SUBSET Nat
  BY NumAssumption DEF FreeSlots, Slots
<1>2. PICK i \in FreeSlots : \A j \in FreeSlots : i <= j
  BY <1>1, LeastNat
<1> QED BY <1>2 DEF Min

\* wd_cipher_poll_ctx receives a number of answers that are there.
LEMMA PollCount ==
  ASSUME TypeInv, NEW c \in Contexts
  PROVE  LET n == Min({Expect, Len(done[c])})
         IN /\ n \in Nat /\ n <= Len(done[c])
            /\ SubSeq(done[c], n + 1, Len(done[c])) \in Seq(Sessions)
            /\ Len(SubSeq(done[c], n + 1, Len(done[c]))) = Len(done[c]) - n
<1> DEFINE m == Len(done[c])
           n == Min({Expect, m})
<1>1. done[c] \in Seq(Sessions)
  BY DEF TypeInv
<1>2. m \in Nat /\ Expect \in Nat
  BY <1>1, LenProperties, NumAssumption
<1> HIDE DEF m
<1>3. \E x \in {Expect, m} : \A y \in {Expect, m} : x <= y
  BY <1>2
<1>4. n \in {Expect, m} /\ \A y \in {Expect, m} : n <= y
  BY <1>3 DEF Min
<1> HIDE DEF n
<1>5. n \in Nat /\ n <= m
  BY <1>2, <1>4
<1>6. /\ SubSeq(done[c], n + 1, m) \in Seq(Sessions)
      /\ Len(SubSeq(done[c], n + 1, m)) = IF n + 1 <= m THEN m - (n + 1) + 1 ELSE 0
  <2>1. n + 1 \in 1 .. m + 1 /\ m \in n .. m
    BY <1>2, <1>5
  <2> QED BY <1>1, <1>2, <1>5, <2>1, SubSeqProperties DEF m
<1>7. Len(SubSeq(done[c], n + 1, m)) = m - n
  BY <1>2, <1>5, <1>6
<1> QED BY <1>5, <1>6, <1>7 DEF n, m

\* The slots in use are some of the slots.
LEMMA UsedSlots ==
  /\ IsFiniteSet(Slots) /\ Cardinality(Slots) = SkeyMax
  /\ IsFiniteSet(Slots \ FreeSlots)
  /\ Cardinality(Slots \ FreeSlots) \in 0 .. SkeyMax
<1>1. SkeyMax \in Nat \ {0}
  BY NumAssumption
<1>2. IsFiniteSet(0 .. SkeyMax - 1) /\ Cardinality(0 .. SkeyMax - 1) = SkeyMax
  <2>1. 0 \in Int /\ SkeyMax - 1 \in Int
    BY <1>1
  <2>2. /\ IsFiniteSet(0 .. SkeyMax - 1)
        /\ Cardinality(0 .. SkeyMax - 1) =
             IF 0 > SkeyMax - 1 THEN 0 ELSE (SkeyMax - 1) - 0 + 1
    BY <2>1, FS_Interval
  <2> QED BY <1>1, <2>2
<1>3. IsFiniteSet(Slots) /\ Cardinality(Slots) = SkeyMax
  BY <1>2 DEF Slots
<1>4. /\ IsFiniteSet(Slots \ FreeSlots)
      /\ Cardinality(Slots \ FreeSlots) <= SkeyMax
  BY <1>3, FS_Subset
<1>5. Cardinality(Slots \ FreeSlots) \in Nat
  BY <1>4, FS_CardinalityType
<1> QED BY <1>1, <1>3, <1>4, <1>5

\* A slot in use names a session that was created.
LEMMA SlotState ==
  ASSUME TypeInv, KeyInv, NEW i \in Slots, skey[i] # Null
  PROVE  skey[i] \in Sessions /\ state[skey[i]] \in {"open", "freed"}
<1>1. skey[i] \in Sessions
  BY DEF TypeInv
<1>2. state[skey[i]] \in IF setup.release = "uninit" THEN {"open"} ELSE {"open", "freed"}
  BY DEF KeyInv
<1> QED BY <1>1, <1>2

\* The types and the keys at the start.
LEMMA InitKeys == PInit => TypeInv /\ KeyInv /\ UseInv
<1> SUFFICES ASSUME PInit PROVE TypeInv /\ KeyInv /\ UseInv
  OBVIOUS
<1>1. TypeInv
  BY DEF PInit, TypeInv
<1>2. Slots \ FreeSlots = {}
  BY DEF PInit, FreeSlots
<1>3. KeyInv
  BY <1>2, FS_EmptySet DEF PInit, KeyInv
<1>4. UseInv
  BY DEF PInit, UseInv
<1> QED BY <1>1, <1>3, <1>4

\* sched_skey_param_init takes a free slot.
LEMMA OpenKeys ==
  ASSUME TypeInv, KeyInv, UseInv, NEW s \in Sessions, Open(s), setup' = setup
  PROVE  TypeInv' /\ KeyInv' /\ UseInv'
<1> DEFINE f == Min(FreeSlots)
<1>1. UNCHANGED <<setup, pending, wire, done, spc, of, ppc, key, got, pos, tidx, threads>>
  BY DEF Open, queueVars, sendVars, pollVars
<1>2. PICK c \in Contexts \cup {NoContext} :
        /\ state[s] = "none" /\ skey' = [skey EXCEPT ![f] = s]
        /\ state' = [state EXCEPT ![s] = "open"]
        /\ entry' = [entry EXCEPT ![s] = c]
        /\ skey_num' = skey_num + 1
  BY SetupAssumption DEF Open, TypeInv, SetupType
<1>3. f \in FreeSlots /\ f \in Slots /\ skey[f] = Null
  BY MinFree DEF Open, FreeSlots
<1> HIDE DEF f
<1>4. TypeInv'
  BY <1>1, <1>2, <1>3 DEF TypeInv
<1>5. /\ \A r \in Sessions : r # s => state'[r] = state[r] /\ entry'[r] = entry[r]
      /\ state'[s] = "open" /\ skey'[f] = s
      /\ \A i \in Slots : i # f => skey'[i] = skey[i]
  BY <1>2, <1>3 DEF TypeInv
<1>6. entry[s] = NoContext /\ entry[s] \notin Contexts /\ s # Null
  BY <1>2, NameAssumption DEF KeyInv
<1>7. \A i \in Slots : skey[i] # Null => skey[i] # s /\ skey[i] \in Sessions
  BY <1>2, SlotState
<1>8. skey_num' = Cardinality((Slots \ FreeSlots)')
  <2>1. (Slots \ FreeSlots)' = (Slots \ FreeSlots) \cup {f}
    BY <1>3, <1>5, <1>6 DEF FreeSlots
  <2>2. Cardinality((Slots \ FreeSlots) \cup {f}) = Cardinality(Slots \ FreeSlots) + 1
    BY <1>3, UsedSlots, FS_AddElement
  <2> QED BY <1>2, <2>1, <2>2 DEF KeyInv
<1>9. ASSUME NEW r \in Sessions
      PROVE  /\ state'[r] \in {"none", "refused"} =>
                  entry'[r] = NoContext /\ pending'[r] = 0
             /\ state'[r] = "open" => \E i \in Slots : skey'[i] = r
             /\ setup'.release = "never" => state'[r] # "freed"
  <2>1. CASE r = s
    BY <1>3, <1>5, <2>1
  <2>2. CASE r # s
    <3>1. state'[r] = state[r] /\ entry'[r] = entry[r] /\ pending'[r] = pending[r]
      BY <1>1, <1>5, <2>2
    <3>2. \A i \in Slots : skey[i] = r => i # f
      BY <1>3, NameAssumption
    <3> QED BY <1>1, <1>5, <3>1, <3>2 DEF KeyInv
  <2> QED BY <2>1, <2>2
<1>10. ASSUME NEW i \in Slots, skey'[i] # Null
       PROVE  /\ state'[skey'[i]] \in IF setup'.release = "uninit" THEN {"open"}
                                      ELSE {"open", "freed"}
              /\ \A j \in Slots : skey'[j] = skey'[i] => j = i
  <2>1. CASE i = f
    <3>1. skey'[i] = s /\ state'[s] = "open"
      BY <1>5, <2>1
    <3>2. \A j \in Slots : j # f => skey'[j] # s
      BY <1>5, <1>6, <1>7
    <3> QED BY <2>1, <3>1, <3>2
  <2>2. CASE i # f
    <3>1. skey'[i] = skey[i] /\ skey[i] \in Sessions /\ skey[i] # s
      BY <1>5, <1>7, <1>10, <2>2
    <3>2. state'[skey[i]] = state[skey[i]]
      BY <1>5, <3>1
    <3>3. \A j \in Slots : skey'[j] = skey[i] => j # f /\ skey[j] = skey[i]
      BY <1>5, <3>1
    <3> QED BY <1>1, <1>10, <3>1, <3>2, <3>3 DEF KeyInv
  <2> QED BY <2>1, <2>2
<1>11. KeyInv'
  BY <1>8, <1>9, <1>10 DEF KeyInv
<1>12. UseInv'
  BY <1>1, <1>5, <1>6 DEF UseInv
<1> QED BY <1>4, <1>11, <1>12

\* A session that is refused, or freed, with or without its slot.
LEMMA ClosedKeys ==
  ASSUME TypeInv, KeyInv, UseInv, NEW s \in Sessions,
         OpenRefused(s) \/ SessionUninit(s) \/ SessionFree(s), setup' = setup
  PROVE  TypeInv' /\ KeyInv' /\ UseInv'
<1>1. UNCHANGED <<setup, entry, pending, wire, done, spc, of, ppc, key, got, pos, tidx,
                  threads>>
  BY DEF OpenRefused, SessionUninit, SessionFree, queueVars, sendVars,
     pollVars
<1>2. UseInv'
  BY <1>1 DEF UseInv
<1>3. CASE OpenRefused(s) \/ SessionFree(s)
  <2>1. /\ UNCHANGED <<skey, skey_num>>
        /\ \/ state[s] = "none" /\ state' = [state EXCEPT ![s] = "refused"]
           \/ /\ state[s] = "open" /\ state' = [state EXCEPT ![s] = "freed"]
              /\ setup.release = "free"
    BY <1>3 DEF OpenRefused, SessionFree, Idle
  <2>2. TypeInv'
    BY <1>1, <2>1 DEF TypeInv
  <2>3. /\ \A r \in Sessions : r # s => state'[r] = state[r]
        /\ \/ state[s] = "none" /\ state'[s] = "refused"
           \/ state[s] = "open" /\ state'[s] = "freed" /\ setup.release = "free"
    BY <2>1 DEF TypeInv
  <2>4. \A i \in Slots : skey[i] # Null =>
          skey[i] \in Sessions /\ (state[s] = "none" => skey[i] # s)
    BY SlotState
  <2>5. (Slots \ FreeSlots)' = Slots \ FreeSlots
    BY <2>1 DEF FreeSlots
  <2> QED BY SMTT(30), <1>1, <1>2, <2>1, <2>2, <2>3, <2>4, <2>5 DEF KeyInv
<1>4. CASE SessionUninit(s)
  <2>1. /\ state[s] = "open" /\ state' = [state EXCEPT ![s] = "freed"]
        /\ setup.release = "uninit" /\ skey_num' = skey_num - 1
        /\ skey' = [i \in Slots |-> IF skey[i] = s THEN Null ELSE skey[i]]
    BY <1>4 DEF SessionUninit, Idle
  <2>2. TypeInv'
    BY <1>1, <2>1 DEF TypeInv
  <2>3. /\ \A r \in Sessions : r # s => state'[r] = state[r]
        /\ state'[s] = "freed" /\ s # Null
    BY <2>1, NameAssumption DEF TypeInv
  <2>4. PICK f \in Slots : skey[f] = s
    BY <2>1 DEF KeyInv
  <2>5. \A i \in Slots : /\ skey[i] = s <=> i = f
                         /\ i # f => skey'[i] = skey[i]
                         /\ i = f => skey'[i] = Null
    BY <2>1, <2>3, <2>4 DEF KeyInv
  <2>6. skey_num' = Cardinality((Slots \ FreeSlots)')
    <3>1. (Slots \ FreeSlots)' = (Slots \ FreeSlots) \ {f}
      BY <2>5 DEF FreeSlots
    <3>2. f \in Slots \ FreeSlots
      BY <2>3, <2>4 DEF FreeSlots
    <3>3. Cardinality((Slots \ FreeSlots) \ {f}) = Cardinality(Slots \ FreeSlots) - 1
      BY <3>2, UsedSlots, FS_RemoveElement
    <3> QED BY <2>1, <3>1, <3>3 DEF KeyInv
  <2>7. ASSUME NEW r \in Sessions
        PROVE  /\ state'[r] \in {"none", "refused"} =>
                    entry'[r] = NoContext /\ pending'[r] = 0
               /\ state'[r] = "open" => \E i \in Slots : skey'[i] = r
    BY <1>1, <2>3, <2>4, <2>5 DEF KeyInv
  <2>8. ASSUME NEW i \in Slots, skey'[i] # Null
        PROVE  /\ state'[skey'[i]] = "open"
               /\ \A j \in Slots : skey'[j] = skey'[i] => j = i
    <3>1. i # f /\ skey'[i] = skey[i] /\ skey[i] # s
      BY <2>5, <2>8
    <3>2. skey[i] \in Sessions /\ state[skey[i]] = "open"
      BY <2>1, <2>8, <3>1 DEF TypeInv, KeyInv
    <3>3. \A j \in Slots : skey'[j] = skey[i] => skey[j] = skey[i]
      BY <2>5, <2>8, <3>1
    <3> QED BY <2>3, <2>8, <3>1, <3>2, <3>3 DEF KeyInv
  <2>9. KeyInv'
    BY <1>1, <2>1, <2>6, <2>7, <2>8 DEF KeyInv
  <2> QED BY <1>2, <2>2, <2>9
<1> QED BY <1>3, <1>4

\* Submissions and answers touch the keys' counters only.
LEMMA TrafficKeys ==
  ASSUME TypeInv, KeyInv, UseInv, setup' = setup,
         \/ \E t \in Senders, s \in Sessions : PickRR(t, s) \/ PickUncounted(t, s)
         \/ \E t \in Senders : SendOk(t) \/ SendBusy(t)
         \/ \E c \in Contexts : Answer(c)
  PROVE  TypeInv' /\ KeyInv' /\ UseInv'
<1>1. UNCHANGED <<skey, skey_num, state, entry, ppc, key, got, pos, tidx, threads>>
  BY DEF PickRR, PickUncounted, SendOk, SendBusy, Answer, keyVars, pollVars
<1>2. (Slots \ FreeSlots)' = Slots \ FreeSlots
  BY <1>1 DEF FreeSlots
<1>3. CASE \E t \in Senders, s \in Sessions : PickRR(t, s) \/ PickUncounted(t, s)
  <2>1. PICK t \in Senders, s \in Sessions : PickRR(t, s) \/ PickUncounted(t, s)
    BY <1>3
  <2>2. /\ UNCHANGED <<wire, done>> /\ state[s] = "open"
        /\ \/ pending' = pending
           \/ pending' = [pending EXCEPT ![s] = pending[s] + 1]
        /\ \/ UNCHANGED <<spc, of>>
           \/ /\ spc' = [spc EXCEPT ![t] = "send"] /\ of' = [of EXCEPT ![t] = s]
              /\ entry[s] # NoContext
    BY <2>1 DEF PickRR, PickUncounted, MaySubmit, queueVars
  <2>3. /\ pending' \in [Sessions -> Int]
        /\ \A r \in Sessions : r # s => pending'[r] = pending[r]
    BY <2>2 DEF TypeInv
  <2>4. spc' \in [Senders -> {"idle", "send"}] /\ of' \in [Senders -> Sessions \cup {Null}]
    BY ZenonT(60), <2>2 DEF TypeInv
  <2>5. TypeInv'
    BY <1>1, <2>2, <2>3, <2>4 DEF TypeInv
  <2>6. KeyInv'
    BY ZenonT(60), <1>1, <1>2, <2>2, <2>3 DEF KeyInv
  <2>7. UseInv'
    BY <1>1, <2>2 DEF TypeInv, UseInv
  <2> QED BY <2>5, <2>6, <2>7
<1>4. CASE \E t \in Senders : SendOk(t) \/ SendBusy(t)
  <2>1. PICK t \in Senders : SendOk(t) \/ SendBusy(t)
    BY <1>4
  <2>2. /\ spc[t] = "send" /\ UNCHANGED <<pending, done>>
        /\ spc' = [spc EXCEPT ![t] = "idle"] /\ of' = [of EXCEPT ![t] = Null]
        /\ \/ wire' = wire
           \/ wire' = [wire EXCEPT ![entry[of[t]]] = Append(wire[entry[of[t]]], of[t])]
    BY <2>1 DEF SendOk, SendBusy, SendReturn, queueVars
  <2>3. of[t] \in Sessions /\ entry[of[t]] \in Contexts
    BY <2>2 DEF UseInv
  <2>4. wire' \in [Contexts -> Seq(Sessions)]
    <3>1. wire[entry[of[t]]] \in Seq(Sessions)
      BY <2>3 DEF TypeInv
    <3>2. Append(wire[entry[of[t]]], of[t]) \in Seq(Sessions)
      BY <2>3, <3>1, AppendProperties
    <3> QED BY <2>2, <3>2 DEF TypeInv
  <2>5. TypeInv'
    BY <1>1, <2>2, <2>4 DEF TypeInv
  <2>6. \A r \in Senders : spc'[r] = "send" => of'[r] = of[r] /\ spc[r] = "send"
    BY <2>2 DEF TypeInv
  <2>7. KeyInv' /\ UseInv'
    BY ZenonT(60), <1>1, <1>2, <2>2, <2>6 DEF KeyInv, UseInv
  <2> QED BY <2>5, <2>7
<1>5. CASE \E c \in Contexts : Answer(c)
  <2>1. PICK c \in Contexts : Answer(c)
    BY <1>5
  <2>2. /\ wire[c] # <<>> /\ wire' = [wire EXCEPT ![c] = Tail(wire[c])]
        /\ done' = [done EXCEPT ![c] = Append(done[c], Head(wire[c]))]
        /\ UNCHANGED <<pending, spc, of>>
    BY <2>1 DEF Answer, sendVars
  <2>3. wire[c] \in Seq(Sessions) /\ done[c] \in Seq(Sessions)
    BY DEF TypeInv
  <2>4. Tail(wire[c]) \in Seq(Sessions) /\ Append(done[c], Head(wire[c])) \in Seq(Sessions)
    BY <2>2, <2>3
  <2>5. TypeInv'
    BY <1>1, <2>2, <2>4 DEF TypeInv
  <2>6. KeyInv' /\ UseInv'
    BY <1>1, <1>2, <2>2 DEF KeyInv, UseInv
  <2> QED BY <2>5, <2>6
<1> QED BY <1>3, <1>4, <1>5

\* The slots a scan looks at, and the one INSTR polls, are slots.
LEMMA PolledSlot ==
  ASSUME TypeInv, KeyInv, NEW p \in Pollers
  PROVE  /\ Slot(p) \in Slots
         /\ Number(p) \in Nat
         /\ skey_num \in Nat
         /\ skey_num > 0 => Number(p) % skey_num \in Slots
<1>1. SkeyMax \in Nat \ {0} /\ skey_num \in 0 .. SkeyMax
  BY NumAssumption, UsedSlots DEF KeyInv
<1>2. pos[p].start + pos[p].i \in Nat /\ Number(p) \in Nat
  BY DEF TypeInv, Number
<1>3. Slot(p) \in 0 .. SkeyMax - 1
  BY <1>1, <1>2, DivMod DEF Slot
<1>4. ASSUME skey_num > 0 PROVE Number(p) % skey_num \in 0 .. SkeyMax - 1
  <2>1. skey_num \in Nat \ {0}
    BY <1>1, <1>4
  <2>2. Number(p) % skey_num \in 0 .. skey_num - 1
    BY <1>2, <2>1, DivMod
  <2> QED BY <1>1, <2>1, <2>2
<1> QED BY <1>1, <1>2, <1>3, <1>4 DEF Slots

\* A poll changes its own locals, a counter and a queue.
LEMMA PollKeys ==
  ASSUME TypeInv, KeyInv, UseInv, NEW p \in Pollers, PollStep(p)
  PROVE  TypeInv' /\ KeyInv' /\ UseInv'
<1>1. UNCHANGED <<setup, skey, skey_num, state, entry, wire, spc, of>>
  BY DEF PollStep, PollStart, PollSkip, PollEnter, PollInstr, PollInvalid,
     PollRecv,
         PollCredit, PollNext, PollEnd, keyVars, queueVars, sendVars
<1>2. (Slots \ FreeSlots)' = Slots \ FreeSlots
  BY <1>1 DEF FreeSlots
<1>3. CASE PollStart(p) \/ PollSkip(p) \/ PollNext(p)
  <2>1. Number(p) % skey_num \in Nat \/ ~PollStart(p)
    <3>1. ASSUME PollStart(p) PROVE Number(p) % skey_num \in Nat
      <4>1. skey_num > 0
        BY <3>1 DEF PollStart
      <4> QED BY <4>1, PolledSlot, NumAssumption DEF Slots
    <3> QED BY <3>1
  <2>2. pos' \in [Pollers -> [start : Nat, i : Nat]]
    <3>1. CASE PollStart(p)
      BY <2>1, <3>1 DEF PollStart, TypeInv
    <3>2. CASE PollSkip(p) \/ PollNext(p)
      <4>1. pos' = [pos EXCEPT ![p] = [pos[p] EXCEPT !.i = pos[p].i + 1]]
        BY <3>2 DEF PollSkip, PollNext, StepOn
      <4>2. pos[p] \in [start : Nat, i : Nat]
        BY DEF TypeInv
      <4>3. [pos[p] EXCEPT !.i = pos[p].i + 1] \in [start : Nat, i : Nat]
        BY <4>2
      <4> QED BY <4>1, <4>3 DEF TypeInv
    <3> QED BY <1>3, <3>1, <3>2
  <2>3. tidx' \in [Pollers -> Nat] /\ threads' \in Nat
    <3>1. CASE PollStart(p)
      BY <3>1 DEF PollStart, TakeNumber, TypeInv
    <3>2. CASE PollSkip(p) \/ PollNext(p)
      BY <3>2 DEF PollSkip, PollNext, TypeInv
    <3> QED BY <1>3, <3>1, <3>2
  <2>4. /\ UNCHANGED <<pending, done, got>>
        /\ ppc' \in [Pollers -> {"idle", "scan", "poll", "credit", "next"}]
        /\ key' \in [Pollers -> Sessions \cup {Null}]
        /\ ppc'[p] = "scan"
        /\ \A q \in Pollers : q # p => ppc'[q] = ppc[q] /\ key'[q] = key[q]
    BY ZenonT(60), <1>3 DEF PollStart, PollSkip, PollNext, PollGoto, queueVars, TypeInv
  <2>5. TypeInv'
    BY <1>1, <2>2, <2>3, <2>4 DEF TypeInv
  <2>6. KeyInv' /\ UseInv'
    BY ZenonT(60), <1>1, <1>2, <2>4 DEF KeyInv, UseInv
  <2> QED BY <2>5, <2>6
<1>4. CASE PollEnter(p) \/ PollInstr(p)
  <2>1. /\ UNCHANGED <<pending, done, got, pos>> /\ ppc' = [ppc EXCEPT ![p] = "poll"]
        /\ \E i \in Slots : skey[i] # Null /\ key' = [key EXCEPT ![p] = skey[i]]
    BY <1>4, PolledSlot DEF PollEnter, PollInstr, PollGoto, queueVars
  <2>2. PICK i \in Slots : skey[i] # Null /\ key' = [key EXCEPT ![p] = skey[i]]
    BY <2>1
  <2>3. skey[i] \in Sessions
    BY <2>2 DEF TypeInv
  <2>4. tidx' \in [Pollers -> Nat] /\ threads' \in Nat
    BY SMTT(30), <1>4 DEF PollEnter, PollInstr, TakeNumber, TypeInv
  <2>5. TypeInv'
    BY <1>1, <2>1, <2>2, <2>3, <2>4 DEF TypeInv
  <2>6. /\ ppc'[p] = "poll" /\ key'[p] \in Sessions
        /\ \A q \in Pollers : q # p => ppc'[q] = ppc[q] /\ key'[q] = key[q]
    BY <2>1, <2>2, <2>3 DEF TypeInv
  <2>7. KeyInv' /\ UseInv'
    BY ZenonT(60), <1>1, <1>2, <2>1, <2>6 DEF KeyInv, UseInv
  <2> QED BY <2>5, <2>7
<1>5. CASE PollInvalid(p) \/ PollEnd(p)
  <2>1. /\ UNCHANGED <<pending, done, tidx, threads>> /\ PollReturn(p)
    BY <1>5 DEF PollInvalid, PollEnd, queueVars
  <2>2. TypeInv'
    BY <1>1, <2>1 DEF PollReturn, PollGoto, TypeInv
  <2>3. /\ ppc'[p] = "idle"
        /\ \A q \in Pollers : q # p => ppc'[q] = ppc[q] /\ key'[q] = key[q]
    BY <2>1 DEF PollReturn, PollGoto, TypeInv
  <2>4. KeyInv' /\ UseInv'
    BY ZenonT(60), <1>1, <1>2, <2>1, <2>3 DEF KeyInv, UseInv
  <2> QED BY <2>2, <2>4
<1>6. CASE PollRecv(p)
  <2> DEFINE c == entry[key[p]]
             n == Min({Expect, Len(done[c])})
  <2>1. /\ ppc[p] = "poll" /\ c # NoContext
        /\ done' = [done EXCEPT ![c] = SubSeq(done[c], n + 1, Len(done[c]))]
        /\ got' = [got EXCEPT ![p] = n] /\ ppc' = [ppc EXCEPT ![p] = "credit"]
        /\ UNCHANGED <<pending, pos, key, tidx, threads>>
    BY <1>6 DEF PollRecv, PollGoto
  <2>2. key[p] \in Sessions /\ c \in Contexts
    BY <2>1 DEF UseInv, TypeInv
  <2>3. n \in Nat /\ SubSeq(done[c], n + 1, Len(done[c])) \in Seq(Sessions)
    BY <2>2, PollCount
  <2> HIDE DEF n
  <2>4. TypeInv'
    BY <1>1, <2>1, <2>2, <2>3 DEF TypeInv
  <2>5. ppc'[p] = "credit" /\ \A q \in Pollers : q # p => ppc'[q] = ppc[q]
    BY <2>1 DEF TypeInv
  <2>6. KeyInv' /\ UseInv'
    BY ZenonT(60), <1>1, <1>2, <2>1, <2>2, <2>5 DEF KeyInv, UseInv
  <2> QED BY <2>4, <2>6
<1>7. CASE PollCredit(p)
  <2>1. /\ ppc[p] = "credit" /\ ppc' = [ppc EXCEPT ![p] = "next"]
        /\ pending' = [pending EXCEPT ![key[p]] =
                         IF setup.policy = "instr" THEN pending[key[p]]
                         ELSE pending[key[p]] - got[p]]
        /\ got' = [got EXCEPT ![p] = 0]
        /\ UNCHANGED <<done, pos, key, tidx, threads>>
    BY <1>7 DEF PollCredit, PollGoto, queueVars
  <2>2. key[p] \in Sessions /\ entry[key[p]] \in Contexts
    BY <2>1 DEF UseInv
  <2>3. state[key[p]] \notin {"none", "refused"}
    BY <2>2, NameAssumption DEF KeyInv
  <2>4. /\ pending' \in [Sessions -> Int]
        /\ \A r \in Sessions : r # key[p] => pending'[r] = pending[r]
    BY <2>1, <2>2 DEF TypeInv
  <2>5. TypeInv'
    BY <1>1, <2>1, <2>4 DEF TypeInv
  <2>6. ppc'[p] = "next" /\ \A q \in Pollers : q # p => ppc'[q] = ppc[q]
    BY <2>1 DEF TypeInv
  <2>7. KeyInv'
    BY <1>1, <1>2, <2>3, <2>4 DEF KeyInv
  <2>8. UseInv'
    BY <1>1, <2>1, <2>2, <2>6 DEF UseInv
  <2> QED BY <2>5, <2>7, <2>8
<1> QED BY <1>3, <1>4, <1>5, <1>6, <1>7 DEF PollStep

-----------------------------------------------------------------------------
\* The counters cover the queue.

\* Nothing of what is counted changes.
LEMMA QuietCovered ==
  ASSUME NEW c, Covered(c), Over(c)' = Over(c), Under(c)' = Under(c),
         Sending(c)' = Sending(c), Share(c)' = Share(c), Held(c)' = Held(c)
  PROVE  Covered(c)'
  BY DEF Covered, Above, Below, Gotten

\* The sizes are numbers.
LEMMA Sizes ==
  ASSUME TypeInv, NEW c \in Contexts, Covered(c)
  PROVE  /\ Cardinality(Above(c)) \in Nat /\ Cardinality(Below(c)) \in Nat
         /\ Cardinality(Sending(c)) \in Nat /\ Cardinality(Gotten(c)) \in Nat
         /\ Len(wire[c]) \in Nat /\ Len(done[c]) \in Nat
         /\ Held(c) = Len(wire[c]) + Len(done[c]) /\ Held(c) \in Nat
<1>1. wire[c] \in Seq(Sessions) /\ done[c] \in Seq(Sessions)
  BY DEF TypeInv
<1>2. Len(wire[c]) \in Nat /\ Len(done[c]) \in Nat
  BY <1>1, LenProperties
<1>3. Held(c) = Len(wire[c]) + Len(done[c]) /\ Held(c) \in Nat
  <2> DEFINE a == Len(wire[c])
             b == Len(done[c])
  <2>1. Held(c) = a + b
    BY DEF Held
  <2>2. a \in Nat /\ b \in Nat
    BY <1>2
  <2> HIDE DEF a, b
  <2>3. Held(c) \in Nat
    BY <2>1, <2>2
  <2> QED BY <2>1, <2>3 DEF a, b
<1>4. /\ IsFiniteSet(Above(c)) /\ IsFiniteSet(Below(c))
      /\ IsFiniteSet(Sending(c)) /\ IsFiniteSet(Gotten(c))
  BY DEF Covered
<1> QED BY <1>2, <1>3, <1>4, FS_CardinalityType

\* A counter of a session of context c moves from n to m: above and below
\* together, the pile moves by m - n.
LEMMA CounterMoves ==
  ASSUME TypeInv, TypeInv', NEW c \in Contexts, Covered(c), NEW s \in Sessions,
         entry[s] = c, entry' = entry,
         \A r \in Sessions : r # s => pending'[r] = pending[r]
  PROVE  /\ IsFiniteSet(Above(c)') /\ IsFiniteSet(Below(c)')
         /\ Cardinality(Above(c)') \in Nat /\ Cardinality(Below(c)') \in Nat
         /\ Cardinality(Above(c)') - Cardinality(Below(c)') =
              (Cardinality(Above(c)) - Cardinality(Below(c))) + (pending'[s] - pending[s])
<1> DEFINE n == pending[s]
           m == pending'[s]
           A == Over(c)
           B == Over(c)'
           U == Under(c)
           V == Under(c)'
<1>1. n \in Int /\ m \in Int
  BY DEF TypeInv
<1>2. /\ A[s] = 1 .. n /\ B[s] = 1 .. m
      /\ U[s] = (n + 1) .. 0 /\ V[s] = (m + 1) .. 0
      /\ \A r \in Sessions \ {s} : A[r] = B[r] /\ U[r] = V[r]
  BY DEF Over, Under
<1>3. /\ IsFiniteSet(Pile(Sessions, A)) /\ IsFiniteSet(Pile(Sessions, U))
      /\ Above(c) = Pile(Sessions, A) /\ Above(c)' = Pile(Sessions, B)
      /\ Below(c) = Pile(Sessions, U) /\ Below(c)' = Pile(Sessions, V)
  BY DEF Covered, Above, Below
<1>4. /\ IsFiniteSet(A[s]) /\ IsFiniteSet(B[s]) /\ IsFiniteSet(U[s]) /\ IsFiniteSet(V[s])
      /\ Cardinality(A[s]) = (IF n > 0 THEN n ELSE 0)
      /\ Cardinality(B[s]) = (IF m > 0 THEN m ELSE 0)
      /\ Cardinality(U[s]) = (IF n < 0 THEN -n ELSE 0)
      /\ Cardinality(V[s]) = (IF m < 0 THEN -m ELSE 0)
  BY <1>1, <1>2, SliceSize
<1> HIDE DEF n, m, A, B, U, V
<1>5. /\ IsFiniteSet(Pile(Sessions, B))
      /\ Cardinality(Pile(Sessions, B)) =
           Cardinality(Pile(Sessions, A)) - Cardinality(A[s]) + Cardinality(B[s])
  BY <1>2, <1>3, <1>4, PileChange
<1>6. /\ IsFiniteSet(Pile(Sessions, V))
      /\ Cardinality(Pile(Sessions, V)) =
           Cardinality(Pile(Sessions, U)) - Cardinality(U[s]) + Cardinality(V[s])
  BY <1>2, <1>3, <1>4, PileChange
<1>7. /\ Cardinality(Pile(Sessions, A)) \in Nat /\ Cardinality(Pile(Sessions, B)) \in Nat
      /\ Cardinality(Pile(Sessions, U)) \in Nat /\ Cardinality(Pile(Sessions, V)) \in Nat
  BY <1>3, <1>5, <1>6, FS_CardinalityType
<1>8. Cardinality(Pile(Sessions, B)) - Cardinality(Pile(Sessions, V)) =
        (Cardinality(Pile(Sessions, A)) - Cardinality(Pile(Sessions, U))) + (m - n)
  BY <1>1, <1>4, <1>5, <1>6, <1>7
<1> QED BY <1>3, <1>5, <1>6, <1>7, <1>8 DEF n, m

\* A submission is counted before it is sent.
LEMMA PickCovers ==
  ASSUME TypeInv, TypeInv', KeyInv, UseInv, NEW t \in Senders, NEW s \in Sessions,
         PickRR(t, s), NEW c \in Contexts, Covered(c)
  PROVE  Covered(c)'
<1>1. /\ pending' = [pending EXCEPT ![s] = pending[s] + 1] /\ spc[t] = "idle"
      /\ UNCHANGED <<entry, wire, done, ppc, key, got>>
      /\ IF entry[s] = NoContext THEN UNCHANGED <<spc, of>>
         ELSE spc' = [spc EXCEPT ![t] = "send"] /\ of' = [of EXCEPT ![t] = s]
  BY DEF PickRR, MaySubmit, keyVars, queueVars, pollVars
<1>2. /\ pending[s] \in Int /\ pending'[s] = pending[s] + 1
      /\ \A r \in Sessions : r # s => pending'[r] = pending[r]
  BY <1>1 DEF TypeInv
<1>3. Share(c)' = Share(c) /\ Gotten(c)' = Gotten(c) /\ Held(c)' = Held(c)
  BY <1>1 DEF Share, Gotten, Held
<1>4. t \notin Sending(c)
  BY <1>1 DEF Sending
<1>5. CASE entry[s] # c
  <2>1. Over(c)' = Over(c) /\ Under(c)' = Under(c)
    BY <1>1, <1>2, <1>5 DEF Over, Under
  <2>2. Sending(c)' = Sending(c)
    <3>1. CASE entry[s] = NoContext
      BY <1>1, <3>1 DEF Sending
    <3>2. CASE entry[s] # NoContext
      <4>1. /\ spc'[t] = "send" /\ of'[t] = s
            /\ \A u \in Senders : u # t => spc'[u] = spc[u] /\ of'[u] = of[u]
        BY <1>1, <3>2 DEF TypeInv
      <4> QED BY <1>1, <1>5, <4>1 DEF Sending
    <3> QED BY <3>1, <3>2
  <2> QED BY <1>3, <2>1, <2>2, QuietCovered
<1>6. CASE entry[s] = c
  <2>1. c # NoContext
    BY NameAssumption
  <2>2. /\ spc'[t] = "send" /\ of'[t] = s
        /\ \A u \in Senders : u # t => spc'[u] = spc[u] /\ of'[u] = of[u]
    BY <1>1, <1>6, <2>1 DEF TypeInv
  <2>3. Sending(c)' = Sending(c) \cup {t}
    BY <1>1, <1>6, <2>2 DEF Sending
  <2>4. /\ IsFiniteSet(Sending(c)')
        /\ Cardinality(Sending(c)') = Cardinality(Sending(c)) + 1
    BY <1>4, <2>3, FS_AddElement DEF Covered
  <2>5. /\ IsFiniteSet(Above(c)') /\ IsFiniteSet(Below(c)')
        /\ Cardinality(Above(c)') \in Nat /\ Cardinality(Below(c)') \in Nat
        /\ Cardinality(Above(c)') - Cardinality(Below(c)') =
             (Cardinality(Above(c)) - Cardinality(Below(c))) + (pending'[s] - pending[s])
    BY <1>1, <1>2, <1>6, CounterMoves
  <2>6. Cardinality(Above(c)') >= Cardinality(Below(c)') + Held(c)'
                                  + Cardinality(Sending(c)') + Cardinality(Gotten(c)')
    <3>1. Cardinality(Above(c)) >= Cardinality(Below(c)) + Held(c)
                                   + Cardinality(Sending(c)) + Cardinality(Gotten(c))
      BY DEF Covered
    <3>2. /\ Cardinality(Above(c)) \in Nat /\ Cardinality(Below(c)) \in Nat
          /\ Cardinality(Sending(c)) \in Nat /\ Cardinality(Gotten(c)) \in Nat
          /\ Held(c) \in Nat
      BY Sizes
    <3>3. pending'[s] - pending[s] = 1
      BY <1>2
    <3> QED BY <1>3, <2>4, <2>5, <3>1, <3>2, <3>3
  <2> QED BY <1>3, <2>4, <2>5, <2>6 DEF Covered
<1> QED BY <1>5, <1>6

\* A submission enters the queue, or is given up while its count stays.
LEMMA SendCovers ==
  ASSUME TypeInv, TypeInv', KeyInv, UseInv, NEW t \in Senders, SendOk(t) \/ SendBusy(t),
         NEW c \in Contexts, Covered(c)
  PROVE  Covered(c)'
<1>1. /\ spc[t] = "send" /\ spc' = [spc EXCEPT ![t] = "idle"]
      /\ of' = [of EXCEPT ![t] = Null]
      /\ UNCHANGED <<entry, pending, done, ppc, key, got>>
      /\ \/ wire' = wire
         \/ wire' = [wire EXCEPT ![entry[of[t]]] = Append(wire[entry[of[t]]], of[t])]
  BY DEF SendOk, SendBusy, SendReturn, keyVars, queueVars, pollVars
<1>2. of[t] \in Sessions /\ entry[of[t]] \in Contexts
  BY <1>1 DEF UseInv
<1>3. /\ Over(c)' = Over(c) /\ Under(c)' = Under(c) /\ Share(c)' = Share(c)
      /\ Above(c)' = Above(c) /\ Below(c)' = Below(c) /\ Gotten(c)' = Gotten(c)
  BY <1>1 DEF Over, Under, Share, Above, Below, Gotten
<1>4. /\ spc'[t] = "idle"
      /\ \A u \in Senders : u # t => spc'[u] = spc[u] /\ of'[u] = of[u]
  BY <1>1 DEF TypeInv
<1>5. CASE entry[of[t]] # c
  <2>1. Sending(c)' = Sending(c)
    BY <1>1, <1>4, <1>5 DEF Sending
  <2>2. Held(c)' = Held(c)
    BY ZenonT(60), <1>1, <1>2, <1>5 DEF Held, TypeInv
  <2> QED BY <1>3, <2>1, <2>2, QuietCovered
<1>6. CASE entry[of[t]] = c
  <2>1. Sending(c)' = Sending(c) \ {t} /\ t \in Sending(c)
    BY <1>1, <1>4, <1>6 DEF Sending
  <2>2. /\ IsFiniteSet(Sending(c)')
        /\ Cardinality(Sending(c)') = Cardinality(Sending(c)) - 1
    BY <2>1, FS_RemoveElement DEF Covered
  <2>3. Held(c)' \in Nat /\ Held(c)' <= Held(c) + 1
    <3>1. wire[c] \in Seq(Sessions) /\ Len(wire[c]) \in Nat /\ Len(done[c]) \in Nat
      BY Sizes DEF TypeInv
    <3>2. Len(wire'[c]) \in {Len(wire[c]), Len(wire[c]) + 1}
      BY <1>1, <1>2, <1>6, <3>1 DEF TypeInv
    <3> DEFINE a == Len(wire[c])
               b == Len(done[c])
               d == Len(wire'[c])
    <3>3. Held(c) = a + b /\ Held(c)' = d + b
      BY <1>1 DEF Held
    <3>4. a \in Nat /\ b \in Nat /\ d \in {a, a + 1}
      BY <3>1, <3>2
    <3> HIDE DEF a, b, d
    <3> QED BY <3>3, <3>4
  <2>4. Cardinality(Above(c)') >= Cardinality(Below(c)') + Held(c)'
                                  + Cardinality(Sending(c)') + Cardinality(Gotten(c)')
    <3>1. Cardinality(Above(c)) >= Cardinality(Below(c)) + Held(c)
                                   + Cardinality(Sending(c)) + Cardinality(Gotten(c))
      BY DEF Covered
    <3>2. /\ Cardinality(Above(c)) \in Nat /\ Cardinality(Below(c)) \in Nat
          /\ Cardinality(Sending(c)) \in Nat /\ Cardinality(Gotten(c)) \in Nat
          /\ Held(c) \in Nat
      BY Sizes
    <3> QED BY <1>3, <2>2, <2>3, <3>1, <3>2
  <2> QED BY <1>3, <2>2, <2>4 DEF Covered
<1> QED BY <1>5, <1>6

\* The device moves a request from one part of the queue to the other.
LEMMA AnswerCovers ==
  ASSUME TypeInv, NEW d \in Contexts, Answer(d), NEW c \in Contexts, Covered(c)
  PROVE  Covered(c)'
<1>1. /\ wire[d] # <<>> /\ wire' = [wire EXCEPT ![d] = Tail(wire[d])]
      /\ done' = [done EXCEPT ![d] = Append(done[d], Head(wire[d]))]
      /\ UNCHANGED <<entry, pending, spc, of, ppc, key, got>>
  BY DEF Answer, keyVars, sendVars, pollVars
<1>2. /\ Over(c)' = Over(c) /\ Under(c)' = Under(c) /\ Share(c)' = Share(c)
      /\ Sending(c)' = Sending(c)
  BY <1>1 DEF Over, Under, Share, Sending
<1>3. Held(c)' = Held(c)
  <2>1. CASE c # d
    BY <1>1, <2>1 DEF Held, TypeInv
  <2>2. CASE c = d
    <3>1. wire[c] \in Seq(Sessions) /\ done[c] \in Seq(Sessions) /\ wire[c] # <<>>
      BY <1>1, <2>2 DEF TypeInv
    <3>2. wire'[c] = Tail(wire[c]) /\ done'[c] = Append(done[c], Head(wire[c]))
      BY <1>1, <2>2 DEF TypeInv
    <3> DEFINE a == Len(wire[c])
               b == Len(done[c])
               a1 == Len(wire'[c])
               b1 == Len(done'[c])
    <3>3. a \in Nat /\ b \in Nat /\ a1 = a - 1 /\ b1 = b + 1
      BY <3>1, <3>2
    <3>4. Held(c) = a + b /\ Held(c)' = a1 + b1
      BY DEF Held
    <3> HIDE DEF a, b, a1, b1
    <3> QED BY <3>3, <3>4
  <2> QED BY <2>1, <2>2
<1> QED BY <1>2, <1>3, QuietCovered

\* A poller's share changes.
LEMMA ShareMoves ==
  ASSUME TypeInv, NEW c \in Contexts, Covered(c), NEW p \in Pollers, NEW n \in Nat,
         NEW m \in Nat, Share(c)[p] = 1 .. n, Share(c)'[p] = 1 .. m,
         \A q \in Pollers : q # p => Share(c)'[q] = Share(c)[q]
  PROVE  /\ IsFiniteSet(Gotten(c)') /\ Cardinality(Gotten(c)') \in Nat
         /\ Cardinality(Gotten(c)') = Cardinality(Gotten(c)) - n + m
<1> DEFINE A == Share(c)
           B == Share(c)'
<1>1. /\ A[p] = 1 .. n /\ B[p] = 1 .. m /\ \A q \in Pollers \ {p} : A[q] = B[q]
  OBVIOUS
<1>2. /\ IsFiniteSet(Pile(Pollers, A)) /\ Gotten(c) = Pile(Pollers, A)
      /\ Gotten(c)' = Pile(Pollers, B)
  BY DEF Covered, Gotten
<1>3. /\ IsFiniteSet(A[p]) /\ IsFiniteSet(B[p])
      /\ Cardinality(A[p]) = n /\ Cardinality(B[p]) = m
  <2>1. /\ IsFiniteSet(1 .. n) /\ Cardinality(1 .. n) = IF n > 0 THEN n ELSE 0
        /\ IsFiniteSet(1 .. m) /\ Cardinality(1 .. m) = IF m > 0 THEN m ELSE 0
    BY SliceSize
  <2> QED BY <1>1, <2>1
<1> HIDE DEF A, B
<1>4. /\ IsFiniteSet(Pile(Pollers, B))
      /\ Cardinality(Pile(Pollers, B)) =
           Cardinality(Pile(Pollers, A)) - Cardinality(A[p]) + Cardinality(B[p])
  BY <1>1, <1>2, <1>3, PileChange
<1> QED BY <1>2, <1>3, <1>4, FS_CardinalityType

\* Answers leave the queue before they leave the counter.
LEMMA RecvCovers ==
  ASSUME TypeInv, UseInv, NEW p \in Pollers, PollRecv(p), NEW c \in Contexts, Covered(c)
  PROVE  Covered(c)'
<1> DEFINE d == entry[key[p]]
           n == Min({Expect, Len(done[d])})
<1>1. /\ ppc[p] = "poll" /\ d # NoContext
      /\ done' = [done EXCEPT ![d] = SubSeq(done[d], n + 1, Len(done[d]))]
      /\ got' = [got EXCEPT ![p] = n] /\ ppc' = [ppc EXCEPT ![p] = "credit"]
      /\ UNCHANGED <<pending, entry, key, wire, spc, of>>
  BY DEF PollRecv, PollGoto, keyVars, sendVars
<1>2. key[p] \in Sessions /\ d \in Contexts
  BY <1>1 DEF UseInv, TypeInv
<1>3. /\ n \in Nat /\ n <= Len(done[d])
      /\ Len(SubSeq(done[d], n + 1, Len(done[d]))) = Len(done[d]) - n
  BY <1>2, PollCount
<1> HIDE DEF n
<1>4. /\ ppc'[p] = "credit" /\ got'[p] = n
      /\ \A q \in Pollers : q # p => ppc'[q] = ppc[q] /\ got'[q] = got[q]
      /\ \A x \in Contexts : x # d => done'[x] = done[x]
      /\ done'[d] = SubSeq(done[d], n + 1, Len(done[d]))
  BY <1>1, <1>2 DEF TypeInv
<1>5. /\ Over(c)' = Over(c) /\ Under(c)' = Under(c) /\ Sending(c)' = Sending(c)
      /\ Above(c)' = Above(c) /\ Below(c)' = Below(c)
  BY <1>1 DEF Over, Under, Sending, Above, Below
<1>6. CASE c # d
  <2>1. Held(c)' = Held(c)
    BY <1>1, <1>4, <1>6 DEF Held
  <2>2. Share(c)' = Share(c)
    BY <1>1, <1>4, <1>6 DEF Share
  <2> QED BY <1>5, <2>1, <2>2, QuietCovered
<1>7. CASE c = d
  <2>1. /\ Share(c)[p] = 1 .. 0 /\ Share(c)'[p] = 1 .. n
        /\ \A q \in Pollers : q # p => Share(c)'[q] = Share(c)[q]
    BY <1>1, <1>4, <1>7 DEF Share
  <2>2. /\ IsFiniteSet(Gotten(c)') /\ Cardinality(Gotten(c)') \in Nat
        /\ Cardinality(Gotten(c)') = Cardinality(Gotten(c)) - 0 + n
    BY <1>3, <2>1, ShareMoves
  <2>3. Held(c)' = Held(c) - n /\ Held(c)' \in Nat
    <3> DEFINE a == Len(wire[c])
               b == Len(done[c])
               b1 == Len(done'[c])
    <3>1. a \in Nat /\ b \in Nat /\ b1 = b - n /\ n <= b
      BY <1>3, <1>4, <1>7, Sizes
    <3>2. Held(c) = a + b /\ Held(c)' = a + b1
      BY <1>1 DEF Held
    <3> HIDE DEF a, b, b1
    <3> QED BY <1>3, <3>1, <3>2
  <2>4. Cardinality(Above(c)') >= Cardinality(Below(c)') + Held(c)'
                                  + Cardinality(Sending(c)') + Cardinality(Gotten(c)')
    <3>1. Cardinality(Above(c)) >= Cardinality(Below(c)) + Held(c)
                                   + Cardinality(Sending(c)) + Cardinality(Gotten(c))
      BY DEF Covered
    <3>2. /\ Cardinality(Above(c)) \in Nat /\ Cardinality(Below(c)) \in Nat
          /\ Cardinality(Sending(c)) \in Nat /\ Cardinality(Gotten(c)) \in Nat
          /\ Held(c) \in Nat
      BY Sizes
    <3> QED BY SMTT(30), <1>3, <1>5, <2>2, <2>3, <3>1, <3>2
  <2> QED BY <1>5, <2>2, <2>4 DEF Covered
<1> QED BY <1>6, <1>7

\* What was received goes off the counter of the polled key, whoever asked.
LEMMA CreditCovers ==
  ASSUME TypeInv, TypeInv', UseInv, NEW p \in Pollers, PollCredit(p),
         setup.policy = "rr", NEW c \in Contexts, Covered(c)
  PROVE  Covered(c)'
<1> DEFINE s == key[p]
           n == got[p]
<1>1. /\ ppc[p] = "credit" /\ ppc' = [ppc EXCEPT ![p] = "next"]
      /\ pending' = [pending EXCEPT ![s] = pending[s] - n]
      /\ UNCHANGED <<entry, key, wire, done, spc, of>>
      /\ got' = [got EXCEPT ![p] = 0]
  BY DEF PollCredit, PollGoto, keyVars, queueVars, sendVars
<1>2. s \in Sessions /\ entry[s] \in Contexts /\ n \in Nat
  BY <1>1 DEF UseInv, TypeInv
<1>3. /\ pending[s] \in Int /\ pending'[s] = pending[s] - n
      /\ \A r \in Sessions : r # s => pending'[r] = pending[r]
      /\ ppc'[p] = "next"
      /\ \A q \in Pollers : q # p => ppc'[q] = ppc[q] /\ got'[q] = got[q]
  BY <1>1, <1>2 DEF TypeInv
<1>4. Sending(c)' = Sending(c) /\ Held(c)' = Held(c)
  BY <1>1 DEF Sending, Held
<1>5. CASE entry[s] # c
  <2>1. Over(c)' = Over(c) /\ Under(c)' = Under(c)
    BY <1>1, <1>3, <1>5 DEF Over, Under
  <2>2. Share(c)' = Share(c)
    BY <1>1, <1>3, <1>5 DEF Share
  <2> QED BY <1>4, <2>1, <2>2, QuietCovered
<1>6. CASE entry[s] = c
  <2>1. /\ Share(c)[p] = 1 .. n /\ Share(c)'[p] = 1 .. 0
        /\ \A q \in Pollers : q # p => Share(c)'[q] = Share(c)[q]
    BY <1>1, <1>3, <1>6 DEF Share
  <2>2. /\ IsFiniteSet(Gotten(c)') /\ Cardinality(Gotten(c)') \in Nat
        /\ Cardinality(Gotten(c)') = Cardinality(Gotten(c)) - n + 0
    <3>1. n \in Nat /\ 0 \in Nat
      BY <1>2
    <3> HIDE DEF n
    <3> QED BY <2>1, <3>1, ShareMoves
  <2>3. /\ IsFiniteSet(Above(c)') /\ IsFiniteSet(Below(c)')
        /\ Cardinality(Above(c)') \in Nat /\ Cardinality(Below(c)') \in Nat
        /\ Cardinality(Above(c)') - Cardinality(Below(c)') =
             (Cardinality(Above(c)) - Cardinality(Below(c))) + (pending'[s] - pending[s])
    BY <1>1, <1>2, <1>3, <1>6, CounterMoves
  <2>4. Cardinality(Above(c)') >= Cardinality(Below(c)') + Held(c)'
                                  + Cardinality(Sending(c)') + Cardinality(Gotten(c)')
    <3>1. Cardinality(Above(c)) >= Cardinality(Below(c)) + Held(c)
                                   + Cardinality(Sending(c)) + Cardinality(Gotten(c))
      BY DEF Covered
    <3>2. /\ Cardinality(Above(c)) \in Nat /\ Cardinality(Below(c)) \in Nat
          /\ Cardinality(Sending(c)) \in Nat /\ Cardinality(Gotten(c)) \in Nat
          /\ Held(c) \in Nat
      BY Sizes
    <3>3. pending'[s] - pending[s] = 0 - n
      BY <1>2, <1>3
    <3> HIDE DEF s, n
    <3> QED BY <1>2, <1>4, <2>2, <2>3, <3>1, <3>2, <3>3
  <2>5. IsFiniteSet(Sending(c)')
    BY <1>4 DEF Covered
  <2> QED BY <2>2, <2>3, <2>4, <2>5 DEF Covered
<1> QED BY <1>5, <1>6

\* Creating and freeing sessions, and the other steps of a poll, move nothing
\* that is counted: a new session's counter is zero.
LEMMA OthersCover ==
  ASSUME TypeInv, KeyInv, UseInv, NEW c \in Contexts, Covered(c),
         \/ \E s \in Sessions : SessionStep(s)
         \/ \E p \in Pollers : /\ PollStep(p) /\ ~PollRecv(p) /\ ~PollCredit(p)
         \/ UNCHANGED polledVars
  PROVE  Covered(c)'
<1>1. CASE \E s \in Sessions : Open(s)
  <2>1. PICK s \in Sessions : Open(s)
    BY <1>1
  <2>2. PICK x \in Contexts \cup {NoContext} : entry' = [entry EXCEPT ![s] = x]
    BY <2>1, SetupAssumption DEF Open, TypeInv, SetupType
  <2>3. /\ state[s] = "none" /\ UNCHANGED <<pending, wire, done, spc, of, ppc, key, got>>
    BY <2>1 DEF Open, queueVars, sendVars, pollVars
  <2>4. /\ pending[s] = 0 /\ entry[s] = NoContext /\ entry[s] # c /\ entry[s] \notin Contexts
        /\ \A r \in Sessions : r # s => entry'[r] = entry[r]
    BY <2>2, <2>3, NameAssumption DEF KeyInv, TypeInv
  <2>5. Over(c)' = Over(c) /\ Under(c)' = Under(c)
    <3>1. 1 .. 0 = {} /\ (0 + 1) .. 0 = {}
      OBVIOUS
    <3>2. \A r \in Sessions : Over(c)'[r] = Over(c)[r] /\ Under(c)'[r] = Under(c)[r]
      BY <2>3, <2>4, <3>1 DEF Over, Under
    <3> QED BY <3>2 DEF Over, Under
  <2>6. Sending(c)' = Sending(c) /\ Share(c)' = Share(c) /\ Held(c)' = Held(c)
    <3>1. \A t \in Senders : spc[t] = "send" => of[t] # s /\ of[t] \in Sessions
      BY <2>4 DEF UseInv
    <3>2. \A p \in Pollers : ppc[p] = "credit" => key[p] # s /\ key[p] \in Sessions
      BY <2>4 DEF UseInv
    <3> QED BY <2>3, <2>4, <3>1, <3>2 DEF Sending, Share, Held
  <2> QED BY <2>5, <2>6, QuietCovered
<1>2. CASE \/ \E s \in Sessions : OpenRefused(s) \/ SessionUninit(s) \/ SessionFree(s)
           \/ UNCHANGED polledVars
  <2>1. UNCHANGED <<entry, pending, wire, done, spc, of, ppc, key, got>>
    BY <1>2 DEF OpenRefused, SessionUninit, SessionFree, polledVars,
       keyVars, queueVars,
                sendVars, pollVars
  <2> QED BY <2>1, QuietCovered DEF Over, Under, Sending, Share, Held
<1>3. CASE \E p \in Pollers : PollStep(p) /\ ~PollRecv(p) /\ ~PollCredit(p)
  <2>1. PICK p \in Pollers : PollStep(p) /\ ~PollRecv(p) /\ ~PollCredit(p)
    BY <1>3
  <2>2. UNCHANGED <<entry, pending, wire, done, spc, of>>
    BY <2>1 DEF PollStep, PollStart, PollSkip, PollEnter, PollInstr,
       PollInvalid, PollNext,
                PollEnd, keyVars, queueVars, sendVars
  <2>3. /\ ppc[p] # "credit" /\ ppc'[p] # "credit"
        /\ \A q \in Pollers : q # p => /\ ppc'[q] = ppc[q] /\ key'[q] = key[q]
                                       /\ got'[q] = got[q]
    BY <2>1 DEF PollStep, PollStart, PollSkip, PollEnter, PollInstr,
       PollInvalid, PollNext,
                PollEnd, PollReturn, PollGoto, TypeInv
  <2>4. Share(c)' = Share(c)
    BY <2>2, <2>3 DEF Share
  <2> QED BY <2>2, <2>4, QuietCovered DEF Over, Under, Sending, Held
<1> QED BY <1>1, <1>2, <1>3 DEF SessionStep

\* Types and keys are kept by every step.
LEMMA NextKeys ==
  ASSUME TypeInv, KeyInv, UseInv, [PNext]_polledVars
  PROVE  TypeInv' /\ KeyInv' /\ UseInv'
<1>1. CASE UNCHANGED polledVars
  <2>1. UNCHANGED <<setup, skey, skey_num, state, entry, pending, wire, done, spc, of, ppc,
                    key, got, pos, tidx, threads>>
    BY <1>1 DEF polledVars, keyVars, queueVars, sendVars, pollVars
  <2>2. (Slots \ FreeSlots)' = Slots \ FreeSlots
    BY <2>1 DEF FreeSlots
  <2> QED BY <2>1, <2>2 DEF TypeInv, KeyInv, UseInv
<1>2. CASE \E s \in Sessions : SessionStep(s) /\ setup' = setup
  BY <1>2, OpenKeys, ClosedKeys DEF SessionStep
<1>3. CASE \/ \E t \in Senders, s \in Sessions :
                (PickRR(t, s) \/ PickUncounted(t, s)) /\ setup' = setup
           \/ \E t \in Senders : SendStep(t)
           \/ \E c \in Contexts : DeviceStep(c)
  BY <1>3, TrafficKeys DEF SendStep, DeviceStep
<1>4. CASE \E p \in Pollers : PollStep(p)
  BY <1>4, PollKeys
<1> QED BY <1>1, <1>2, <1>3, <1>4 DEF PNext

\* The counters go on covering the queues, if requests are counted (RR).
LEMMA NextCover ==
  ASSUME TypeInv, KeyInv, UseInv, CoverInv, [PNext]_polledVars
  PROVE  CoverInv'
<1>1. TypeInv'
  BY NextKeys
<1>2. setup' = setup
  BY DEF PNext, SendStep, DeviceStep, PollStep, polledVars
<1> SUFFICES ASSUME setup.policy = "rr", NEW c \in Contexts PROVE Covered(c)'
  BY <1>2 DEF CoverInv
<1>3. Covered(c)
  BY DEF CoverInv
<1>4. CASE UNCHANGED polledVars \/ \E s \in Sessions : SessionStep(s)
  BY <1>3, <1>4, OthersCover
<1>5. CASE \E t \in Senders, s \in Sessions : PickRR(t, s) \/ PickUncounted(t, s)
  <2>1. \A t \in Senders, s \in Sessions : ~PickUncounted(t, s)
    BY DEF PickUncounted
  <2> QED BY <1>1, <1>3, <1>5, <2>1, PickCovers
<1>6. CASE \E t \in Senders : SendStep(t)
  BY <1>1, <1>3, <1>6, SendCovers DEF SendStep
<1>7. CASE \E d \in Contexts : DeviceStep(d)
  BY <1>3, <1>7, AnswerCovers DEF DeviceStep
<1>8. CASE \E p \in Pollers : PollStep(p)
  <2>1. PICK p \in Pollers : PollStep(p)
    BY <1>8
  <2>2. CASE PollRecv(p)
    BY <1>3, <2>2, RecvCovers
  <2>3. CASE PollCredit(p)
    BY <1>1, <1>3, <2>3, CreditCovers
  <2>4. CASE ~PollRecv(p) /\ ~PollCredit(p)
    BY <1>3, <2>1, <2>4, OthersCover
  <2> QED BY <2>2, <2>3, <2>4
<1> QED BY <1>4, <1>5, <1>6, <1>7, <1>8 DEF PNext

\* At the start all piles are empty.
LEMMA InitCover == PInit => CoverInv
<1> SUFFICES ASSUME PInit, NEW c \in Contexts PROVE Covered(c)
  BY DEF CoverInv
<1>1. \A s \in Sessions : Over(c)[s] = {} /\ Under(c)[s] = {}
  BY NameAssumption DEF PInit, Over, Under
<1>2. \A p \in Pollers : Share(c)[p] = {}
  BY DEF PInit, Share
<1>3. Above(c) = {} /\ Below(c) = {} /\ Gotten(c) = {}
  BY <1>1, <1>2 DEF Above, Below, Gotten, Pile
<1>4. Sending(c) = {}
  BY DEF PInit, Sending
<1>5. Held(c) = 0
  <2>1. wire[c] = <<>> /\ done[c] = <<>>
    BY DEF PInit
  <2> QED BY <2>1 DEF Held
<1> QED BY <1>3, <1>4, <1>5, FS_EmptySet DEF Covered

\* If no session is freed, answers waiting in a queue are never overlooked: a
\* registered key of that context has a positive counter, for any number of
\* sessions, contexts, senders and poll threads, though every poll takes what
\* it received off one counter (round_robin_poll_policy, wd_sched_poll_skey).
THEOREM NoneOverlooked == PSpec => []PendingCovers
<1>1. TypeInv /\ KeyInv /\ CoverInv => PendingCovers
  <2> SUFFICES ASSUME TypeInv, KeyInv, CoverInv, setup.policy = "rr",
                      setup.release = "never", NEW c \in Contexts, Held(c) > 0
               PROVE  \E s \in Range(skey) \ {Null} : entry[s] = c /\ pending[s] > 0
    BY DEF PendingCovers
  <2>1. Covered(c)
    BY DEF CoverInv
  <2>2. /\ Cardinality(Above(c)) \in Nat /\ Cardinality(Below(c)) \in Nat
        /\ Cardinality(Sending(c)) \in Nat /\ Cardinality(Gotten(c)) \in Nat
        /\ Held(c) \in Nat
    BY <2>1, Sizes
  <2>3. Cardinality(Above(c)) > 0
    BY <2>1, <2>2 DEF Covered
  <2>4. Above(c) # {}
    BY <2>3, FS_EmptySet
  <2>5. PICK s \in Sessions : Over(c)[s] # {}
    BY <2>4 DEF Above, Pile
  <2>6. entry[s] = c /\ pending[s] > 0
    <3>1. entry[s] = c /\ 1 .. pending[s] # {} /\ pending[s] \in Int
      BY <2>5 DEF Over, TypeInv
    <3> QED BY <3>1
  <2>7. state[s] = "open"
    <3>1. entry[s] # NoContext
      BY <2>6, NameAssumption
    <3>2. state[s] \notin {"none", "refused"} /\ state[s] # "freed"
      BY <3>1 DEF KeyInv
    <3> QED BY <3>2 DEF TypeInv
  <2>8. PICK i \in Slots : skey[i] = s
    BY <2>7 DEF KeyInv
  <2>9. s \in Range(skey)
    BY <2>8 DEF Range, TypeInv
  <2> QED BY <2>6, <2>9, NameAssumption
<1>2. PInit => TypeInv /\ KeyInv /\ UseInv /\ CoverInv
  BY InitKeys, InitCover
<1>3. TypeInv /\ KeyInv /\ UseInv /\ CoverInv /\ [PNext]_polledVars
        => TypeInv' /\ KeyInv' /\ UseInv' /\ CoverInv'
  BY NextKeys, NextCover
<1> QED BY <1>1, <1>2, <1>3, PTL DEF PSpec

\* A session is refused only while as many sessions are in use as there are
\* slots, if sessions are freed with their slots (sched_skey_param_init,
\* sched_skey_param_uninit).
THEOREM RefusalMeansFull == PSpec => RefusedMeansFull
<1> DEFINE Full(s) == (setup.release = "uninit" /\ state[s] = "none"
                       /\ state'[s] = "refused")
                      => Cardinality({r \in Sessions : state[r] = "open"}) = SkeyMax
           A == \A s \in Sessions : Full(s)
<1>1. TypeInv /\ KeyInv /\ [PNext]_polledVars => [A]_polledVars
  <2> SUFFICES ASSUME TypeInv, KeyInv, PNext, NEW s \in Sessions,
                      setup.release = "uninit", state[s] = "none",
                      state'[s] = "refused"
               PROVE  Cardinality({r \in Sessions : state[r] = "open"}) = SkeyMax
    BY SMTT(30)
  <2> DEFINE T == {r \in Sessions : state[r] = "open"}
  <2>1. FreeSlots = {}
    BY ZenonT(60) DEF PNext, SessionStep, Open, OpenRefused, SessionUninit,
       SessionFree, PickRR,
           PickUncounted, SendStep, SendOk, SendBusy, DeviceStep, Answer, PollStep,
           PollStart, PollSkip, PollEnter, PollInstr, PollInvalid, PollRecv, PollCredit,
           PollNext, PollEnd, keyVars, TypeInv
  <2>2. \A i \in Slots : skey[i] # Null
    BY <2>1 DEF FreeSlots
  <2>3. skey \in [Slots -> T]
    BY <2>2 DEF TypeInv, KeyInv
  <2>4. \A i, j \in Slots : skey[i] = skey[j] => i = j
    BY <2>2 DEF KeyInv
  <2>5. \A r \in T : \E i \in Slots : skey[i] = r
    BY DEF KeyInv
  <2> HIDE DEF T
  <2>6. skey \in Bijection(Slots, T)
    BY <2>3, <2>4, <2>5 DEF Bijection, Injection, Surjection, IsInjective
  <2>7. ExistsBijection(Slots, T)
    BY <2>6 DEF ExistsBijection
  <2>8. Cardinality(T) = SkeyMax
    BY <2>7, UsedSlots, FS_Bijection
  <2> QED BY <2>8 DEF T
<1>2. PInit => TypeInv /\ KeyInv /\ UseInv
  BY InitKeys
<1>3. TypeInv /\ KeyInv /\ UseInv /\ [PNext]_polledVars => TypeInv' /\ KeyInv' /\ UseInv'
  BY NextKeys
<1> QED BY <1>1, <1>2, <1>3, PTL DEF PSpec, RefusedMeansFull

-----------------------------------------------------------------------------
\* The context cache.

\* What bounds the loads: with HUNGRY_LOAD_THRESHOLD 256 and HW_CTX_FULL_DEPTH
\* 1023 three threads may take the threshold off one entry, a fourth could wrap it.
FewPickers == /\ IsFiniteSet(Pickers)
              /\ Threshold * Cardinality(Pickers) <= FullDepth
              /\ FullDepth + Cardinality(Pickers) <= Wrap

Selects == {"store", "check", "mode", "reduce", "add"}
SkeyPoints == {"idle", "store", "select", "check", "mode", "reduce", "mark", "add", "next",
               "grow", "using", "full"}

SkeyTypes == /\ idx \in Seq(Nat) /\ load \in Seq(Nat) /\ Len(load) = Len(idx)
             /\ minIdx \in 1 .. Len(load) /\ hasSub \in BOOLEAN
             /\ at \in 1 .. Len(Order)
             /\ pc \in [Pickers -> SkeyPoints]
             /\ sel \in [Pickers -> Nat] /\ seen \in [Pickers -> Nat]
             /\ \A t \in Pickers : pc[t] \in Selects => sel[t] \in 1 .. Len(load)

\* The threads about to count a load in entry k, about to take the threshold off
\* it, and those that have done so but have not set the flag.
Adders(k) == {t \in Pickers : pc[t] = "add" /\ sel[t] = k}
Reducers(k) == {t \in Pickers : pc[t] = "reduce" /\ sel[t] = k}
Markers == {t \in Pickers : pc[t] = "mark"}
Reducing(k) == \E t \in Pickers : pc[t] \in {"mode", "reduce"} /\ sel[t] = k

\* A thread that may still add 1 is reserved for; until the flag is set an entry
\* found full is so but for what the markers took off, afterwards what the
\* remaining reducers take off is there.
SkeyUpper(k) == load[k] + Cardinality(Adders(k)) <= FullDepth - 1 + Cardinality(Pickers)
SkeyLower(k) ==
  /\ ~hasSub /\ Reducing(k) => load[k] + Threshold * Cardinality(Markers) >= FullDepth
  /\ hasSub => load[k] >= Threshold * Cardinality(Reducers(k))
SkeyLoads == \A k \in 1 .. Len(load) : SkeyUpper(k)
SkeyCount == \A k \in 1 .. Len(load) : SkeyLower(k)

\* What is between two steps of a few threads is finite, and counts as sets do.
LEMMA PickersCount ==
  ASSUME FewPickers, NEW S, NEW T, S \subseteq T, T \subseteq Pickers
  PROVE  /\ Cardinality(S) \in Nat /\ Cardinality(T) \in Nat
         /\ Cardinality(Pickers) \in Nat
         /\ Cardinality(S) <= Cardinality(T)
         /\ Cardinality(T) <= Cardinality(Pickers)
<1>1. IsFiniteSet(Pickers)
  BY DEF FewPickers
<1>2. IsFiniteSet(T) /\ Cardinality(T) <= Cardinality(Pickers)
  BY <1>1, FS_Subset
<1>3. IsFiniteSet(S) /\ Cardinality(S) <= Cardinality(T)
  BY <1>2, FS_Subset
<1> QED
  BY <1>1, <1>2, <1>3, FS_CardinalityType

\* One thread more.
LEMMA PickersAdd ==
  ASSUME FewPickers, NEW S, S \subseteq Pickers, NEW t \in Pickers, t \notin S
  PROVE  Cardinality(S \cup {t}) = Cardinality(S) + 1
<1>1. IsFiniteSet(S)
  BY FS_Subset DEF FewPickers
<1> QED
  BY <1>1, FS_AddElement

\* Two kinds of threads that have none in common.
LEMMA PickersApart ==
  ASSUME FewPickers, NEW S, NEW T, S \subseteq Pickers, T \subseteq Pickers, S \cap T = {}
  PROVE  Cardinality(S) + Cardinality(T) <= Cardinality(Pickers)
<1>1. IsFiniteSet(S) /\ IsFiniteSet(T) /\ IsFiniteSet(Pickers)
  BY FS_Subset DEF FewPickers
<1>2. Cardinality(S \cup T) = Cardinality(S) + Cardinality(T) - Cardinality(S \cap T)
  BY <1>1, FS_Union
<1>3. Cardinality(S \cap T) = 0
  BY FS_EmptySet
<1>4. Cardinality(S) \in Nat /\ Cardinality(T) \in Nat
  BY <1>1, FS_CardinalityType
<1>5. Cardinality(S \cup T) <= Cardinality(Pickers)
  BY PickersCount, S \cup T \subseteq Pickers
<1> QED
  BY <1>2, <1>3, <1>4, <1>5

\* Unsigned arithmetic that stays in range.
LEMMA WrapIn ==
  ASSUME NEW w \in Nat, NEW n \in Nat, n < w
  PROVE  /\ n % w = n
         /\ (n + w) % w = n
  OBVIOUS

\* What n threads take off.
LEMMA TimesMore ==
  ASSUME NEW c \in Nat, NEW n \in Nat
  PROVE  c * (n + 1) = c * n + c /\ c * n \in Nat
  OBVIOUS

LEMMA TimesLess ==
  ASSUME NEW c \in Nat, NEW n \in Nat, NEW m \in Nat, n <= m
  PROVE  c * n <= c * m
<1>1. PICK d \in Nat : m = n + d
  <2>1. m - n \in Nat
    OBVIOUS
  <2> QED
    BY <2>1
<1>2. c * (n + d) = c * n + c * d /\ c * d \in Nat /\ c * n \in Nat
  OBVIOUS
<1> QED
  BY <1>1, <1>2

\* The first entry of least load: there is one.
LEMMA LeastLoaded ==
  ASSUME NEW l \in Seq(Nat), Len(l) > 0
  PROVE  (CHOOSE k \in DOMAIN l : /\ \A j \in DOMAIN l : l[k] <= l[j]
                                  /\ \A j \in 1 .. k - 1 : l[k] < l[j]) \in 1 .. Len(l)
<1> DEFINE Values == {l[j] : j \in 1 .. Len(l)}
<1>1. DOMAIN l = 1 .. Len(l) /\ Len(l) \in Nat /\ \A j \in 1 .. Len(l) : l[j] \in Nat
  BY LenProperties, ElementOfSeq
<1>2. Values \in SUBSET Nat /\ Values # {}
  <2>1. 1 \in 1 .. Len(l)
    BY <1>1
  <2> QED
    BY <1>1, <2>1
<1>3. PICK m \in Values : \A y \in Values : m <= y
  <2> HIDE DEF Values
  <2> QED
    BY <1>2, LeastNat
<1> DEFINE Where == {j \in 1 .. Len(l) : l[j] = m}
<1>4. Where \in SUBSET Nat /\ Where # {}
  BY SMTT(30), <1>1, <1>3
<1>5. PICK k \in Where : \A y \in Where : k <= y
  <2> HIDE DEF Where
  <2> QED
    BY <1>4, LeastNat
<1>6. /\ k \in DOMAIN l
      /\ \A j \in DOMAIN l : l[k] <= l[j]
      /\ \A j \in 1 .. k - 1 : l[k] < l[j]
  <2>1. k \in 1 .. Len(l) /\ l[k] = m
    BY <1>5
  <2>2. \A j \in 1 .. Len(l) : m <= l[j]
    BY <1>3
  <2>3. ASSUME NEW j \in 1 .. k - 1 PROVE m < l[j]
    <3>1. j \in 1 .. Len(l) /\ j < k
      BY <2>1, <1>1
    <3>2. j \notin Where
      BY <3>1, <1>5, <1>1
    <3>3. l[j] # m /\ m <= l[j] /\ l[j] \in Nat /\ m \in Nat
      BY <3>1, <3>2, <2>1, <2>2, <1>1
    <3> QED
      BY <3>3
  <2> QED
    BY <1>1, <2>1, <2>2, <2>3
<1> QED
  BY <1>1, <1>6

-----------------------------------------------------------------------------
LEMMA DepthsTyped ==
  /\ Wrap \in Nat \ {0} /\ Threshold \in Nat \ {0} /\ FullDepth \in Nat
  /\ Threshold < FullDepth /\ FullDepth < Wrap /\ Threshold < Wrap
BY DepthAssumption

LEMMA Wrapped ==
  ASSUME NEW w \in Nat \ {0}, NEW a \in Int
  PROVE  a % w \in Nat
  OBVIOUS

LEMMA SkeyTypesInit ==
  ASSUME KInit PROVE SkeyTypes /\ CacheDistinct
<1>1. Order \in Seq(Nat) /\ Len(Order) \in Nat \ {0} /\ Order[1] \in Nat
  <2>1. Order \in Seq(Nat) /\ Order # << >>
    BY RingAssumption
  <2>2. Len(Order) \in Nat \ {0}
    BY <2>1, EmptySeq, LenProperties
  <2> QED
    BY <2>1, <2>2, ElementOfSeq
<1>2. idx \in Seq(Nat) /\ load \in Seq(Nat) /\ Len(idx) = 1 /\ Len(load) = 1
  BY <1>1 DEF KInit
<1>3. 1 % Len(Order) \in 0 .. Len(Order) - 1
  BY <1>1
<1>4. at \in 1 .. Len(Order)
  <2> DEFINE n == Len(Order)  r == 1 % Len(Order)
  <2>1. n \in Nat /\ r \in 0 .. n - 1 /\ at = r + 1
    BY <1>1, <1>3 DEF KInit
  <2> HIDE DEF n, r
  <2>2. at \in 1 .. n
    BY <2>1
  <2> QED
    BY <2>2 DEF n
<1>5. IsInjective(idx)
  BY <1>2 DEF IsInjective
<1>6. minIdx \in 1 .. Len(load) /\ hasSub \in BOOLEAN
  <2>1. minIdx = 1 /\ hasSub = FALSE
    BY DEF KInit
  <2>2. hasSub \in BOOLEAN
    BY <2>1
  <2>3. minIdx \in 1 .. Len(load)
    BY <2>1, <1>2
  <2> QED
    BY <2>2, <2>3
<1>7. pc \in [Pickers -> SkeyPoints] /\ \A t \in Pickers : pc[t] \notin Selects
  BY DEF KInit, SkeyPoints, Selects
<1>8. sel \in [Pickers -> Nat] /\ seen \in [Pickers -> Nat]
  BY DEF KInit
<1> QED
  BY <1>2, <1>4, <1>5, <1>6, <1>7, <1>8 DEF SkeyTypes, CacheDistinct

\* The control point of every thread but the one that moves stays.
LEMMA GotoStays ==
  ASSUME SkeyTypes, NEW t \in Pickers, NEW label, Goto(t, label)
  PROVE  /\ pc'[t] = label
         /\ \A u \in Pickers : u # t => pc'[u] = pc[u]
         /\ label \in SkeyPoints => pc' \in [Pickers -> SkeyPoints]
BY DEF SkeyTypes, Goto

LEMMA SkeyTypesStep ==
  ASSUME SkeyTypes, NEW t \in Pickers, Step(t)
  PROVE  SkeyTypes'
<1> USE DEF SkeyTypes
<1>d. Wrap \in Nat \ {0} /\ Threshold \in Nat /\ Threshold < Wrap
  BY DepthsTyped
<1>0. /\ DOMAIN load = 1 .. Len(load) /\ Len(load) \in Nat /\ Len(idx) \in Nat
      /\ \A k \in 1 .. Len(load) : load[k] \in Nat
  BY LenProperties, ElementOfSeq
<1>o. Len(Order) \in Nat \ {0} /\ \A k \in 1 .. Len(Order) : Order[k] \in Nat
  BY RingAssumption, EmptySeq, LenProperties, ElementOfSeq
<1>1. CASE PickScan(t)
  <2>1. sel'[t] \in 1 .. Len(load) /\ sel' \in [Pickers -> Nat]
        /\ \A u \in Pickers : u # t => sel'[u] = sel[u]
    <3>1. Len(load) > 0
      BY <1>0
    <3>2. PICK k \in 1 .. Len(load) : sel' = [sel EXCEPT ![t] = k]
      BY <3>1, LeastLoaded, <1>1 DEF PickScan
    <3> QED
      BY <3>2, <1>0
  <2>2. /\ pc'[t] = "store" /\ pc' \in [Pickers -> SkeyPoints]
        /\ \A u \in Pickers : u # t => pc'[u] = pc[u]
    BY <1>1, GotoStays DEF PickScan, SkeyPoints
  <2> QED
    BY <2>1, <2>2, <1>1 DEF PickScan
<1>2. CASE PickStore(t)
  <2>2. /\ pc'[t] = "select" /\ pc' \in [Pickers -> SkeyPoints]
        /\ \A u \in Pickers : u # t => pc'[u] = pc[u]
    BY <1>2, GotoStays DEF PickStore, SkeyPoints
  <2> QED
    BY <2>2, <1>2 DEF PickStore, Selects
<1>3. CASE PickCached(t)
  <2>2. /\ pc'[t] = "select" /\ pc' \in [Pickers -> SkeyPoints]
        /\ \A u \in Pickers : u # t => pc'[u] = pc[u]
    BY <1>3, GotoStays DEF PickCached, SkeyPoints
  <2> QED
    BY <2>2, <1>3 DEF PickCached, Selects
<1>4. CASE PickSelect(t)
  <2>2. /\ pc'[t] = "check" /\ pc' \in [Pickers -> SkeyPoints]
        /\ \A u \in Pickers : u # t => pc'[u] = pc[u]
    BY <1>4, GotoStays DEF PickSelect, SkeyPoints
  <2> QED
    BY SMTT(30), <2>2, <1>4, <1>0 DEF PickSelect, cacheVars
<1>5. CASE CheckRoom(t)
  <2>1. seen' \in [Pickers -> Nat]
    BY <1>5, <1>0 DEF CheckRoom, Selects
  <2>2. /\ pc'[t] = "add" /\ pc' \in [Pickers -> SkeyPoints]
        /\ \A u \in Pickers : u # t => pc'[u] = pc[u]
    BY <1>5, GotoStays DEF CheckRoom, SkeyPoints
  <2> QED
    BY <2>1, <2>2, <1>5 DEF CheckRoom, cacheVars, Selects
<1>6. CASE CheckNoRoom(t)
  <2>2. /\ pc'[t] = "mode" /\ pc' \in [Pickers -> SkeyPoints]
        /\ \A u \in Pickers : u # t => pc'[u] = pc[u]
    BY <1>6, GotoStays DEF CheckNoRoom, SkeyPoints
  <2> QED
    BY <2>2, <1>6 DEF CheckNoRoom, cacheVars, Selects
<1>7. CASE ModeFull(t)
  <2>2. /\ pc'[t] = "full" /\ pc' \in [Pickers -> SkeyPoints]
        /\ \A u \in Pickers : u # t => pc'[u] = pc[u]
    BY <1>7, GotoStays DEF ModeFull, SkeyPoints
  <2> QED
    BY <2>2, <1>7 DEF ModeFull, cacheVars, Selects
<1>8. CASE ModeReduce(t)
  <2>2. /\ pc'[t] = "reduce" /\ pc' \in [Pickers -> SkeyPoints]
        /\ \A u \in Pickers : u # t => pc'[u] = pc[u]
    BY <1>8, GotoStays DEF ModeReduce, SkeyPoints
  <2> QED
    BY <2>2, <1>8 DEF ModeReduce, cacheVars, Selects
<1>9. CASE Reduce(t)
  <2>1. load' \in Seq(Nat) /\ Len(load') = Len(load)
    <3>1. PICK k \in 1 .. Len(load) : k = sel[t]
      BY <1>9 DEF Reduce, Selects
    <3>2. PICK n \in Nat : n = (load[k] + Wrap - Threshold) % Wrap
      <4>1. PICK a \in Nat : a = load[k]
        BY <1>0, <3>1
      <4>2. PICK d \in Int : d = a + Wrap - Threshold
        BY <1>d
      <4>3. d % Wrap \in Nat
        BY <1>d, Wrapped, Zenon
      <4> QED
        BY <4>1, <4>2, <4>3
    <3>3. load' = [load EXCEPT ![k] = n]
      BY <1>9, <3>1, <3>2 DEF Reduce
    <3> QED
      BY <3>3, <3>1, ExceptSeq
  <2>2. /\ pc'[t] = "mark" /\ pc' \in [Pickers -> SkeyPoints]
        /\ \A u \in Pickers : u # t => pc'[u] = pc[u]
    BY <1>9, GotoStays DEF Reduce, SkeyPoints
  <2> QED
    BY <2>1, <2>2, <1>9 DEF Reduce, Selects
<1>10. CASE Mark(t)
  <2>2. /\ pc'[t] = "using" /\ pc' \in [Pickers -> SkeyPoints]
        /\ \A u \in Pickers : u # t => pc'[u] = pc[u]
    BY <1>10, GotoStays DEF Mark, SkeyPoints
  <2> QED
    BY <2>2, <1>10 DEF Mark, Selects
<1>11. CASE CountLoad(t)
  <2>1. load' \in Seq(Nat) /\ Len(load') = Len(load)
    <3>1. PICK k \in 1 .. Len(load) : k = sel[t]
      BY <1>11 DEF CountLoad, Selects
    <3>2. PICK n \in Nat : n = (load[k] + 1) % Wrap
      <4>1. PICK a \in Nat : a = load[k]
        BY <1>0, <3>1
      <4>2. PICK d \in Int : d = a + 1
        BY <1>d
      <4>3. d % Wrap \in Nat
        BY <1>d, Wrapped, Zenon
      <4> QED
        BY <4>1, <4>2, <4>3
    <3>3. load' = [load EXCEPT ![k] = n]
      BY <1>11, <3>1, <3>2 DEF CountLoad
    <3> QED
      BY <3>3, <3>1, ExceptSeq
  <2>2. /\ pc'[t] \in {"next", "using"} /\ pc' \in [Pickers -> SkeyPoints]
        /\ \A u \in Pickers : u # t => pc'[u] = pc[u]
    BY <1>11 DEF CountLoad, SkeyPoints, Goto
  <2> QED
    BY <2>1, <2>2, <1>11 DEF CountLoad, Selects
<1>12. CASE NextOfDomain(t)
  <2>1. seen' \in [Pickers -> Nat]
    BY <1>12, <1>o DEF NextOfDomain
  <2>2. /\ pc'[t] = "grow" /\ pc' \in [Pickers -> SkeyPoints]
        /\ \A u \in Pickers : u # t => pc'[u] = pc[u]
    BY <1>12, GotoStays DEF NextOfDomain, SkeyPoints
  <2>3. at' \in 1 .. Len(Order)
    <3> DEFINE n == Len(Order)
    <3>1. n \in Nat \ {0} /\ at \in Nat /\ at' = (at % n) + 1
      BY <1>12, <1>o DEF NextOfDomain
    <3> HIDE DEF n
    <3>2. at' \in 1 .. n
      BY <3>1
    <3> QED
      BY <3>2 DEF n
  <2> QED
    BY <2>1, <2>2, <2>3, <1>12 DEF NextOfDomain, Selects
<1>13. CASE AddCtx(t)
  <2>1. /\ idx' = Append(idx, seen[t]) /\ load' = Append(load, 0)
        /\ seen[t] \in Nat
    BY <1>13 DEF AddCtx
  <2>3. /\ idx' \in Seq(Nat) /\ Len(idx') = Len(idx) + 1
        /\ load' \in Seq(Nat) /\ Len(load') = Len(load) + 1
    <3>1. idx \in Seq(Nat) /\ load \in Seq(Nat) /\ 0 \in Nat
      OBVIOUS
    <3> QED
      BY ZenonT(60), <3>1, <2>1, AppendProperties
  <2>2. /\ pc'[t] = "using" /\ pc' \in [Pickers -> SkeyPoints]
        /\ \A u \in Pickers : u # t => pc'[u] = pc[u]
    BY <1>13, GotoStays DEF AddCtx, SkeyPoints
  <2>4. minIdx' = Len(load) + 1
    BY <1>13 DEF AddCtx
  <2>5. minIdx' \in 1 .. Len(load')
    BY <2>3, <2>4, <1>0
  <2>6. \A u \in Pickers : pc'[u] \in Selects => sel'[u] \in 1 .. Len(load')
    <3>1. \A u \in Pickers : pc'[u] \in Selects => sel'[u] \in 1 .. Len(load)
      BY <2>2, <1>13 DEF AddCtx, Selects
    <3>2. \A k \in 1 .. Len(load) : k \in 1 .. Len(load')
      BY <2>3, <1>0
    <3> QED
      BY <3>1, <3>2
  <2> QED
    BY <2>2, <2>3, <2>5, <2>6, <1>13 DEF AddCtx
<1>14. CASE AddRefused(t)
  <2>2. /\ pc'[t] = "using" /\ pc' \in [Pickers -> SkeyPoints]
        /\ \A u \in Pickers : u # t => pc'[u] = pc[u]
    BY <1>14, GotoStays DEF AddRefused, SkeyPoints
  <2> QED
    BY <2>2, <1>14 DEF AddRefused, cacheVars, Selects
<1>15. CASE Finish(t)
  <2>2. /\ pc'[t] = "idle" /\ pc' \in [Pickers -> SkeyPoints]
        /\ \A u \in Pickers : u # t => pc'[u] = pc[u]
    BY <1>15, GotoStays DEF Finish, SkeyPoints
  <2> QED
    BY <2>2, <1>15 DEF Finish, cacheVars, Selects
<1> QED
  BY <1>1, <1>2, <1>3, <1>4, <1>5, <1>6, <1>7, <1>8, <1>9, <1>10, <1>11,
     <1>12, <1>13,
     <1>14, <1>15 DEF Step

-----------------------------------------------------------------------------
\* The entry a thread is about to take the threshold off has that much.
LEMMA ReducerHas ==
  ASSUME FewPickers, SkeyTypes, SkeyCount, NEW t \in Pickers, pc[t] = "reduce"
  PROVE  load[sel[t]] >= Threshold
<1>1. PICK s \in 1 .. Len(load) : s = sel[t]
  BY DEF SkeyTypes, Selects
<1>2. PICK n \in Nat : n = load[s]
  BY <1>1, ElementOfSeq DEF SkeyTypes
<1> DEFINE p == Cardinality(Pickers)  r == Cardinality(Reducers(s))  m == Cardinality(Markers)
<1>3. p \in Nat /\ r \in Nat /\ m \in Nat
  <2>1. Reducers(s) \subseteq Pickers /\ Markers \subseteq Pickers
    BY DEF Reducers, Markers
  <2> QED
    BY <2>1, PickersCount
<1>4. 1 <= r
  <2>1. {t} \subseteq Reducers(s) /\ Reducers(s) \subseteq Pickers
    BY <1>1 DEF Reducers
  <2>2. Cardinality({t}) = 1
    BY FS_Singleton
  <2> QED
    BY <2>1, <2>2, PickersCount
<1>5. m + 1 <= p
  <2>1. t \notin Markers /\ Markers \subseteq Pickers
    BY DEF Markers
  <2>2. Cardinality(Markers \cup {t}) = m + 1
    BY <2>1, PickersAdd
  <2>3. Markers \cup {t} \subseteq Pickers
    BY <2>1
  <2>4. Cardinality(Markers \cup {t}) <= p
    BY <2>3, PickersCount
  <2> QED
    BY <2>2, <2>4
<1>6. Threshold \in Nat /\ FullDepth \in Nat /\ Threshold * p <= FullDepth
  BY DepthsTyped DEF FewPickers
<1>7. hasSub => n >= Threshold * r
  BY <1>1, <1>2 DEF SkeyCount, SkeyLower
<1>8. ~hasSub => n + Threshold * m >= FullDepth
  BY <1>1, <1>2 DEF SkeyCount, SkeyLower, Reducing
<1> HIDE DEF p, r, m
<1>9. Threshold * 1 <= Threshold * r /\ Threshold * (m + 1) <= Threshold * p
  BY <1>3, <1>4, <1>5, <1>6, TimesLess
<1>10. Threshold * (m + 1) = Threshold * m + Threshold
       /\ Threshold * m \in Nat /\ Threshold * r \in Nat /\ Threshold * p \in Nat
       /\ Threshold * 1 = Threshold
  BY <1>3, <1>6, TimesMore
<1> DEFINE tm == Threshold * m  tr == Threshold * r  tp == Threshold * p
           tm1 == Threshold * (m + 1)
<1>11. /\ tm \in Nat /\ tr \in Nat /\ tp \in Nat /\ tm1 = tm + Threshold
       /\ Threshold <= tr /\ tm1 <= tp /\ tp <= FullDepth
       /\ (hasSub => n >= tr) /\ (~hasSub => n + tm >= FullDepth)
  BY <1>6, <1>7, <1>8, <1>9, <1>10
<1> HIDE DEF tm, tr, tp, tm1
<1>12. CASE hasSub
  BY <1>12, <1>11, <1>6, <1>1, <1>2
<1>13. CASE ~hasSub
  BY <1>13, <1>11, <1>6, <1>1, <1>2
<1> QED
  BY <1>12, <1>13

\* So taking it off does not wrap.
LEMMA ReduceInRange ==
  ASSUME FewPickers, SkeyTypes, SkeyLoads, SkeyCount, NEW t \in Pickers, Reduce(t)
  PROVE  load' = [load EXCEPT ![sel[t]] = load[sel[t]] - Threshold]
<1>1. PICK s \in 1 .. Len(load) : s = sel[t]
  BY DEF SkeyTypes, Selects, Reduce
<1>2. PICK n \in Nat : n = load[s]
  BY <1>1, ElementOfSeq DEF SkeyTypes
<1>3. n >= Threshold
  BY <1>1, <1>2, ReducerHas DEF Reduce
<1> DEFINE p == Cardinality(Pickers)  a == Cardinality(Adders(s))
<1>4. p \in Nat /\ a \in Nat
  <2>1. Adders(s) \subseteq Pickers
    BY DEF Adders
  <2> QED
    BY <2>1, PickersCount
<1>5. n + a <= FullDepth - 1 + p /\ FullDepth + p <= Wrap
  BY <1>1, <1>2 DEF SkeyLoads, SkeyUpper, FewPickers
<1>6. Threshold \in Nat /\ FullDepth \in Nat /\ Wrap \in Nat
  BY DepthsTyped
<1> HIDE DEF p, a
<1>7. PICK d \in Nat : d = n - Threshold /\ d < Wrap
  <2>1. n - Threshold \in Nat /\ n - Threshold < Wrap
    BY <1>3, <1>4, <1>5, <1>6
  <2> QED
    BY <2>1
<1>8. (d + Wrap) % Wrap = d
  BY <1>6, <1>7, WrapIn
<1>9. n + Wrap - Threshold = d + Wrap
  BY <1>6, <1>7
<1>10. load' = [load EXCEPT ![s] = (load[s] + Wrap - Threshold) % Wrap]
  BY <1>1 DEF Reduce
<1> QED
  BY <1>1, <1>2, <1>7, <1>8, <1>9, <1>10

-----------------------------------------------------------------------------
\* Only AddCtx adds a context, one that is not there.
LEMMA SkeyDistinctStep ==
  ASSUME SkeyTypes, CacheDistinct, NEW t \in Pickers, Step(t)
  PROVE  CacheDistinct'
<1>1. CASE AddCtx(t)
  <2>1. PICK c \in Nat : c = seen[t]
    BY DEF SkeyTypes
  <2>2. idx' = Append(idx, c) /\ c \notin Range(idx) /\ idx \in Seq(Nat)
    BY <1>1, <2>1 DEF AddCtx, SkeyTypes
  <2>3. /\ DOMAIN idx' = 1 .. Len(idx) + 1 /\ idx'[Len(idx) + 1] = c
        /\ \A i \in 1 .. Len(idx) : idx'[i] = idx[i]
    <3>1. Append(idx, c) \in Seq(Nat) /\ Len(Append(idx, c)) = Len(idx) + 1
          /\ Append(idx, c)[Len(idx) + 1] = c
          /\ \A i \in 1 .. Len(idx) : Append(idx, c)[i] = idx[i]
      BY <2>2, AppendProperties
    <3> QED
      BY <3>1, <2>2, LenProperties
  <2>4. DOMAIN idx = 1 .. Len(idx) /\ Len(idx) \in Nat
    BY <2>2, LenProperties
  <2>5. \A i \in 1 .. Len(idx) : idx[i] # c
    BY <2>2, <2>4 DEF Range
  <2>6. \A i, j \in 1 .. Len(idx) : idx[i] = idx[j] => i = j
    BY <2>4 DEF CacheDistinct, IsInjective
  <2>7. ASSUME NEW i \in 1 .. Len(idx) + 1, NEW j \in 1 .. Len(idx) + 1, idx'[i] = idx'[j]
        PROVE  i = j
    <3>1. CASE i \in 1 .. Len(idx) /\ j \in 1 .. Len(idx)
      BY <3>1, <2>3, <2>6, <2>7
    <3>2. CASE i = Len(idx) + 1 /\ j \in 1 .. Len(idx)
      BY <3>2, <2>3, <2>5, <2>7
    <3>3. CASE j = Len(idx) + 1 /\ i \in 1 .. Len(idx)
      BY <3>3, <2>3, <2>5, <2>7
    <3> QED
      BY <3>1, <3>2, <3>3, <2>4
  <2> QED
    BY <2>3, <2>7 DEF CacheDistinct, IsInjective
<1>2. CASE ~AddCtx(t)
  <2>1. idx' = idx
    BY <1>2 DEF Step, PickScan, PickStore, PickCached, PickSelect,
       CheckRoom, CheckNoRoom,
       ModeFull, ModeReduce, Reduce, Mark, CountLoad, NextOfDomain, AddRefused, Finish,
       cacheVars
  <2> QED
    BY <2>1 DEF CacheDistinct
<1> QED
  BY <1>1, <1>2

-----------------------------------------------------------------------------
\* Loads that do not grow stay bounded as long as no thread is about to count.
LEMMA UpperFrame ==
  ASSUME FewPickers, SkeyTypes, SkeyTypes', SkeyLoads,
         Len(load') = Len(load),
         \A k \in 1 .. Len(load) : load'[k] <= load[k],
         \A k \in 1 .. Len(load) : Adders(k)' \subseteq Adders(k)
  PROVE  SkeyLoads'
<1> SUFFICES ASSUME NEW k \in 1 .. Len(load) PROVE SkeyUpper(k)'
  BY DEF SkeyLoads
<1> DEFINE a == Cardinality(Adders(k))  b == Cardinality(Adders(k)')  p == Cardinality(Pickers)
<1>1. Adders(k) \subseteq Pickers /\ Adders(k)' \subseteq Adders(k)
  BY DEF Adders
<1>2. a \in Nat /\ b \in Nat /\ p \in Nat /\ b <= a
  BY <1>1, PickersCount
<1>3. load[k] \in Nat /\ load'[k] \in Nat /\ load'[k] <= load[k]
  BY ElementOfSeq DEF SkeyTypes
<1>4. load[k] + a <= FullDepth - 1 + p
  BY DEF SkeyLoads, SkeyUpper
<1>5. FullDepth \in Nat
  BY DepthsTyped
<1> HIDE DEF a, b, p
<1>6. load'[k] + b <= FullDepth - 1 + p
  BY <1>2, <1>3, <1>4, <1>5
<1> QED
  BY <1>6 DEF SkeyUpper, b, p

LEMMA SkeyLoadsStep ==
  ASSUME FewPickers, SkeyTypes, SkeyTypes', SkeyLoads, SkeyCount, NEW t \in Pickers, Step(t)
  PROVE  SkeyLoads'
<1>0. /\ DOMAIN load = 1 .. Len(load) /\ Len(load) \in Nat
      /\ \A k \in 1 .. Len(load) : load[k] \in Nat
  BY LenProperties, ElementOfSeq DEF SkeyTypes
<1>1. CASE CheckRoom(t)
  <2>1. load' = load /\ sel' = sel /\ load[sel[t]] < FullDepth /\ pc'[t] = "add"
        /\ sel[t] \in 1 .. Len(load)
    BY <1>1, GotoStays DEF CheckRoom, cacheVars, SkeyTypes, Selects
  <2>2. \A u \in Pickers : u # t => pc'[u] = pc[u]
    BY <1>1, GotoStays DEF CheckRoom
  <2> SUFFICES ASSUME NEW k \in 1 .. Len(load) PROVE SkeyUpper(k)'
    BY <2>1 DEF SkeyLoads
  <2>3. CASE k = sel[t]
    <3> DEFINE b == Cardinality(Adders(k)')  p == Cardinality(Pickers)
    <3>1. b \in Nat /\ p \in Nat /\ b <= p
      <4>1. Adders(k)' \subseteq Pickers
        BY DEF Adders
      <4> QED
        BY <4>1, PickersCount
    <3>2. load'[k] \in Nat /\ load'[k] < FullDepth /\ FullDepth \in Nat
      BY <2>1, <2>3, <1>0, DepthsTyped
    <3> HIDE DEF b, p
    <3>3. load'[k] + b <= FullDepth - 1 + p
      BY <3>1, <3>2
    <3> QED
      BY <3>3 DEF SkeyUpper, b, p
  <2>4. CASE k # sel[t]
    <3>1. Adders(k)' = Adders(k)
      BY <2>1, <2>2, <2>4 DEF Adders
    <3>2. SkeyUpper(k)
      BY DEF SkeyLoads
    <3> QED
      BY <2>1, <3>1, <3>2 DEF SkeyUpper
  <2> QED
    BY <2>3, <2>4
<1>2. CASE CountLoad(t)
  <2>1. PICK s \in 1 .. Len(load) : s = sel[t]
    BY <1>2 DEF CountLoad, SkeyTypes, Selects
  <2>2. /\ load' = [load EXCEPT ![s] = (load[s] + 1) % Wrap]
        /\ sel' = sel /\ pc[t] = "add" /\ pc'[t] # "add"
        /\ \A u \in Pickers : u # t => pc'[u] = pc[u]
    BY <1>2, <2>1 DEF CountLoad, Goto, SkeyTypes
  <2>3. Len(load') = Len(load)
    BY <2>2, <1>0, LenProperties DEF SkeyTypes
  <2> SUFFICES ASSUME NEW k \in 1 .. Len(load) PROVE SkeyUpper(k)'
    BY <2>3 DEF SkeyLoads
  <2>4. CASE k = s
    <3> DEFINE S == Adders(k)'  b == Cardinality(S)  p == Cardinality(Pickers)
               a == Cardinality(Adders(k))
    <3>1. Adders(k) = S \cup {t} /\ t \notin S /\ S \subseteq Pickers
      BY <2>1, <2>2, <2>4 DEF Adders
    <3>2. b \in Nat /\ p \in Nat
      BY <3>1, PickersCount
    <3>3. a = b + 1
      <4> HIDE DEF S
      <4> QED
        BY <3>1, PickersAdd
    <3>4. PICK n \in Nat : n = load[k]
      BY <1>0
    <3>5. n + a <= FullDepth - 1 + p
      BY <3>4 DEF SkeyLoads, SkeyUpper
    <3>6. FullDepth + p <= Wrap /\ FullDepth \in Nat /\ Wrap \in Nat
      BY DepthsTyped DEF FewPickers
    <3>9. load'[k] = (n + 1) % Wrap
      BY <2>2, <2>4, <1>0, <3>4
    <3> HIDE DEF S, a, b, p
    <3>7. n + 1 \in Nat /\ n + 1 < Wrap
      BY <3>2, <3>3, <3>5, <3>6
    <3>8. (n + 1) % Wrap = n + 1
      BY <3>6, <3>7
    <3>10. load'[k] + b <= FullDepth - 1 + p
      BY <3>2, <3>3, <3>5, <3>6, <3>8, <3>9
    <3> QED
      BY <3>10 DEF SkeyUpper, b, p, S
  <2>5. CASE k # s
    <3>1. Adders(k)' = Adders(k)
      BY <2>1, <2>2, <2>5 DEF Adders
    <3>2. SkeyUpper(k)
      BY DEF SkeyLoads
    <3>3. load'[k] = load[k]
      BY <2>2, <2>5, <1>0
    <3> QED
      BY <3>1, <3>2, <3>3 DEF SkeyUpper
  <2> QED
    BY <2>4, <2>5
<1>3. CASE Reduce(t)
  <2>1. PICK s \in 1 .. Len(load) : s = sel[t]
    BY <1>3 DEF Reduce, SkeyTypes, Selects
  <2>2. load' = [load EXCEPT ![s] = load[s] - Threshold]
    BY <1>3, <2>1, ReduceInRange
  <2>3. Len(load') = Len(load)
    BY <2>2, <1>0, LenProperties DEF SkeyTypes
  <2>4. ASSUME NEW k \in 1 .. Len(load) PROVE load'[k] <= load[k]
    <3>1. load[k] \in Nat /\ Threshold \in Nat
      BY <1>0, DepthsTyped
    <3>2. load'[k] = IF k = s THEN load[s] - Threshold ELSE load[k]
      BY <2>2, <1>0
    <3> QED
      BY <3>1, <3>2
  <2>5. \A u \in Pickers : (pc'[u] = "add" => pc[u] = "add") /\ sel'[u] = sel[u]
    BY <1>3 DEF Reduce, Goto, SkeyTypes
  <2>6. \A k \in 1 .. Len(load) : Adders(k)' \subseteq Adders(k)
    BY <2>5 DEF Adders
  <2> QED
    BY <2>3, <2>4, <2>6, UpperFrame
<1>4. CASE AddCtx(t)
  <2>1. load' = Append(load, 0) /\ load \in Seq(Nat)
    BY <1>4 DEF AddCtx, SkeyTypes
  <2>2. /\ Len(load') = Len(load) + 1 /\ load'[Len(load) + 1] = 0
        /\ \A k \in 1 .. Len(load) : load'[k] = load[k]
    <3>1. 0 \in Nat
      OBVIOUS
    <3> QED
      BY <2>1, <3>1, AppendProperties
  <2>3. \A u \in Pickers : (pc'[u] = "add" => pc[u] = "add") /\ sel'[u] = sel[u]
    BY <1>4 DEF AddCtx, Goto, SkeyTypes
  <2> SUFFICES ASSUME NEW k \in 1 .. Len(load) + 1 PROVE SkeyUpper(k)'
    BY <2>2 DEF SkeyLoads
  <2> DEFINE a == Cardinality(Adders(k))  b == Cardinality(Adders(k)')
             p == Cardinality(Pickers)
  <2>4. Adders(k)' \subseteq Adders(k) /\ Adders(k) \subseteq Pickers
    BY <2>3 DEF Adders
  <2>5. a \in Nat /\ b \in Nat /\ p \in Nat /\ b <= a /\ a <= p
    BY <2>4, PickersCount
  <2>6. FullDepth \in Nat \ {0}
    BY DepthsTyped
  <2>7. CASE k \in 1 .. Len(load)
    <3>1. load[k] + a <= FullDepth - 1 + p
      BY <2>7 DEF SkeyLoads, SkeyUpper
    <3>2. load'[k] = load[k] /\ load[k] \in Nat
      BY <2>7, <2>2, <1>0
    <3> HIDE DEF a, b, p
    <3>3. load'[k] + b <= FullDepth - 1 + p
      BY <3>1, <3>2, <2>5, <2>6
    <3> QED
      BY <3>3 DEF SkeyUpper, b, p
  <2>8. CASE k = Len(load) + 1
    <3>2. load'[k] = 0
      BY <2>8, <2>2
    <3> HIDE DEF a, b, p
    <3>3. load'[k] + b <= FullDepth - 1 + p
      BY <3>2, <2>5, <2>6
    <3> QED
      BY <3>3 DEF SkeyUpper, b, p
  <2> QED
    BY <2>7, <2>8, <1>0
<1>5. CASE ~CheckRoom(t) /\ ~CountLoad(t) /\ ~Reduce(t) /\ ~AddCtx(t)
  <2>1. load' = load
    BY <1>5 DEF Step, PickScan, PickStore, PickCached, PickSelect,
       CheckNoRoom,
       ModeFull, ModeReduce, Mark, NextOfDomain, AddRefused, Finish, cacheVars
  <2>2. \A u \in Pickers : pc'[u] = "add" => pc[u] = "add" /\ sel'[u] = sel[u]
    <3>1. /\ pc'[t] # "add"
          /\ \A u \in Pickers : u # t => pc'[u] = pc[u]
      BY <1>5 DEF Step, PickScan, PickStore, PickCached, PickSelect,
         CheckNoRoom,
         ModeFull, ModeReduce, Mark, NextOfDomain, AddRefused, Finish, Goto, SkeyTypes
    <3>2. \A u \in Pickers : u # t => sel'[u] = sel[u]
      BY <1>5 DEF Step, PickScan, PickStore, PickCached, PickSelect,
         CheckNoRoom,
         ModeFull, ModeReduce, Mark, NextOfDomain, AddRefused, Finish, SkeyTypes
    <3> QED
      BY <3>1, <3>2
  <2>3. \A k \in 1 .. Len(load) : Adders(k)' \subseteq Adders(k)
    BY <2>2 DEF Adders
  <2>4. \A k \in 1 .. Len(load) : load'[k] <= load[k]
    BY <2>1, <1>0
  <2> QED
    BY <2>1, <2>3, <2>4, UpperFrame
<1> QED
  BY <1>1, <1>2, <1>3, <1>4, <1>5

-----------------------------------------------------------------------------
\* Loads that do not shrink keep what the reducers take off, as long as no thread
\* newly finds an entry full and none that reduced it goes on.
LEMMA LowerFrame ==
  ASSUME FewPickers, SkeyTypes, SkeyTypes', SkeyCount, NEW k \in 1 .. Len(load),
         load[k] <= load'[k], hasSub' = hasSub, Markers \subseteq Markers',
         Reducing(k)' => Reducing(k),
         hasSub => Reducers(k)' \subseteq Reducers(k), load'[k] \in Nat
  PROVE  SkeyLower(k)'
<1> DEFINE m == Cardinality(Markers)  mm == Cardinality(Markers')
           r == Cardinality(Reducers(k))  rr == Cardinality(Reducers(k)')
<1>1. load[k] \in Nat /\ Threshold \in Nat /\ FullDepth \in Nat
  BY ElementOfSeq, DepthsTyped DEF SkeyTypes
<1>2. ASSUME ~hasSub', Reducing(k)' PROVE load'[k] + Threshold * mm >= FullDepth
  <2>1. load[k] + Threshold * m >= FullDepth
    BY <1>2 DEF SkeyCount, SkeyLower
  <2>2. m \in Nat /\ mm \in Nat /\ m <= mm
    <3>1. Markers' \subseteq Pickers
      BY DEF Markers
    <3> QED
      BY <3>1, PickersCount
  <2> HIDE DEF m, mm
  <2>3. Threshold * m <= Threshold * mm /\ Threshold * m \in Nat /\ Threshold * mm \in Nat
    BY <2>2, <1>1, TimesLess, TimesMore
  <2> DEFINE x == Threshold * m  y == Threshold * mm
  <2>4. x \in Nat /\ y \in Nat /\ x <= y /\ load[k] + x >= FullDepth
    BY <2>1, <2>3
  <2> HIDE DEF x, y
  <2>5. load'[k] + y >= FullDepth
    BY <2>4, <1>1
  <2> QED
    BY <2>5 DEF y
<1>3. ASSUME hasSub' PROVE load'[k] >= Threshold * rr
  <2>1. load[k] >= Threshold * r
    BY <1>3 DEF SkeyCount, SkeyLower
  <2>2. r \in Nat /\ rr \in Nat /\ rr <= r
    <3>1. Reducers(k) \subseteq Pickers /\ Reducers(k)' \subseteq Reducers(k)
      BY <1>3 DEF Reducers
    <3> QED
      BY <3>1, PickersCount
  <2> HIDE DEF r, rr
  <2>3. Threshold * rr <= Threshold * r /\ Threshold * r \in Nat /\ Threshold * rr \in Nat
    BY <2>2, <1>1, TimesLess, TimesMore
  <2> DEFINE x == Threshold * r  y == Threshold * rr
  <2>4. x \in Nat /\ y \in Nat /\ y <= x /\ load[k] >= x
    BY <2>1, <2>3
  <2> HIDE DEF x, y
  <2>5. load'[k] >= y
    BY <2>4, <1>1
  <2> QED
    BY <2>5 DEF y
<1> QED
  BY <1>2, <1>3 DEF SkeyLower

LEMMA SkeyCountStep ==
  ASSUME FewPickers, SkeyTypes, SkeyTypes', SkeyLoads, SkeyLoads', SkeyCount,
         NEW t \in Pickers, Step(t)
  PROVE  SkeyCount'
<1>0. /\ DOMAIN load = 1 .. Len(load) /\ Len(load) \in Nat
      /\ \A k \in 1 .. Len(load) : load[k] \in Nat
      /\ \A k \in 1 .. Len(load') : load'[k] \in Nat
  BY LenProperties, ElementOfSeq DEF SkeyTypes
<1>t. Threshold \in Nat /\ FullDepth \in Nat /\ Wrap \in Nat
  BY DepthsTyped
<1>1. CASE CheckNoRoom(t)
  <2>1. /\ load' = load /\ sel' = sel /\ hasSub' = hasSub /\ pc'[t] = "mode"
        /\ pc[t] = "check" /\ load[sel[t]] >= FullDepth /\ sel[t] \in 1 .. Len(load)
    BY <1>1, GotoStays DEF CheckNoRoom, cacheVars, SkeyTypes, Selects
  <2>2. \A u \in Pickers : u # t => pc'[u] = pc[u]
    BY <1>1, GotoStays DEF CheckNoRoom
  <2> SUFFICES ASSUME NEW k \in 1 .. Len(load) PROVE SkeyLower(k)'
    BY <2>1 DEF SkeyCount
  <2>3. Markers' = Markers /\ Reducers(k)' = Reducers(k)
    BY <2>1, <2>2 DEF Markers, Reducers
  <2>4. CASE k = sel[t]
    <3> DEFINE m == Cardinality(Markers')
    <3>1. m \in Nat
      <4>1. Markers' \subseteq Pickers
        BY DEF Markers
      <4> QED
        BY <4>1, PickersCount
    <3>2. load'[k] \in Nat /\ load'[k] >= FullDepth
      BY <2>1, <2>4, <1>0
    <3> HIDE DEF m
    <3>3. Threshold * m \in Nat
      BY <3>1, <1>t, TimesMore
    <3>4. load'[k] + Threshold * m >= FullDepth
      <4> DEFINE x == Threshold * m
      <4>1. x \in Nat
        BY <3>3
      <4> HIDE DEF x
      <4>2. load'[k] + x >= FullDepth
        BY <4>1, <3>2, <1>t
      <4> QED
        BY <4>2 DEF x
    <3>5. hasSub' => load'[k] >= Threshold * Cardinality(Reducers(k)')
      <4>1. hasSub => load[k] >= Threshold * Cardinality(Reducers(k))
        BY DEF SkeyCount, SkeyLower
      <4> QED
        BY <4>1, <2>1, <2>3
    <3> QED
      BY <3>4, <3>5 DEF SkeyLower, m
  <2>5. CASE k # sel[t]
    <3>1. Reducing(k)' => Reducing(k)
      BY <2>1, <2>2, <2>5 DEF Reducing
    <3>2. load[k] <= load'[k] /\ load'[k] \in Nat
      BY <2>1, <1>0
    <3> QED
      BY <2>1, <2>3, <3>1, <3>2, LowerFrame
  <2> QED
    BY <2>4, <2>5
<1>2. CASE Reduce(t)
  <2>1. PICK s \in 1 .. Len(load) : s = sel[t]
    BY <1>2 DEF Reduce, SkeyTypes, Selects
  <2>2. load' = [load EXCEPT ![s] = load[s] - Threshold]
    BY <1>2, <2>1, ReduceInRange
  <2>3. Len(load') = Len(load)
    BY <2>2, <1>0, LenProperties DEF SkeyTypes
  <2>4. /\ sel' = sel /\ hasSub' = hasSub /\ pc[t] = "reduce" /\ pc'[t] = "mark"
        /\ \A u \in Pickers : u # t => pc'[u] = pc[u]
    BY <1>2, GotoStays DEF Reduce
  <2>5. Markers' = Markers \cup {t} /\ t \notin Markers
    BY <2>4 DEF Markers
  <2> SUFFICES ASSUME NEW k \in 1 .. Len(load) PROVE SkeyLower(k)'
    BY <2>3 DEF SkeyCount
  <2>6. CASE k = s
    <3> DEFINE m == Cardinality(Markers)  mm == Cardinality(Markers')
               r == Cardinality(Reducers(k))  rr == Cardinality(Reducers(k)')
    <3>1. PICK n \in Nat : n = load[k] /\ load'[k] = n - Threshold
      BY <2>2, <2>6, <1>0
    <3>2. m \in Nat /\ r \in Nat /\ rr \in Nat
      <4>1. Markers \subseteq Pickers /\ Reducers(k) \subseteq Pickers
            /\ Reducers(k)' \subseteq Pickers
        BY DEF Markers, Reducers
      <4> QED
        BY <4>1, PickersCount
    <3>3. mm = m + 1
      <4>1. Markers \subseteq Pickers
        BY DEF Markers
      <4> QED
        BY <4>1, <2>5, PickersAdd
    <3>4. r = rr + 1
      <4> DEFINE S == Reducers(k)'
      <4>1. Reducers(k) = S \cup {t} /\ t \notin S /\ S \subseteq Pickers
        BY <2>1, <2>4, <2>6 DEF Reducers
      <4> HIDE DEF S
      <4> QED
        BY <4>1, PickersAdd DEF S
    <3>5. ~hasSub => n + Threshold * m >= FullDepth
      BY <3>1, <2>1, <2>4, <2>6 DEF SkeyCount, SkeyLower, Reducing
    <3>6. hasSub => n >= Threshold * r
      BY <3>1 DEF SkeyCount, SkeyLower
    <3> HIDE DEF m, mm, r, rr
    <3>7. /\ Threshold * (m + 1) = Threshold * m + Threshold
          /\ Threshold * (rr + 1) = Threshold * rr + Threshold
          /\ Threshold * m \in Nat /\ Threshold * rr \in Nat
      BY <3>2, <1>t, TimesMore
    <3> DEFINE x == Threshold * m  xx == Threshold * mm
               y == Threshold * r  yy == Threshold * rr
    <3>8. x \in Nat /\ yy \in Nat /\ xx = x + Threshold /\ y = yy + Threshold
          /\ (~hasSub => n + x >= FullDepth) /\ (hasSub => n >= y)
      BY <3>3, <3>4, <3>5, <3>6, <3>7
    <3> HIDE DEF x, xx, y, yy
    <3>9. ASSUME ~hasSub' PROVE load'[k] + xx >= FullDepth
      BY <3>9, <3>8, <3>1, <2>4, <1>t
    <3>10. ASSUME hasSub' PROVE load'[k] >= yy
      BY <3>10, <3>8, <3>1, <2>4, <1>t
    <3> QED
      BY <3>9, <3>10 DEF SkeyLower, xx, yy, mm, rr
  <2>7. CASE k # s
    <3>1. load'[k] = load[k] /\ load[k] \in Nat
      BY <2>2, <2>7, <1>0
    <3>2. load[k] <= load'[k] /\ load'[k] \in Nat
      BY <3>1
    <3>3. Markers \subseteq Markers' /\ (Reducing(k)' => Reducing(k))
          /\ Reducers(k)' \subseteq Reducers(k)
      BY <2>4, <2>5 DEF Reducing, Reducers
    <3> QED
      BY <2>4, <3>2, <3>3, LowerFrame
  <2> QED
    BY <2>6, <2>7
<1>3. CASE Mark(t)
  <2>1. /\ load' = load /\ sel' = sel /\ hasSub' = TRUE
        /\ \A u \in Pickers : pc'[u] = "reduce" => pc[u] = "reduce"
    BY <1>3 DEF Mark, Goto, SkeyTypes
  <2> SUFFICES ASSUME NEW k \in 1 .. Len(load) PROVE SkeyLower(k)'
    BY <2>1 DEF SkeyCount
  <2> DEFINE m == Cardinality(Markers)  r == Cardinality(Reducers(k))
             rr == Cardinality(Reducers(k)')  p == Cardinality(Pickers)
  <2>2. Reducers(k)' \subseteq Reducers(k) /\ Reducers(k) \subseteq Pickers
        /\ Markers \subseteq Pickers /\ Reducers(k) \cap Markers = {}
    BY <2>1 DEF Reducers, Markers
  <2>3. m \in Nat /\ r \in Nat /\ rr \in Nat /\ p \in Nat /\ rr <= r
    BY <2>2, PickersCount
  <2>4. r + m <= p
    BY <2>2, PickersApart
  <2>5. PICK n \in Nat : n = load[k]
    BY <1>0
  <2>6. hasSub => n >= Threshold * r
    BY <2>5 DEF SkeyCount, SkeyLower
  <2>7. ~hasSub /\ r # 0 => n + Threshold * m >= FullDepth
    <3>1. ASSUME r # 0 PROVE Reducing(k)
      <4>1. Reducers(k) # {}
        BY <3>1, FS_EmptySet
      <4> QED
        BY <4>1 DEF Reducers, Reducing
    <3> QED
      BY <3>1, <2>5 DEF SkeyCount, SkeyLower
  <2>8. Threshold * p <= FullDepth
    BY DEF FewPickers
  <2> HIDE DEF m, r, rr, p
  <2>9. /\ Threshold * rr <= Threshold * r
        /\ Threshold * (r + m) <= Threshold * p
    BY <2>3, <2>4, <1>t, TimesLess
  <2>10. Threshold * (r + m) = Threshold * r + Threshold * m /\ Threshold * 0 = 0
         /\ Threshold * r \in Nat /\ Threshold * m \in Nat /\ Threshold * rr \in Nat
         /\ Threshold * p \in Nat
    BY <2>3, <1>t
  <2> DEFINE x == Threshold * m  y == Threshold * r  yy == Threshold * rr  z == Threshold * p
             s == Threshold * (r + m)
  <2>11. x \in Nat /\ y \in Nat /\ yy \in Nat /\ z \in Nat /\ s = y + x /\ yy <= y
         /\ s <= z /\ z <= FullDepth /\ (hasSub => n >= y)
         /\ (~hasSub /\ r # 0 => n + x >= FullDepth) /\ (r = 0 => y = 0)
    BY <2>6, <2>7, <2>8, <2>9, <2>10
  <2> HIDE DEF x, y, yy, z, s
  <2>12. n >= yy
    <3>1. CASE hasSub
      BY <3>1, <2>11
    <3>2. CASE r = 0
      BY <3>2, <2>11
    <3>3. CASE ~hasSub /\ r # 0
      BY <3>3, <2>11, <1>t
    <3> QED
      BY <3>1, <3>2, <3>3
  <2> QED
    BY <2>1, <2>5, <2>12 DEF SkeyLower, yy, rr
<1>4. CASE CountLoad(t)
  <2>1. PICK s \in 1 .. Len(load) : s = sel[t]
    BY <1>4 DEF CountLoad, SkeyTypes, Selects
  <2>2. load' = [load EXCEPT ![s] = (load[s] + 1) % Wrap]
    BY <1>4, <2>1 DEF CountLoad
  <2>3. Len(load') = Len(load)
    BY <2>2, <1>0, LenProperties DEF SkeyTypes
  <2>4. /\ sel' = sel /\ hasSub' = hasSub
        /\ \A u \in Pickers : /\ pc[u] = "mark" => pc'[u] = "mark"
                              /\ pc'[u] \in {"mode", "reduce"} => pc'[u] = pc[u]
    BY <1>4 DEF CountLoad, Goto, SkeyTypes
  <2>5. (load[s] + 1) % Wrap = load[s] + 1
    <3> DEFINE p == Cardinality(Pickers)  a == Cardinality(Adders(s))
    <3>1. PICK n \in Nat : n = load[s]
      BY <1>0, <2>1
    <3>2. {t} \subseteq Adders(s) /\ Adders(s) \subseteq Pickers
      BY <1>4, <2>1 DEF Adders, CountLoad
    <3>3. Cardinality({t}) = 1
      BY FS_Singleton
    <3>4. p \in Nat /\ a \in Nat /\ 1 <= a
      BY <3>2, <3>3, PickersCount
    <3>5. n + a <= FullDepth - 1 + p /\ FullDepth + p <= Wrap
      BY <3>1, <2>1 DEF SkeyLoads, SkeyUpper, FewPickers
    <3> HIDE DEF p, a
    <3>6. n + 1 \in Nat /\ n + 1 < Wrap
      BY <3>4, <3>5, <1>t
    <3>7. (n + 1) % Wrap = n + 1
      BY <3>6, <1>t
    <3> QED
      BY <3>1, <3>7
  <2> SUFFICES ASSUME NEW k \in 1 .. Len(load) PROVE SkeyLower(k)'
    BY <2>3 DEF SkeyCount
  <2>6. load[k] <= load'[k] /\ load'[k] \in Nat
    <3>1. load[k] \in Nat
      BY <1>0
    <3>2. load'[k] = IF k = s THEN load[k] + 1 ELSE load[k]
      BY <2>2, <2>5, <1>0
    <3> QED
      BY <3>1, <3>2
  <2>7. Markers \subseteq Markers' /\ (Reducing(k)' => Reducing(k))
        /\ Reducers(k)' \subseteq Reducers(k)
    BY <2>4 DEF Markers, Reducing, Reducers
  <2> QED
    BY <2>4, <2>6, <2>7, LowerFrame
<1>5. CASE AddCtx(t)
  <2>1. load' = Append(load, 0) /\ load \in Seq(Nat) /\ hasSub' = hasSub
    BY <1>5 DEF AddCtx, SkeyTypes
  <2>2. /\ Len(load') = Len(load) + 1 /\ load'[Len(load) + 1] = 0
        /\ \A k \in 1 .. Len(load) : load'[k] = load[k]
    <3>1. 0 \in Nat
      OBVIOUS
    <3> QED
      BY <2>1, <3>1, AppendProperties
  <2>3. \A u \in Pickers : /\ sel'[u] = sel[u]
                           /\ pc[u] = "mark" => pc'[u] = "mark"
                           /\ pc'[u] \in {"mode", "reduce"} => pc'[u] = pc[u]
    BY <1>5 DEF AddCtx, Goto, SkeyTypes
  <2> SUFFICES ASSUME NEW k \in 1 .. Len(load) + 1 PROVE SkeyLower(k)'
    BY <2>2 DEF SkeyCount
  <2>4. Markers \subseteq Markers' /\ (Reducing(k)' => Reducing(k))
        /\ Reducers(k)' \subseteq Reducers(k)
    BY <2>3 DEF Markers, Reducing, Reducers
  <2>5. CASE k \in 1 .. Len(load)
    <3>0. load'[k] = load[k] /\ load[k] \in Nat
      BY <2>2, <2>5, <1>0
    <3>1. load[k] <= load'[k] /\ load'[k] \in Nat
      BY <3>0
    <3> QED
      BY <2>1, <2>4, <2>5, <3>1, LowerFrame
  <2>6. CASE k = Len(load) + 1
    <3>1. \A u \in Pickers : pc[u] \in {"mode", "reduce"} => sel[u] # k
      <4>1. \A u \in Pickers : pc[u] \in {"mode", "reduce"} => sel[u] \in 1 .. Len(load)
        BY DEF SkeyTypes, Selects
      <4>2. k \notin 1 .. Len(load)
        BY <2>6, <1>0
      <4> QED
        BY <4>1, <4>2
    <3>2. ~Reducing(k)' /\ Reducers(k)' = {}
      BY <3>1, <2>4 DEF Reducing, Reducers
    <3>3. Threshold * Cardinality(Reducers(k)') = 0
      BY <3>2, FS_EmptySet, <1>t
    <3>4. load'[k] = 0
      BY <2>2, <2>6
    <3> QED
      BY <3>2, <3>3, <3>4 DEF SkeyLower
  <2> QED
    BY <2>5, <2>6, <1>0
<1>6. CASE /\ ~CheckNoRoom(t) /\ ~Reduce(t) /\ ~Mark(t) /\ ~CountLoad(t) /\ ~AddCtx(t)
  <2>1. load' = load /\ hasSub' = hasSub
    BY <1>6 DEF Step, PickScan, PickStore, PickCached, PickSelect, CheckRoom,
       ModeFull, ModeReduce, NextOfDomain, AddRefused, Finish, cacheVars
  <2>2. /\ pc[t] # "mark" /\ (pc'[t] \notin {"mode", "reduce"} \/ ModeReduce(t))
        /\ \A u \in Pickers : u # t => pc'[u] = pc[u]
    BY <1>6 DEF Step, PickScan, PickStore, PickCached, PickSelect, CheckRoom,
       ModeFull, ModeReduce, NextOfDomain, AddRefused, Finish, Goto, SkeyTypes
  <2>3. \A u \in Pickers : u # t => sel'[u] = sel[u]
    BY <1>6 DEF Step, PickScan, PickStore, PickCached, PickSelect, CheckRoom,
       ModeFull, ModeReduce, NextOfDomain, AddRefused, Finish, SkeyTypes
  <2> SUFFICES ASSUME NEW k \in 1 .. Len(load) PROVE SkeyLower(k)'
    BY <2>1 DEF SkeyCount
  <2>4. load[k] <= load'[k] /\ load'[k] \in Nat
    BY <2>1, <1>0
  <2>5. Markers \subseteq Markers'
    BY <2>2 DEF Markers, ModeReduce
  <2>6. CASE ModeReduce(t)
    <3>1. ~hasSub /\ pc[t] = "mode" /\ sel' = sel
      BY <2>6 DEF ModeReduce
    <3>2. Reducing(k)' => Reducing(k)
      BY <3>1, <2>2 DEF Reducing
    <3> QED
      BY <2>1, <2>4, <2>5, <3>1, <3>2, LowerFrame
  <2>7. CASE ~ModeReduce(t)
    <3>1. (Reducing(k)' => Reducing(k)) /\ Reducers(k)' \subseteq Reducers(k)
      BY <2>2, <2>3, <2>7 DEF Reducing, Reducers
    <3> QED
      BY <2>1, <2>4, <2>5, <3>1, LowerFrame
  <2> QED
    BY <2>6, <2>7
<1> QED
  BY <1>1, <1>2, <1>3, <1>4, <1>5, <1>6

SkeyInv == SkeyTypes /\ SkeyLoads /\ SkeyCount /\ CacheDistinct

LEMMA SkeyInvInit ==
  ASSUME FewPickers, KInit PROVE SkeyInv
<1>1. SkeyTypes /\ CacheDistinct
  BY SkeyTypesInit
<1>2. Len(load) = 1 /\ load[1] = 0 /\ hasSub = FALSE
  BY DEF KInit
<1>3. Adders(1) = {} /\ ~Reducing(1)
  BY DEF KInit, Adders, Reducing
<1>4. Cardinality(Adders(1)) = 0 /\ Cardinality(Pickers) \in Nat
  BY <1>3, FS_EmptySet, FS_CardinalityType DEF FewPickers
<1>5. FullDepth \in Nat \ {0}
  BY DepthsTyped
<1>6. SkeyUpper(1)
  BY <1>2, <1>4, <1>5 DEF SkeyUpper
<1>7. SkeyLower(1)
  BY <1>2, <1>3 DEF SkeyLower
<1>8. \A k \in 1 .. Len(load) : k = 1
  BY <1>2
<1> QED
  BY <1>1, <1>6, <1>7, <1>8 DEF SkeyInv, SkeyLoads, SkeyCount

\* The session's context cache has no context twice and no load beyond the depth,
\* for any number of contexts and any interleaving of as many threads as can take
\* the threshold off one full entry without wrapping its load (wd_sched_skey_add_ctx
\* under its lock, skey_sched_pick_next_ctx with its atomic words).
THEOREM SkeyCacheExact ==
  FewPickers => (KSpec => []CacheExact)
<1> SUFFICES ASSUME FewPickers PROVE KSpec => []CacheExact
  OBVIOUS
<1>1. KInit => SkeyInv
  BY SkeyInvInit
<1>2. SkeyInv /\ [KNext]_skeyVars => SkeyInv'
  <2> SUFFICES ASSUME SkeyInv, [KNext]_skeyVars PROVE SkeyInv'
    OBVIOUS
  <2>1. CASE KNext
    <3>1. PICK t \in Pickers : Step(t)
      BY <2>1 DEF KNext
    <3>2. SkeyTypes /\ SkeyLoads /\ SkeyCount /\ CacheDistinct
      BY DEF SkeyInv
    <3>3. SkeyTypes'
      BY <3>1, <3>2, SkeyTypesStep
    <3>4. CacheDistinct'
      BY <3>1, <3>2, SkeyDistinctStep
    <3>5. SkeyLoads'
      BY <3>1, <3>2, <3>3, SkeyLoadsStep
    <3>6. SkeyCount'
      BY <3>1, <3>2, <3>3, <3>5, SkeyCountStep
    <3> QED
      BY <3>3, <3>4, <3>5, <3>6 DEF SkeyInv
  <2>2. CASE UNCHANGED skeyVars
    BY <2>2 DEF skeyVars, cacheVars, threadVars, SkeyInv, SkeyTypes,
       SkeyLoads, SkeyCount,
       SkeyUpper, SkeyLower, Adders, Reducers, Reducing, Markers, CacheDistinct
  <2> QED
    BY <2>1, <2>2
<1>3. SkeyInv => CacheExact
  <2> SUFFICES ASSUME SkeyInv PROVE LoadBounded
    BY DEF SkeyInv, CacheExact
  <2>1. SkeyTypes /\ SkeyLoads
    BY DEF SkeyInv
  <2> SUFFICES ASSUME NEW k \in DOMAIN load
               PROVE  load[k] <= FullDepth - 1 + Cardinality(Pickers)
    BY DEF LoadBounded
  <2> DEFINE p == Cardinality(Pickers)  a == Cardinality(Adders(k))
  <2>2. k \in 1 .. Len(load) /\ load[k] \in Nat
    BY <2>1, LenProperties, ElementOfSeq DEF SkeyTypes
  <2>3. p \in Nat /\ a \in Nat
    <3>1. Adders(k) \subseteq Pickers
      BY DEF Adders
    <3> QED
      BY <3>1, PickersCount
  <2>4. load[k] + a <= FullDepth - 1 + p /\ FullDepth \in Nat
    BY <2>1, <2>2, DepthsTyped DEF SkeyLoads, SkeyUpper
  <2> HIDE DEF p, a
  <2>5. load[k] <= FullDepth - 1 + p
    BY <2>2, <2>3, <2>4
  <2> QED
    BY <2>5 DEF p
<1> QED
  BY <1>1, <1>2, <1>3, PTL DEF KSpec

-----------------------------------------------------------------------------
\* The domains and the sessions' contexts.

\* No two threads file contexts under one key.
KeysApart ==
  \A t \in Callers, u \in Callers : \A i \in DOMAIN Calls[t], j \in DOMAIN Calls[u] :
     t # u => Calls[t][i].key # Calls[u][j].key

SegType == [begin : Nat, end : Nat]
DomainType == [key : Keys, segs : Seq(SegType), cur : Nat, pos : Nat, valid : BOOLEAN]

\* The pointer of a domain is at one of its contexts, if it has any.
DomainFine(d) ==
  /\ d \in DomainType
  /\ \A n \in 1 .. Len(d.segs) : /\ d.segs[n].begin <= d.segs[n].end
                                 /\ d.segs[n].begin .. d.segs[n].end \subseteq Ctxs
  /\ IF d.segs = <<>> THEN d.cur = 1 /\ d.pos = 0 /\ ~d.valid
     ELSE d.cur \in 1 .. Len(d.segs) /\ d.pos < Size(d.segs[d.cur])

InstPoints == {"lookup", "insert", "append", "valid"}
OpenPoints == {"idle", "lookup", "pick", "opened", "filter", "search", "round", "open"}
LocType == [p : 1 .. Len(Props), m : 1 .. 2, d : Nat, i : Nat]
ModeSet == {"sync", "async"}

DomTypes ==
  /\ dom \in Seq(DomainType) /\ Len(last) = Len(dom) /\ last \in Seq(Int)
  /\ \A n \in 1 .. Len(dom) : DomainFine(dom[n])
InstTypes ==
  /\ ipc \in [Callers -> InstPoints] /\ call \in [Callers -> Nat \ {0}]
  /\ target \in [Callers -> Nat]
  /\ \A t \in Callers : /\ call[t] <= Len(Calls[t]) + 1
                        /\ ipc[t] # "lookup" => call[t] <= Len(Calls[t])
OpenTypes ==
  /\ opc \in [Openers -> OpenPoints] /\ loc \in [Openers -> LocType]
  /\ cache \in [Openers -> [ModeSet -> Seq(Int)]]
  /\ owed \in [Openers -> SUBSET ModeSet]

\* A key has one domain; the thread that inserts one found none.
OneDomain ==
  \A n \in 1 .. Len(dom), k \in 1 .. Len(dom) : dom[n].key = dom[k].key => n = k
InsertFree(t) == ipc[t] = "insert" => \A n \in 1 .. Len(dom) : dom[n].key # Current(t).key
KeyOnce == OneDomain /\ \A t \in Callers : InsertFree(t)

\* What an instance thread knows of its call and of those that returned.
HasSegment(n, c) == \E i \in 1 .. Len(dom[n].segs) :
                       dom[n].segs[i] = [begin |-> c.begin, end |-> c.end]
IsFiled(c) == \E n \in 1 .. Len(dom) : dom[n].key = c.key /\ HasSegment(n, c)
InstHasOf(t) ==
  /\ ipc[t] # "lookup" => Current(t).begin <= Current(t).end
  /\ ipc[t] \in {"append", "valid"} =>
       (target[t] \in 1 .. Len(dom) /\ dom[target[t]].key = Current(t).key)
  /\ ipc[t] = "valid" => HasSegment(target[t], Current(t))
  /\ \A i \in 1 .. call[t] - 1 : Calls[t][i].begin <= Calls[t][i].end => IsFiled(Calls[t][i])
InstHas == \A t \in Callers : InstHasOf(t)

\* A session thread that found a domain found a usable one; the loops start over.
OpenDomainOf(t) ==
  /\ opc[t] \in {"pick", "round"} => (loc[t].d \in 1 .. Len(dom) /\ dom[loc[t].d].valid)
  /\ opc[t] \in {"opened", "filter"} => loc[t].p = 1
  /\ opc[t] = "opened" => loc[t].m = 1
OpenDomain == \A t \in Openers : OpenDomainOf(t)

\* What the session is given fits, once the filter has been over its mode.
Fitting(t, m) == Range(cache[t][m]) \subseteq Compat[t] \cup {Invalid}
OpenFittingOf(t) ==
  /\ opc[t] = "open" => (Fitting(t, "sync") /\ Fitting(t, "async"))
  /\ (opc[t] \in {"filter", "search", "round"} /\ loc[t].m = 2) => Fitting(t, "sync")
OpenFitting == \A t \in Openers : OpenFittingOf(t)

\* A context that fits: place j of segment i of domain n.
FitsAt(t, n, i, j) ==
  /\ n \in 1 .. Len(dom) /\ i \in 1 .. Len(dom[n].segs) /\ j \in Nat
  /\ dom[n].valid /\ dom[n].segs[i].begin + j <= dom[n].segs[i].end
  /\ dom[n].segs[i].begin + j \in Compat[t]

\* The search has not gone past it: of the Total contexts of the domain, those
\* tried and those before it are not all.
PlaceOf(d, i, j) == 1 + j + Before(d.segs, i - 1)
AheadOf(place, ptr, total, tried) ==
  IF place >= ptr THEN tried + (place - ptr) < total ELSE tried + place < ptr
Ahead(d, i, j, tried) == AheadOf(PlaceOf(d, i, j), At(d), Total(d), tried)
NotPassed(t, n, i, j, q) ==
  /\ q \in 1 .. Len(Props) /\ Props[q] = dom[n].key.prop /\ loc[t].p <= q
  /\ (opc[t] = "round" /\ loc[t].p = q)
       => (loc[t].d = n /\ Ahead(dom[n], i, j, loc[t].i))
Searching(t, m) == opc[t] \in {"search", "round"} /\ Mode(t) = m

\* A context owed in a mode is still to come, and the session is not turned down.
OwedFor(t, m) ==
  /\ cache[t][m] # <<Invalid>>
  /\ \E n \in Nat, i \in Nat, j \in Nat, q \in Nat :
        /\ FitsAt(t, n, i, j) /\ dom[n].key.mode = m
        /\ Searching(t, m) => NotPassed(t, n, i, j, q)
OwedAlone == \A t \in Openers : (owed[t] # {} /\ ~Settled(t)) =>
                \A u \in Openers : u # t => Settled(u)
Owed == \A t \in Openers : \A m \in owed[t] : OwedFor(t, m)

DomainInv == DomTypes /\ InstTypes /\ OpenTypes /\ InstHas /\ OpenDomain /\ OpenFitting
OwedInv == KeyOnce /\ OwedAlone /\ Owed

\* What every step leaves of the domains, and what all but a pick leave.
Grown ==
  /\ Len(dom) <= Len(dom')
  /\ \A n \in 1 .. Len(dom) :
        /\ dom'[n].key = dom[n].key /\ (dom[n].valid => dom'[n].valid)
        /\ Len(dom[n].segs) <= Len(dom'[n].segs)
        /\ \A i \in 1 .. Len(dom[n].segs) : dom'[n].segs[i] = dom[n].segs[i]
StillAt(n) == At(dom'[n]) = At(dom[n]) /\ Total(dom[n]) <= Total(dom'[n])

\* A step of session thread t leaves the others alone.
OthersOpen(t) ==
  \A u \in Openers : u # t => /\ opc'[u] = opc[u] /\ loc'[u] = loc[u]
                              /\ cache'[u] = cache[u] /\ owed'[u] \subseteq owed[u]
OpenKeeps(t) == /\ OpenTypes' /\ OthersOpen(t)
                /\ OpenDomainOf(t)' /\ OpenFittingOf(t)'

-----------------------------------------------------------------------------
\* Sums over segments.

\* b is the function that Before(s, _) is.
Sums(b, s) == /\ b[0] = 0
              /\ \A i \in 1 .. Len(s) : b[i] = b[i - 1] + Size(s[i])

LEMMA BeforeBuilt ==
  ASSUME NEW s, Len(s) \in Nat
  PROVE  \E h : Sums(h, s) /\ \A n \in 0 .. Len(s) : Before(s, n) = h[n]
<1> DEFINE Built(g, m) == g = [i \in 0 .. m |-> IF i = 0 THEN 0 ELSE g[i - 1] + Size(s[i])]
           T == {m \in 0 .. Len(s) : ~\E g : Built(g, m)}
<1>1. SUFFICES T = {}
  <2>1. Len(s) \in 0 .. Len(s)
    OBVIOUS
  <2>2. PICK g : Built(g, Len(s))
    BY <1>1, <2>1
  <2>3. PICK h : /\ h = [i \in 0 .. Len(s) |-> IF i = 0 THEN 0 ELSE h[i - 1] + Size(s[i])]
                 /\ \A n \in 0 .. Len(s) : Before(s, n) = h[n]
    BY <2>2, Zenon DEF Before
  <2>4. Sums(h, s)
    BY <2>3 DEF Sums
  <2> QED
    BY <2>3, <2>4
<1>2. SUFFICES ASSUME T # {} PROVE FALSE
  OBVIOUS
<1>3. PICK m \in T : \A y \in T : m <= y
  <2>1. T \in SUBSET Nat
    OBVIOUS
  <2> HIDE DEF T
  <2> QED
    BY <1>2, <2>1, LeastNat
<1>4. m \in 0 .. Len(s) /\ ~\E g : Built(g, m)
  BY <1>3
<1>5. CASE m = 0
  <2> DEFINE g == [i \in 0 .. 0 |-> 0]
  <2>1. Built(g, 0)
    OBVIOUS
  <2> QED
    BY <1>4, <1>5, <2>1
<1>6. CASE m # 0
  <2>1. m - 1 \in 0 .. Len(s) /\ m - 1 \notin T /\ m \in Nat
    <3>1. m \in Nat /\ m - 1 \in 0 .. Len(s) /\ ~(m <= m - 1)
      BY <1>4, <1>6
    <3> QED
      BY <3>1, <1>3
  <2>2. PICK g : Built(g, m - 1)
    BY <2>1
  <2> DEFINE h == [i \in 0 .. m |-> IF i = m THEN g[m - 1] + Size(s[m]) ELSE g[i]]
  <2>3. \A i \in 0 .. (m - 1) : g[i] = IF i = 0 THEN 0 ELSE g[i - 1] + Size(s[i])
    BY <2>2
  <2>4. ASSUME NEW i \in 0 .. m
        PROVE  h[i] = IF i = 0 THEN 0 ELSE h[i - 1] + Size(s[i])
    <3>1. CASE i = m
      <4>1. h[m - 1] = g[m - 1] /\ h[m] = g[m - 1] + Size(s[m])
        BY <2>1, <1>6
      <4> QED
        BY <4>1, <3>1, <1>6
    <3>2. CASE i # m /\ i = 0
      <4>1. h[i] = g[i] /\ i \in 0 .. (m - 1)
        BY <3>2, <2>1
      <4> QED
        BY <4>1, <3>2, <2>3
    <3>3. CASE i # m /\ i # 0
      <4>1. i \in 0 .. (m - 1) /\ i - 1 \in 0 .. m /\ i - 1 # m
        BY <3>3, <2>1
      <4>2. h[i] = g[i] /\ h[i - 1] = g[i - 1]
        BY <4>1, <3>3
      <4> QED
        BY <4>1, <4>2, <3>3, <2>3
    <3> QED
      BY <3>1, <3>2, <3>3
  <2>5. Built(h, m)
    <3>1. h = [i \in 0 .. m |-> h[i]]
      OBVIOUS
    <3> HIDE DEF h
    <3> QED
      BY <3>1, <2>4
  <2> QED
    BY <2>5, <1>4
<1> QED
  BY <1>5, <1>6

\* Segments that are not empty, and their sums.
Segments(s) == s \in Seq(SegType) /\ \A n \in 1 .. Len(s) : s[n].begin <= s[n].end

LEMMA SegmentSize ==
  ASSUME NEW s, Segments(s), NEW n \in 1 .. Len(s)
  PROVE  s[n] \in SegType /\ s[n].begin \in Nat /\ s[n].end \in Nat /\ Size(s[n]) \in Nat \ {0}
<1>1. s[n] \in SegType
  BY ElementOfSeq DEF Segments
<1>2. PICK x \in Nat, y \in Nat : x = s[n].begin /\ y = s[n].end
  BY <1>1 DEF SegType
<1>3. x <= y
  BY <1>2 DEF Segments
<1>4. y - x + 1 \in Nat \ {0}
  BY <1>3
<1> QED
  BY <1>1, <1>2, <1>4 DEF Size

LEMMA BeforeStep ==
  ASSUME NEW s, Segments(s)
  PROVE  /\ Len(s) \in Nat /\ Before(s, 0) = 0
         /\ \A i \in 1 .. Len(s) : /\ Before(s, i) = Before(s, i - 1) + Size(s[i])
                                   /\ Size(s[i]) \in Nat \ {0}
<1>1. Len(s) \in Nat
  BY LenProperties DEF Segments
<1>2. PICK h : Sums(h, s) /\ \A n \in 0 .. Len(s) : Before(s, n) = h[n]
  BY <1>1, BeforeBuilt
<1>3. Before(s, 0) = 0
  BY <1>1, <1>2 DEF Sums
<1>4. ASSUME NEW i \in 1 .. Len(s) PROVE Before(s, i) = Before(s, i - 1) + Size(s[i])
  <2>1. i \in 0 .. Len(s) /\ i - 1 \in 0 .. Len(s)
    BY <1>1
  <2> QED
    BY <2>1, <1>2 DEF Sums
<1> QED
  BY <1>1, <1>3, <1>4, SegmentSize

LEMMA BeforeNat ==
  ASSUME NEW s, Segments(s)
  PROVE  \A n \in 0 .. Len(s) : Before(s, n) \in Nat
<1>1. /\ Len(s) \in Nat /\ Before(s, 0) = 0
      /\ \A i \in 1 .. Len(s) : /\ Before(s, i) = Before(s, i - 1) + Size(s[i])
                                /\ Size(s[i]) \in Nat \ {0}
  BY BeforeStep
<1> DEFINE T == {n \in 0 .. Len(s) : Before(s, n) \notin Nat}
<1>2. SUFFICES ASSUME T # {} PROVE FALSE
  OBVIOUS
<1>3. PICK m \in T : \A y \in T : m <= y
  <2>1. T \in SUBSET Nat
    BY <1>1
  <2> HIDE DEF T
  <2> QED
    BY <1>2, <2>1, LeastNat
<1>4. m # 0 /\ m \in 1 .. Len(s) /\ m - 1 \in 0 .. Len(s) /\ ~(m <= m - 1)
  BY <1>1, <1>3
<1>5. Before(s, m - 1) \in Nat
  BY <1>3, <1>4
<1>6. Before(s, m) = Before(s, m - 1) + Size(s[m]) /\ Size(s[m]) \in Nat
  BY <1>1, <1>4
<1>7. Before(s, m) \in Nat
  BY <1>5, <1>6
<1> QED
  BY <1>3, <1>7

\* Sums grow.
LEMMA BeforeGrows ==
  ASSUME NEW s, Segments(s), NEW n \in 0 .. Len(s), NEW k \in 0 .. Len(s), n <= k
  PROVE  Before(s, n) <= Before(s, k)
<1>1. /\ Len(s) \in Nat
      /\ \A i \in 1 .. Len(s) : /\ Before(s, i) = Before(s, i - 1) + Size(s[i])
                                /\ Size(s[i]) \in Nat \ {0}
  BY BeforeStep
<1>0. \A i \in 0 .. Len(s) : Before(s, i) \in Nat
  BY BeforeNat
<1> DEFINE T == {i \in n .. Len(s) : ~(Before(s, n) <= Before(s, i))}
<1>2. SUFFICES ASSUME T # {} PROVE FALSE
  BY SMTT(30), <1>1
<1>3. PICK m \in T : \A y \in T : m <= y
  <2>1. T \in SUBSET Nat
    BY <1>1
  <2> HIDE DEF T
  <2> QED
    BY <1>2, <2>1, LeastNat
<1>4. m # n
  BY <1>0, <1>3
<1>5. m \in 1 .. Len(s) /\ m - 1 \in 0 .. Len(s) /\ m - 1 \in n .. Len(s) /\ ~(m <= m - 1)
  BY <1>1, <1>3, <1>4
<1>6. Before(s, n) <= Before(s, m - 1)
  BY <1>3, <1>5
<1>7. PICK x \in Nat, y \in Nat, z \in Nat, w \in Nat :
         /\ x = Before(s, n) /\ y = Before(s, m - 1) /\ z = Before(s, m) /\ w = Size(s[m])
  <2>1. Before(s, n) \in Nat /\ Before(s, m - 1) \in Nat
    BY <1>0, <1>5
  <2>2. Before(s, m) \in Nat /\ Size(s[m]) \in Nat
    BY <1>0, <1>1, <1>5
  <2> QED
    BY <2>1, <2>2
<1>8. z = y + w /\ x <= y
  BY <1>1, <1>5, <1>6, <1>7
<1>9. x <= z
  BY <1>8
<1> QED
  BY <1>3, <1>7, <1>9

\* The sums of segments that are kept stay.
LEMMA BeforeKept ==
  ASSUME NEW s, Segments(s), NEW r, Segments(r), Len(s) <= Len(r),
         \A i \in 1 .. Len(s) : r[i] = s[i],
         NEW n \in 0 .. Len(s)
  PROVE  Before(r, n) = Before(s, n)
<1>1. /\ Len(s) \in Nat /\ Before(s, 0) = 0
      /\ \A i \in 1 .. Len(s) : Before(s, i) = Before(s, i - 1) + Size(s[i])
  BY BeforeStep
<1>2. /\ Len(r) \in Nat /\ Before(r, 0) = 0
      /\ \A i \in 1 .. Len(r) : Before(r, i) = Before(r, i - 1) + Size(r[i])
  BY BeforeStep
<1> DEFINE T == {i \in 0 .. Len(s) : Before(r, i) # Before(s, i)}
<1>3. SUFFICES ASSUME T # {} PROVE FALSE
  OBVIOUS
<1>4. PICK m \in T : \A y \in T : m <= y
  <2>1. T \in SUBSET Nat
    BY <1>1
  <2> HIDE DEF T
  <2> QED
    BY <1>3, <2>1, LeastNat
<1>5. m # 0
  BY <1>1, <1>2, <1>4
<1>6. m \in 1 .. Len(s) /\ m \in 1 .. Len(r) /\ m - 1 \in 0 .. Len(s) /\ ~(m <= m - 1)
  BY <1>1, <1>2, <1>4, <1>5
<1>7. Before(r, m - 1) = Before(s, m - 1)
  BY <1>4, <1>6
<1>8. Before(r, m) = Before(r, m - 1) + Size(r[m]) /\ Before(s, m) = Before(s, m - 1) + Size(s[m])
  BY <1>1, <1>2, <1>6
<1>9. r[m] = s[m]
  BY <1>6
<1>10. Before(r, m) = Before(s, m)
  BY <1>7, <1>8, <1>9
<1> QED
  BY <1>4, <1>10

-----------------------------------------------------------------------------
\* A domain, its pointer and its ring.

LEMMA DomainFields ==
  ASSUME NEW d \in DomainType
  PROVE  /\ d.key \in Keys /\ d.segs \in Seq(SegType) /\ d.cur \in Nat /\ d.pos \in Nat
         /\ d.valid \in BOOLEAN
BY DEF DomainType

LEMMA DomainSegments ==
  ASSUME NEW d, DomainFine(d)
  PROVE  Segments(d.segs) /\ Len(d.segs) \in Nat /\ (d.segs # <<>> => Len(d.segs) # 0)
<1>1. d.segs \in Seq(SegType)
  BY DomainFields DEF DomainFine
<1>2. Segments(d.segs)
  BY <1>1 DEF DomainFine, Segments
<1>3. Len(d.segs) \in Nat
  BY <1>1, LenProperties
<1> QED
  BY <1>1, <1>2, <1>3, EmptySeq

\* The pointer is at a place of the ring.
LEMMA AtInside ==
  ASSUME NEW d, DomainFine(d), d.segs # <<>>
  PROVE  /\ d.cur \in 1 .. Len(d.segs) /\ d.pos \in Nat
         /\ \E b \in Nat, z \in Nat \ {0}, T \in Nat :
              /\ b = Before(d.segs, d.cur - 1) /\ z = Size(d.segs[d.cur]) /\ T = Total(d)
              /\ Before(d.segs, d.cur) = b + z /\ b + z <= T
              /\ d.pos < z /\ At(d) = 1 + d.pos + b
<1>1. d.cur \in 1 .. Len(d.segs) /\ d.pos < Size(d.segs[d.cur]) /\ d.pos \in Nat
  BY DomainFields DEF DomainFine
<1>2. Segments(d.segs) /\ Len(d.segs) \in Nat
  BY DomainSegments
<1>s. PICK s : s = d.segs
  OBVIOUS
<1>3. PICK n \in Nat, c \in Nat : s = d.segs /\ n = Len(s) /\ c = d.cur /\ c \in 1 .. n
  <2>1. Len(s) \in Nat /\ d.cur \in 1 .. Len(s)
    BY <1>1, <1>2, <1>s
  <2>2. d.cur \in Nat
    BY <2>1
  <2> QED
    BY <2>1, <2>2, <1>s
<1>4. Before(s, c) = Before(s, c - 1) + Size(s[c]) /\ Size(s[c]) \in Nat \ {0}
  BY <1>2, <1>3, BeforeStep
<1>5. c \in 0 .. n /\ c - 1 \in 0 .. n /\ n \in 0 .. n /\ c <= n
  BY <1>3
<1>6. Before(s, c - 1) \in Nat /\ Before(s, n) \in Nat
  BY <1>2, <1>3, <1>5, BeforeNat
<1>7. Before(s, c) <= Before(s, n)
  BY <1>2, <1>3, <1>5, BeforeGrows
<1> QED
  BY <1>1, <1>3, <1>4, <1>6, <1>7 DEF Total, At

LEMMA TotalNat ==
  ASSUME NEW d, DomainFine(d)
  PROVE  Total(d) \in Nat
<1>1. Segments(d.segs) /\ Len(d.segs) \in Nat
  BY DomainSegments
<1>2. Len(d.segs) \in 0 .. Len(d.segs)
  BY <1>1
<1> QED
  BY <1>1, <1>2, BeforeNat DEF Total

LEMMA MoveToFields ==
  ASSUME NEW d \in DomainType, NEW c \in Nat, NEW p \in Nat
  PROVE  /\ MoveTo(d, c, p) \in DomainType
         /\ MoveTo(d, c, p).key = d.key /\ MoveTo(d, c, p).segs = d.segs
         /\ MoveTo(d, c, p).cur = c /\ MoveTo(d, c, p).pos = p
         /\ MoveTo(d, c, p).valid = d.valid
BY DEF MoveTo, DomainType

\* A pick goes on by one place, from the last to the first.
LEMMA AdvancedFine ==
  ASSUME NEW d, DomainFine(d), d.segs # <<>>
  PROVE  /\ DomainFine(Advanced(d))
         /\ Advanced(d).key = d.key /\ Advanced(d).segs = d.segs /\ Advanced(d).valid = d.valid
         /\ At(d) \in 1 .. Total(d)
         /\ At(Advanced(d)) = IF At(d) < Total(d) THEN At(d) + 1 ELSE 1
<1>0. d \in DomainType
  BY DEF DomainFine
<1>s. PICK s : s = d.segs
  OBVIOUS
<1>1. PICK n \in Nat, c \in Nat, p \in Nat :
         s = d.segs /\ n = Len(s) /\ c = d.cur /\ p = d.pos /\ c \in 1 .. n
  <2>1. Len(s) \in Nat /\ d.cur \in 1 .. Len(s) /\ d.pos \in Nat
    BY <1>s, AtInside, DomainSegments
  <2>2. d.cur \in Nat
    BY <2>1
  <2> QED
    BY <2>1, <2>2, <1>s
<1>2. PICK b \in Nat, z \in Nat \ {0}, T \in Nat :
         /\ b = Before(s, c - 1) /\ z = Size(s[c]) /\ T = Total(d)
         /\ Before(s, c) = b + z /\ b + z <= T /\ p < z /\ At(d) = 1 + p + b
  BY <1>1, AtInside
<1>3. Segments(s)
  BY <1>1, DomainSegments
<1>4. PICK c2 \in 1 .. n, p2 \in Nat :
         /\ Advanced(d) = MoveTo(d, c2, p2) /\ p2 < Size(s[c2])
         /\ 1 + p2 + Before(s, c2 - 1) = IF At(d) < T THEN At(d) + 1 ELSE 1
  <2>1. CASE p + 1 < z
    <3>1. Advanced(d) = MoveTo(d, c, p + 1)
      BY <2>1, <1>1, <1>2 DEF Advanced
    <3>2. p + 1 \in Nat /\ 1 + (p + 1) + b = At(d) + 1 /\ At(d) < T
      BY <2>1, <1>2
    <3> QED
      BY <2>1, <3>1, <3>2, <1>1, <1>2
  <2>2. CASE ~(p + 1 < z) /\ c < n
    <3>1. Advanced(d) = MoveTo(d, c + 1, 0)
      BY <2>2, <1>1, <1>2 DEF Advanced
    <3>2. c + 1 \in 1 .. n /\ (c + 1) - 1 = c
      BY <2>2, <1>1
    <3>3. Size(s[c + 1]) \in Nat \ {0} /\ Before(s, c + 1) = Before(s, (c + 1) - 1) + Size(s[c + 1])
      BY <3>2, <1>1, <1>3, BeforeStep
    <3>4. Before(s, c + 1) <= Before(s, n)
      <4>1. c + 1 \in 0 .. Len(s) /\ n \in 0 .. Len(s) /\ c + 1 <= n
        BY <3>2, <1>1
      <4> QED
        BY <4>1, <1>3, BeforeGrows
    <3>5. Before(s, n) = T
      BY <1>1, <1>2 DEF Total
    <3>6. PICK y \in Nat \ {0} : y = Size(s[c + 1])
      BY <3>3
    <3>7. b + z + y <= T
      BY <3>2, <3>3, <3>4, <3>5, <3>6, <1>2
    <3>9. PICK x \in Nat : x = At(d) /\ x = 1 + p + b /\ p < z
      BY <1>2
    <3>10. p + 1 = z
      BY <3>9, <2>2
    <3>11. 1 + 0 + (b + z) = x + 1 /\ x < T /\ 0 < y
      BY <3>7, <3>9, <3>10
    <3>8. 1 + 0 + (b + z) = At(d) + 1 /\ At(d) < T /\ 0 < y
      BY <3>9, <3>11
    <3> QED
      BY <3>1, <3>2, <3>6, <3>8, <1>2
  <2>3. CASE ~(p + 1 < z) /\ ~(c < n)
    <3>1. Advanced(d) = MoveTo(d, 1, 0)
      BY <2>3, <1>1, <1>2 DEF Advanced
    <3>2. c = n /\ 1 \in 1 .. n /\ 1 - 1 = 0
      BY <2>3, <1>1
    <3>3. Before(s, 0) = 0 /\ Size(s[1]) \in Nat \ {0}
      BY <3>2, <1>1, <1>3, BeforeStep
    <3>4. Before(s, n) = T
      BY <1>1, <1>2 DEF Total
    <3>5. ~(At(d) < T) /\ 1 + 0 + 0 = 1
      BY <3>2, <3>4, <2>3, <1>2
    <3>6. PICK y \in Nat \ {0} : y = Size(s[1])
      BY <3>3
    <3>7. 0 < y
      OBVIOUS
    <3> QED
      BY <3>1, <3>2, <3>3, <3>5, <3>6, <3>7
  <2> QED
    BY <2>1, <2>2, <2>3
<1>5. c2 \in Nat /\ p2 \in Nat
  BY <1>4
<1>6. PICK e : e = Advanced(d)
  OBVIOUS
<1>7. /\ e \in DomainType /\ e.key = d.key /\ e.segs = s /\ e.cur = c2 /\ e.pos = p2
      /\ e.valid = d.valid
  <2>1. e = MoveTo(d, c2, p2)
    BY <1>4, <1>6
  <2>2. /\ MoveTo(d, c2, p2) \in DomainType
        /\ MoveTo(d, c2, p2).key = d.key /\ MoveTo(d, c2, p2).segs = d.segs
        /\ MoveTo(d, c2, p2).cur = c2 /\ MoveTo(d, c2, p2).pos = p2
        /\ MoveTo(d, c2, p2).valid = d.valid
    BY <1>0, <1>5, MoveToFields, SMTT(60)
  <2> QED
    BY <2>1, <2>2, <1>s
<1>8. DomainFine(e)
  <2>1. \A i \in 1 .. Len(s) : s[i].begin <= s[i].end /\ s[i].begin .. s[i].end \subseteq Ctxs
    BY <1>1 DEF DomainFine
  <2>2. s # <<>> /\ c2 \in 1 .. Len(s) /\ p2 < Size(s[c2])
    BY <1>1, <1>4
  <2> QED
    BY <2>1, <2>2, <1>7 DEF DomainFine
<1>9. At(e) = 1 + p2 + Before(s, c2 - 1)
  BY <1>7 DEF At
<1>10. At(d) \in 1 .. T
  BY <1>2
<1> QED
  BY <1>1, <1>2, <1>4, <1>6, <1>7, <1>8, <1>9, <1>10

\* A place is one context of one segment.
LEMMA PlaceUnique ==
  ASSUME NEW s, Segments(s), NEW i \in 1 .. Len(s), NEW k \in 1 .. Len(s),
         NEW j \in Nat, NEW l \in Nat, j < Size(s[i]), l < Size(s[k]),
         1 + j + Before(s, i - 1) = 1 + l + Before(s, k - 1)
  PROVE  i = k /\ j = l
<1>1. Len(s) \in Nat
  BY BeforeStep
<1>2. ASSUME NEW x \in 1 .. Len(s), NEW y \in 1 .. Len(s), NEW u \in Nat, NEW v \in Nat,
             u < Size(s[x]), v < Size(s[y]), x < y
      PROVE  1 + u + Before(s, x - 1) # 1 + v + Before(s, y - 1)
  <2>1. x \in 0 .. Len(s) /\ x - 1 \in 0 .. Len(s) /\ y - 1 \in 0 .. Len(s) /\ x <= y - 1
    BY SMTT(30), <1>1, <1>2
  <2>2. Before(s, x) = Before(s, x - 1) + Size(s[x]) /\ Size(s[x]) \in Nat
    BY BeforeStep
  <2>3. Before(s, x) <= Before(s, y - 1)
    BY <2>1, BeforeGrows
  <2>4. PICK b \in Nat, c \in Nat, z \in Nat :
           b = Before(s, x - 1) /\ c = Before(s, y - 1) /\ z = Size(s[x])
    <3>1. Before(s, x - 1) \in Nat /\ Before(s, y - 1) \in Nat
      BY <2>1, BeforeNat
    <3> QED
      BY <3>1, <2>2
  <2>5. b + z <= c /\ u < z
    BY <2>2, <2>3, <2>4, <1>2
  <2>6. 1 + u + b # 1 + v + c
    BY <2>5
  <2> QED
    BY <2>4, <2>6
<1>3. ~(i < k)
  BY <1>2
<1>4. ~(k < i)
  BY <1>2
<1>5. i = k
  BY <1>1, <1>3, <1>4
<1>6. PICK b \in Nat : b = Before(s, i - 1)
  <2>1. i - 1 \in 0 .. Len(s)
    BY <1>1
  <2> QED
    BY <2>1, BeforeNat
<1>7. 1 + j + b = 1 + l + b
  BY <1>5, <1>6
<1>8. j = l
  BY <1>7
<1> QED
  BY <1>5, <1>8

\* The places of a domain.
LEMMA PlaceInside ==
  ASSUME NEW d, DomainFine(d), NEW i \in 1 .. Len(d.segs), NEW j \in Nat,
         d.segs[i].begin + j <= d.segs[i].end
  PROVE  /\ d.segs # <<>> /\ PlaceOf(d, i, j) \in 1 .. Total(d)
         /\ PlaceOf(d, i, j) = At(d) => Chosen(d) = d.segs[i].begin + j
<1>1. PICK s : s = d.segs
  OBVIOUS
<1>2. Segments(s) /\ Len(s) \in Nat
  BY <1>1, DomainSegments
<1>3. s # <<>>
  BY <1>1, <1>2
<1>4. PICK x \in Nat, y \in Nat : x = s[i].begin /\ y = s[i].end
  BY <1>1, <1>2, SegmentSize
<1>5. Size(s[i]) = y - x + 1 /\ x + j <= y
  BY <1>1, <1>4 DEF Size
<1>6. PICK z \in Nat \ {0} : z = Size(s[i]) /\ j < z
  BY <1>1, <1>2, <1>5, SegmentSize
<1>7. PICK b \in Nat, T \in Nat : b = Before(s, i - 1) /\ T = Total(d)
  <2>1. i - 1 \in 0 .. Len(s)
    BY <1>1, <1>2
  <2> QED
    BY <2>1, <1>2, BeforeNat, TotalNat
<1>8. b + z <= T
  <2>1. i \in 0 .. Len(s) /\ Len(s) \in 0 .. Len(s) /\ i <= Len(s)
    BY <1>1, <1>2
  <2>2. Before(s, i) <= Before(s, Len(s))
    BY <2>1, <1>2, BeforeGrows
  <2>3. Before(s, i) = Before(s, i - 1) + Size(s[i])
    BY <1>1, <1>2, BeforeStep
  <2> QED
    BY <2>2, <2>3, <1>1, <1>6, <1>7 DEF Total
<1>9. PlaceOf(d, i, j) = 1 + j + b /\ 1 + j + b \in 1 .. T
  BY SMTT(30), <1>1, <1>6, <1>7, <1>8 DEF PlaceOf
<1>10. ASSUME PlaceOf(d, i, j) = At(d) PROVE Chosen(d) = d.segs[i].begin + j
  <2>1. d.cur \in 1 .. Len(s) /\ d.pos \in Nat /\ d.pos < Size(s[d.cur])
    BY <1>1, <1>3, AtInside
  <2>2. 1 + j + Before(s, i - 1) = 1 + d.pos + Before(s, d.cur - 1)
    BY <1>1, <1>10 DEF PlaceOf, At
  <2>3. i = d.cur /\ j = d.pos
    BY <2>1, <2>2, <1>1, <1>2, <1>6, PlaceUnique
  <2> QED
    BY <2>3 DEF Chosen
<1> QED
  BY <1>1, <1>3, <1>7, <1>9, <1>10

LEMMA AheadStart ==
  ASSUME NEW T \in Nat, NEW a \in 1 .. T, NEW p \in 1 .. T
  PROVE  AheadOf(p, a, T, 0)
BY DEF AheadOf

LEMMA AheadNext ==
  ASSUME NEW T \in Nat, NEW a \in 1 .. T, NEW p \in 1 .. T, NEW i \in Nat, AheadOf(p, a, T, i), p # a
  PROVE  AheadOf(p, IF a < T THEN a + 1 ELSE 1, T, i + 1)
BY DEF AheadOf

LEMMA AheadMore ==
  ASSUME NEW T \in Nat, NEW U \in Nat, T <= U, NEW a \in 1 .. T, NEW p \in 1 .. T, NEW i \in Nat,
         AheadOf(p, a, T, i)
  PROVE  AheadOf(p, a, U, i)
BY DEF AheadOf

LEMMA AheadLess ==
  ASSUME NEW T \in Nat, NEW a \in 1 .. T, NEW p \in 1 .. T, NEW i \in Nat, AheadOf(p, a, T, i)
  PROVE  i < T
BY DEF AheadOf

\* A segment at the end leaves every place where it was.
LEMMA SegsExcept ==
  ASSUME NEW d \in DomainType, NEW r \in Seq(SegType)
  PROVE  /\ [d EXCEPT !.segs = r] \in DomainType
         /\ [d EXCEPT !.segs = r].key = d.key /\ [d EXCEPT !.segs = r].segs = r
         /\ [d EXCEPT !.segs = r].cur = d.cur /\ [d EXCEPT !.segs = r].pos = d.pos
         /\ [d EXCEPT !.segs = r].valid = d.valid
BY DEF DomainType

LEMMA AppendedFine ==
  ASSUME NEW d, DomainFine(d), NEW x \in SegType, x.begin <= x.end, x.begin .. x.end \subseteq Ctxs,
         NEW e, e = [d EXCEPT !.segs = Append(d.segs, x)]
  PROVE  /\ DomainFine(e) /\ e.key = d.key /\ e.valid = d.valid
         /\ e.cur = d.cur /\ e.pos = d.pos
         /\ Len(e.segs) = Len(d.segs) + 1 /\ e.segs[Len(d.segs) + 1] = x
         /\ \A i \in 1 .. Len(d.segs) : e.segs[i] = d.segs[i]
         /\ \A i \in 0 .. Len(d.segs) : Before(e.segs, i) = Before(d.segs, i)
         /\ At(e) = At(d) /\ Total(d) <= Total(e)
<1>0. d \in DomainType
  BY DEF DomainFine
<1>1. PICK s \in Seq(SegType) : s = d.segs
  BY <1>0, DomainFields
<1>2. PICK n \in Nat : n = Len(s)
  BY LenProperties
<1>3. PICK r \in Seq(SegType) : r = Append(s, x)
  BY AppendProperties
<1>4. Len(r) = n + 1 /\ r[n + 1] = x /\ \A i \in 1 .. n : r[i] = s[i]
  BY <1>2, <1>3, AppendProperties
<1>5. /\ e \in DomainType /\ e.key = d.key /\ e.segs = r /\ e.cur = d.cur /\ e.pos = d.pos
      /\ e.valid = d.valid
  <2>1. e = [d EXCEPT !.segs = r]
    BY <1>1, <1>3
  <2>2. /\ [d EXCEPT !.segs = r] \in DomainType
        /\ [d EXCEPT !.segs = r].key = d.key /\ [d EXCEPT !.segs = r].segs = r
        /\ [d EXCEPT !.segs = r].cur = d.cur /\ [d EXCEPT !.segs = r].pos = d.pos
        /\ [d EXCEPT !.segs = r].valid = d.valid
    BY <1>0, SegsExcept
  <2> QED
    BY <2>1, <2>2
<1>6. \A i \in 1 .. n : s[i].begin <= s[i].end /\ s[i].begin .. s[i].end \subseteq Ctxs
  BY <1>1, <1>2 DEF DomainFine
<1>7. \A i \in 1 .. (n + 1) : r[i].begin <= r[i].end /\ r[i].begin .. r[i].end \subseteq Ctxs
  <2>1. \A i \in 1 .. (n + 1) : i \in 1 .. n \/ i = n + 1
    OBVIOUS
  <2> QED
    BY <2>1, <1>4, <1>6
<1>8. Segments(s) /\ Segments(r)
  BY <1>2, <1>4, <1>6, <1>7 DEF Segments
<1>9. d.cur \in 1 .. (n + 1) /\ d.pos \in Nat /\ d.pos < Size(r[d.cur])
      /\ d.cur - 1 \in 0 .. n
  <2>1. CASE s = <<>>
    <3>1. n = 0 /\ d.cur = 1 /\ d.pos = 0
      BY <2>1, <1>1, <1>2, EmptySeq DEF DomainFine
    <3>2. Size(r[1]) \in Nat \ {0}
      BY <3>1, <1>4, <1>8, SegmentSize
    <3> QED
      BY <3>1, <3>2
  <2>2. CASE s # <<>>
    <3>1. d.cur \in 1 .. n /\ d.pos \in Nat /\ d.pos < Size(s[d.cur])
      BY <2>2, <1>1, <1>2, <1>0, DomainFields DEF DomainFine
    <3>2. r[d.cur] = s[d.cur]
      BY <3>1, <1>4
    <3> QED
      BY <3>1, <3>2
  <2> QED
    BY <2>1, <2>2
<1>10. r # <<>>
  BY <1>4
<1>11. DomainFine(e)
  BY <1>4, <1>5, <1>7, <1>9, <1>10 DEF DomainFine
<1>12. \A i \in 0 .. n : Before(r, i) = Before(s, i)
  <2>1. Len(s) <= Len(r)
    BY <1>2, <1>4
  <2> QED
    BY <2>1, <1>2, <1>4, <1>8, BeforeKept
<1>13. At(e) = At(d)
  BY <1>1, <1>5, <1>9, <1>12 DEF At
<1>14. Total(d) <= Total(e)
  <2>1. n \in 0 .. n /\ n \in 0 .. Len(r) /\ Len(r) \in 0 .. Len(r) /\ n <= Len(r)
    BY <1>4
  <2>2. Before(r, n) <= Before(r, Len(r))
    BY <2>1, <1>8, BeforeGrows
  <2> QED
    BY <2>1, <2>2, <1>1, <1>2, <1>5, <1>12 DEF Total
<1> QED
  BY <1>1, <1>2, <1>4, <1>5, <1>11, <1>12, <1>13, <1>14

-----------------------------------------------------------------------------
\* The five ways a step changes the domains.

LEMMA DomSame ==
  ASSUME DomTypes, dom' = dom, last' = last
  PROVE  DomTypes' /\ Grown /\ \A n \in 1 .. Len(dom) : StillAt(n)
<1>1. ASSUME NEW n \in 1 .. Len(dom) PROVE DomainFine(dom[n])
  BY DEF DomTypes
<1>2. ASSUME NEW n \in 1 .. Len(dom)
      PROVE  Len(dom[n].segs) \in Nat /\ Total(dom[n]) \in Nat
  BY <1>1, DomainSegments, TotalNat
<1>3. Len(dom) \in Nat
  BY LenProperties DEF DomTypes
<1>4. DomTypes'
  BY <1>1 DEF DomTypes
<1>5. Grown
  BY <1>2, <1>3 DEF Grown
<1> QED
  BY <1>2, <1>4, <1>5 DEF StillAt

\* One domain is replaced.
LEMMA DomReplaced ==
  ASSUME DomTypes, NEW n \in 1 .. Len(dom), NEW e, DomainFine(e),
         dom' = [dom EXCEPT ![n] = e], last' \in Seq(Int), Len(last') = Len(last),
         e.key = dom[n].key, dom[n].valid => e.valid,
         Len(dom[n].segs) <= Len(e.segs),
         \A i \in 1 .. Len(dom[n].segs) : e.segs[i] = dom[n].segs[i]
  PROVE  /\ DomTypes' /\ Grown
         /\ \A k \in 1 .. Len(dom) : dom'[k] = IF k = n THEN e ELSE dom[k]
         /\ \A k \in 1 .. Len(dom) : k # n => StillAt(k)
         /\ Len(dom') = Len(dom)
<1>1. \A k \in 1 .. Len(dom) : DomainFine(dom[k])
  BY DEF DomTypes
<1>2. dom \in Seq(DomainType) /\ e \in DomainType
  BY DEF DomTypes, DomainFine
<1>3. /\ dom' \in Seq(DomainType) /\ Len(dom') = Len(dom)
      /\ \A k \in 1 .. Len(dom) : dom'[k] = IF k = n THEN e ELSE dom[k]
  BY <1>2, ExceptSeq
<1>4. Len(dom) \in Nat
  BY <1>2, LenProperties
<1>5. ASSUME NEW k \in 1 .. Len(dom) PROVE Len(dom[k].segs) \in Nat /\ Total(dom[k]) \in Nat
  BY <1>1, DomainSegments, TotalNat
<1>6. DomTypes'
  BY SMTT(30), <1>1, <1>3 DEF DomTypes
<1>7. Grown
  <2>1. ASSUME NEW k \in 1 .. Len(dom)
        PROVE  /\ dom'[k].key = dom[k].key /\ (dom[k].valid => dom'[k].valid)
               /\ Len(dom[k].segs) <= Len(dom'[k].segs)
               /\ \A i \in 1 .. Len(dom[k].segs) : dom'[k].segs[i] = dom[k].segs[i]
    <3>1. CASE k = n
      <4>1. dom'[k] = e
        BY <3>1, <1>3
      <4> QED
        BY <3>1, <4>1
    <3>2. CASE k # n
      <4>1. dom'[k] = dom[k]
        BY <3>2, <1>3
      <4> QED
        BY <4>1, <1>5
    <3> QED
      BY <3>1, <3>2
  <2> QED
    BY <2>1, <1>3, <1>4 DEF Grown
<1>8. ASSUME NEW k \in 1 .. Len(dom), k # n PROVE StillAt(k)
  <2>1. dom'[k] = dom[k]
    BY <1>8, <1>3
  <2> QED
    BY <2>1, <1>5 DEF StillAt
<1> QED
  BY <1>3, <1>6, <1>7, <1>8

LEMMA DomPick ==
  ASSUME DomTypes, NEW n \in 1 .. Len(dom), dom[n].valid, TakeNext(n)
  PROVE  /\ DomTypes' /\ Grown /\ Chosen(dom[n]) \in Ctxs
         /\ dom'[n] = Advanced(dom[n]) /\ dom[n].segs # <<>>
         /\ \A k \in 1 .. Len(dom) : k # n => StillAt(k)
         /\ Len(dom') = Len(dom) /\ \A k \in 1 .. Len(dom) : k # n => dom'[k] = dom[k]
<1>1. DomainFine(dom[n])
  BY DEF DomTypes
<1>2. dom[n].segs # <<>>
  BY <1>1 DEF DomainFine
<1>3. PICK e : e = Advanced(dom[n])
  OBVIOUS
<1>4. DomainFine(e) /\ e.key = dom[n].key /\ e.segs = dom[n].segs /\ e.valid = dom[n].valid
  BY <1>1, <1>2, <1>3, AdvancedFine
<1>s. PICK s, c : s = dom[n].segs /\ c = dom[n].cur
  OBVIOUS
<1>5. PICK p \in Nat : s = dom[n].segs /\ c = dom[n].cur /\ p = dom[n].pos
  BY <1>1, <1>2, <1>s, AtInside
<1>6. c \in 1 .. Len(s) /\ p < Size(s[c]) /\ Segments(s)
  BY <1>1, <1>2, <1>5, AtInside, DomainSegments
<1>7. PICK x \in Nat, y \in Nat : x = s[c].begin /\ y = s[c].end
  BY <1>6, SegmentSize
<1>8. x + p \in x .. y
  BY SMTT(30), <1>6, <1>7 DEF Size
<1>9. Chosen(dom[n]) \in Ctxs
  <2>1. s[c].begin .. s[c].end \subseteq Ctxs
    BY <1>1, <1>5, <1>6 DEF DomainFine
  <2> QED
    BY <2>1, <1>5, <1>7, <1>8 DEF Chosen
<1>10. last' \in Seq(Int) /\ Len(last') = Len(last)
  <2>1. last \in Seq(Int) /\ n \in 1 .. Len(last)
    BY DEF DomTypes
  <2>4. PICK x0 \in Nat : x0 = Chosen(dom[n])
    BY <1>9, CtxAssumption
  <2>2. Chosen(dom[n]) \in Int
    BY <2>4
  <2>3. last' = [last EXCEPT ![n] = Chosen(dom[n])]
    BY DEF TakeNext
  <2> QED
    BY <2>1, <2>2, <2>3, ExceptSeq
<1>11. dom' = [dom EXCEPT ![n] = e]
  BY <1>3 DEF TakeNext
<1>12. Len(dom[n].segs) <= Len(e.segs) /\ \A i \in 1 .. Len(dom[n].segs) : e.segs[i] = dom[n].segs[i]
  BY <1>1, <1>4, DomainSegments
<1>13. /\ DomTypes' /\ Grown
       /\ \A k \in 1 .. Len(dom) : dom'[k] = IF k = n THEN e ELSE dom[k]
       /\ \A k \in 1 .. Len(dom) : k # n => StillAt(k)
       /\ Len(dom') = Len(dom)
  BY <1>4, <1>10, <1>11, <1>12, DomReplaced
<1> QED
  BY <1>2, <1>3, <1>9, <1>13

LEMMA DomInsert ==
  ASSUME DomTypes, NEW k \in Keys, dom' = Append(dom, NewDomain(k)), last' = Append(last, Invalid)
  PROVE  /\ DomTypes' /\ Grown /\ \A n \in 1 .. Len(dom) : StillAt(n) /\ dom'[n] = dom[n]
         /\ Len(dom') = Len(dom) + 1 /\ dom'[Len(dom) + 1] = NewDomain(k)
<1>1. PICK e : e = NewDomain(k)
  OBVIOUS
<1>2. << >> \in Seq(SegType) /\ Len(<< >>) = 0
  BY EmptySeq
<1>3. /\ e \in DomainType /\ e.segs = <<>> /\ e.cur = 1 /\ e.pos = 0 /\ e.valid = FALSE
      /\ e.key = k
  BY <1>1, <1>2 DEF NewDomain, DomainType
<1>4. DomainFine(e)
  <2>1. \A n \in 1 .. 0 : FALSE
    OBVIOUS
  <2> QED
    BY <2>1, <1>2, <1>3 DEF DomainFine
<1>5. dom \in Seq(DomainType) /\ last \in Seq(Int) /\ Len(last) = Len(dom) /\ Invalid \in Int
  BY DEF DomTypes, Invalid
<1>6. Len(dom) \in Nat
  BY <1>5, LenProperties
<1>7. /\ dom' \in Seq(DomainType) /\ Len(dom') = Len(dom) + 1 /\ dom'[Len(dom) + 1] = e
      /\ \A n \in 1 .. Len(dom) : dom'[n] = dom[n]
  BY <1>1, <1>3, <1>5, AppendProperties
<1>8. last' \in Seq(Int) /\ Len(last') = Len(dom) + 1
  BY <1>5, AppendProperties
<1>9. ASSUME NEW n \in 1 .. Len(dom)
      PROVE  DomainFine(dom[n]) /\ Len(dom[n].segs) \in Nat /\ Total(dom[n]) \in Nat
  BY DomainSegments, TotalNat DEF DomTypes
<1>10. DomTypes'
  <2>1. \A n \in 1 .. (Len(dom) + 1) : n \in 1 .. Len(dom) \/ n = Len(dom) + 1
    BY <1>6
  <2> QED
    BY <2>1, <1>4, <1>7, <1>8, <1>9 DEF DomTypes
<1>11. Grown
  BY <1>6, <1>7, <1>9 DEF Grown
<1>12. \A n \in 1 .. Len(dom) : StillAt(n)
  BY <1>7, <1>9 DEF StillAt
<1> QED
  BY <1>1, <1>7, <1>10, <1>11, <1>12

LEMMA DomAppend ==
  ASSUME DomTypes, NEW n \in 1 .. Len(dom), NEW x \in SegType, x.begin <= x.end,
         x.begin .. x.end \subseteq Ctxs, last' = last,
         dom' = [dom EXCEPT ![n].segs = Append(dom[n].segs, x)]
  PROVE  /\ DomTypes' /\ Grown /\ \A k \in 1 .. Len(dom) : StillAt(k)
         /\ Len(dom') = Len(dom)
         /\ Len(dom'[n].segs) = Len(dom[n].segs) + 1 /\ dom'[n].segs[Len(dom[n].segs) + 1] = x
         /\ \A k \in 1 .. Len(dom) : dom'[k].valid = dom[k].valid
<1>1. PICK e : e = [dom[n] EXCEPT !.segs = Append(dom[n].segs, x)]
  OBVIOUS
<1>2. DomainFine(dom[n])
  BY DEF DomTypes
<1>3. /\ DomainFine(e) /\ e.key = dom[n].key /\ e.valid = dom[n].valid
      /\ Len(e.segs) = Len(dom[n].segs) + 1 /\ e.segs[Len(dom[n].segs) + 1] = x
      /\ \A i \in 1 .. Len(dom[n].segs) : e.segs[i] = dom[n].segs[i]
      /\ At(e) = At(dom[n]) /\ Total(dom[n]) <= Total(e)
  BY SMTT(30), <1>1, <1>2, AppendedFine
<1>4. dom' = [dom EXCEPT ![n] = e]
  BY <1>1
<1>5. Len(dom[n].segs) <= Len(e.segs)
  BY <1>2, <1>3, DomainSegments
<1>6. last' \in Seq(Int) /\ Len(last') = Len(last)
  BY DEF DomTypes
<1>7. /\ DomTypes' /\ Grown
      /\ \A k \in 1 .. Len(dom) : dom'[k] = IF k = n THEN e ELSE dom[k]
      /\ \A k \in 1 .. Len(dom) : k # n => StillAt(k)
      /\ Len(dom') = Len(dom)
  BY <1>3, <1>4, <1>5, <1>6, DomReplaced
<1>8. StillAt(n)
  BY <1>3, <1>7 DEF StillAt
<1> QED
  BY <1>3, <1>7, <1>8

LEMMA DomValid ==
  ASSUME DomTypes, NEW n \in 1 .. Len(dom), dom[n].segs # <<>>, last' = last,
         dom' = [dom EXCEPT ![n].valid = TRUE]
  PROVE  DomTypes' /\ Grown /\ (\A k \in 1 .. Len(dom) : StillAt(k)) /\ Len(dom') = Len(dom)
<1>1. PICK e : e = [dom[n] EXCEPT !.valid = TRUE]
  OBVIOUS
<1>2. DomainFine(dom[n]) /\ dom[n] \in DomainType
  BY DEF DomTypes, DomainFine
<1>3. /\ e \in DomainType /\ e.key = dom[n].key /\ e.segs = dom[n].segs /\ e.cur = dom[n].cur
      /\ e.pos = dom[n].pos /\ e.valid = TRUE
  BY <1>1, <1>2 DEF DomainType
<1>4. DomainFine(e)
  BY <1>2, <1>3 DEF DomainFine
<1>5. dom' = [dom EXCEPT ![n] = e]
  BY <1>1
<1>6. Len(dom[n].segs) <= Len(e.segs) /\ \A i \in 1 .. Len(dom[n].segs) : e.segs[i] = dom[n].segs[i]
  BY <1>2, <1>3, DomainSegments
<1>7. last' \in Seq(Int) /\ Len(last') = Len(last)
  BY DEF DomTypes
<1>8. /\ DomTypes' /\ Grown
      /\ \A k \in 1 .. Len(dom) : dom'[k] = IF k = n THEN e ELSE dom[k]
      /\ \A k \in 1 .. Len(dom) : k # n => StillAt(k)
      /\ Len(dom') = Len(dom)
  BY <1>3, <1>4, <1>5, <1>6, <1>7, DomReplaced
<1>9. StillAt(n)
  BY <1>2, <1>3, <1>8, TotalNat DEF StillAt, At, Total
<1> QED
  BY <1>8, <1>9

-----------------------------------------------------------------------------
\* Lookup, and the threads that file contexts.

LEMMA MaxOf ==
  ASSUME NEW n \in Nat, NEW S \in SUBSET (1 .. n), S # {}
  PROVE  Max(S) \in S
<1> DEFINE T == {n - x : x \in S}
<1>1. T \in SUBSET Nat /\ T # {}
  <2>1. \A x \in S : n - x \in Nat
    OBVIOUS
  <2>2. PICK x \in S : TRUE
    OBVIOUS
  <2>3. n - x \in T
    OBVIOUS
  <2> QED
    BY <2>1, <2>3
<1>2. PICK m \in T : \A y \in T : m <= y
  <2> HIDE DEF T
  <2> QED
    BY <1>1, LeastNat
<1>3. PICK x \in S : m = n - x
  BY <1>2
<1>4. ASSUME NEW y \in S PROVE x >= y
  <2>1. n - y \in T
    OBVIOUS
  <2>2. n - x <= n - y
    BY <2>1, <1>2, <1>3
  <2>3. x \in Int /\ y \in Int
    BY <1>3
  <2> QED
    BY <2>2, <2>3
<1>5. \E z \in S : \A y \in S : z >= y
  BY <1>3, <1>4
<1> QED
  BY <1>5 DEF Max

LEMMA LookupFound ==
  ASSUME DomTypes, NEW k
  PROVE  /\ Lookup(k) \in Nat
         /\ Lookup(k) = 0 => \A n \in 1 .. Len(dom) : dom[n].key # k
         /\ Lookup(k) # 0 => Lookup(k) \in 1 .. Len(dom) /\ dom[Lookup(k)].key = k
<1> DEFINE found == {n \in 1 .. Len(dom) : dom[n].key = k}
<1>1. PICK l \in Nat : l = Len(dom)
  BY LenProperties DEF DomTypes
<1>2. found \in SUBSET (1 .. l)
  BY <1>1
<1>3. CASE found = {}
  <2>1. Lookup(k) = 0
    BY <1>3 DEF Lookup
  <2> QED
    BY <2>1, <1>3
<1>4. CASE found # {}
  <2>1. Lookup(k) = Max(found)
    BY <1>4 DEF Lookup
  <2>2. Max(found) \in found
    <3> HIDE DEF found
    <3> QED
      BY <1>2, <1>4, MaxOf
  <2>3. Lookup(k) \in found
    BY <2>1, <2>2
  <2>4. Lookup(k) \in 1 .. l /\ dom[Lookup(k)].key = k
    BY <2>3, <1>1
  <2>5. Lookup(k) \in Nat /\ Lookup(k) # 0
    BY <2>4
  <2> QED
    BY <2>4, <2>5, <1>1
<1> QED
  BY <1>3, <1>4

LEMMA LookupOnly ==
  ASSUME DomTypes, OneDomain, NEW n \in 1 .. Len(dom)
  PROVE  Lookup(dom[n].key) = n
<1>1. PICK k : k = dom[n].key
  OBVIOUS
<1>2. Lookup(k) # 0
  BY <1>1, LookupFound
<1>3. Lookup(k) \in 1 .. Len(dom) /\ dom[Lookup(k)].key = k
  BY <1>2, LookupFound
<1> QED
  BY <1>1, <1>3 DEF OneDomain

CallFine(c) == /\ c.key \in Keys /\ c.begin \in Nat /\ c.end \in Nat
               /\ c.begin .. c.end \subseteq Ctxs

LEMMA CallTyped ==
  ASSUME NEW t \in Callers
  PROVE  /\ Len(Calls[t]) \in Nat /\ DOMAIN Calls[t] = 1 .. Len(Calls[t])
         /\ \A i \in 1 .. Len(Calls[t]) : CallFine(Calls[t][i])
<1> DEFINE C == [key : Keys, begin : Nat, end : Nat]
<1>1. Calls[t] \in Seq(C)
  BY CallAssumption
<1>2. Len(Calls[t]) \in Nat /\ DOMAIN Calls[t] = 1 .. Len(Calls[t])
  BY <1>1, LenProperties
<1>3. \A i \in 1 .. Len(Calls[t]) : Calls[t][i] \in C
  BY <1>1, ElementOfSeq
<1>4. \A i \in 1 .. Len(Calls[t]) : Calls[t][i].begin .. Calls[t][i].end \subseteq Ctxs
  BY <1>2, CallAssumption
<1> QED
  BY <1>2, <1>3, <1>4 DEF CallFine

LEMMA CurrentTyped ==
  ASSUME InstTypes, NEW t \in Callers, call[t] <= Len(Calls[t])
  PROVE  /\ CallFine(Current(t)) /\ call[t] \in 1 .. Len(Calls[t])
         /\ call[t] \in DOMAIN Calls[t]
<1>1. call[t] \in Nat \ {0} /\ Len(Calls[t]) \in Nat
  BY CallTyped DEF InstTypes
<1>2. call[t] \in 1 .. Len(Calls[t])
  BY <1>1
<1> QED
  BY <1>2, CallTyped DEF Current

\* Growing domains keep what was filed.
LEMMA FiledKept ==
  ASSUME DomTypes, DomTypes', Grown, NEW c, NEW n \in 1 .. Len(dom), HasSegment(n, c)
  PROVE  n \in 1 .. Len(dom') /\ dom'[n].key = dom[n].key /\ HasSegment(n, c)'
<1>1. Len(dom) \in Nat /\ Len(dom') \in Nat
  BY LenProperties DEF DomTypes
<1>2. n \in 1 .. Len(dom')
  BY <1>1 DEF Grown
<1>3. /\ dom'[n].key = dom[n].key /\ Len(dom[n].segs) <= Len(dom'[n].segs)
      /\ \A i \in 1 .. Len(dom[n].segs) : dom'[n].segs[i] = dom[n].segs[i]
  BY DEF Grown
<1>4. PICK i \in 1 .. Len(dom[n].segs) : dom[n].segs[i] = [begin |-> c.begin, end |-> c.end]
  BY DEF HasSegment
<1>5. DomainFine(dom[n]) /\ DomainFine(dom'[n])
  BY <1>2 DEF DomTypes
<1>6. Len(dom[n].segs) \in Nat /\ Len(dom'[n].segs) \in Nat
  BY <1>5, DomainSegments
<1>7. i \in 1 .. Len(dom'[n].segs)
  BY <1>3, <1>6
<1> QED
  BY <1>2, <1>3, <1>4, <1>7 DEF HasSegment

LEMMA CallsKept ==
  ASSUME DomTypes, DomTypes', Grown, NEW c, IsFiled(c)
  PROVE  IsFiled(c)'
BY FiledKept DEF IsFiled

LEMMA InstHasKept ==
  ASSUME DomTypes, DomTypes', Grown, NEW t \in Callers, InstHasOf(t),
         ipc'[t] = ipc[t], call'[t] = call[t], target'[t] = target[t]
  PROVE  InstHasOf(t)'
<1>1. Current(t)' = Current(t)
  BY DEF Current
<1>2. ASSUME ipc[t] \in {"append", "valid"}
      PROVE  target[t] \in 1 .. Len(dom') /\ dom'[target[t]].key = Current(t).key
  <2>1. target[t] \in 1 .. Len(dom) /\ dom[target[t]].key = Current(t).key
    BY <1>2 DEF InstHasOf
  <2>2. Len(dom) \in Nat /\ Len(dom') \in Nat /\ Len(dom) <= Len(dom')
    BY LenProperties DEF DomTypes, Grown
  <2>3. target[t] \in 1 .. Len(dom')
    BY <2>1, <2>2
  <2> QED
    BY <2>1, <2>3 DEF Grown
<1>3. ASSUME ipc[t] = "valid" PROVE HasSegment(target[t], Current(t))'
  <2>1. target[t] \in 1 .. Len(dom) /\ HasSegment(target[t], Current(t))
    BY <1>3 DEF InstHasOf
  <2>2. PICK n \in 1 .. Len(dom) : n = target[t]
    BY <2>1
  <2>3. PICK c : c = Current(t)
    OBVIOUS
  <2>4. HasSegment(n, c)'
    BY <2>1, <2>2, <2>3, FiledKept
  <2> QED
    BY <2>2, <2>3, <2>4, <1>1 DEF HasSegment
<1>4. ASSUME NEW i \in 1 .. call[t] - 1, Calls[t][i].begin <= Calls[t][i].end
      PROVE  IsFiled(Calls[t][i])'
  <2>1. IsFiled(Calls[t][i])
    BY <1>4 DEF InstHasOf
  <2> QED
    BY <2>1, CallsKept
<1> QED
  BY <1>1, <1>2, <1>3, <1>4 DEF InstHasOf

LEMMA InstKept ==
  ASSUME DomTypes, DomTypes', Grown, InstTypes, InstHas, UNCHANGED instVars
  PROVE  InstTypes' /\ InstHas'
<1>1. ipc' = ipc /\ call' = call /\ target' = target
  BY DEF instVars
<1>2. InstTypes'
  BY <1>1 DEF InstTypes
<1>3. ASSUME NEW t \in Callers PROVE InstHasOf(t)'
  BY <1>1, InstHasKept DEF InstHas
<1> QED
  BY <1>2, <1>3 DEF InstHas

\* A step of a thread in wd_sched_rr_instance.
InstKeeps == /\ DomTypes' /\ Grown /\ \A n \in 1 .. Len(dom) : StillAt(n)
             /\ InstTypes' /\ InstHas'

\* A thread steps: the others are as they were.
LEMMA InstOthers ==
  ASSUME DomTypes, DomTypes', Grown, InstHas, NEW t \in Callers, InstHasOf(t)',
         \A u \in Callers : u # t => ipc'[u] = ipc[u] /\ call'[u] = call[u] /\ target'[u] = target[u]
  PROVE  InstHas'
<1>1. ASSUME NEW u \in Callers, u # t PROVE InstHasOf(u)'
  BY <1>1, InstHasKept DEF InstHas
<1> QED
  BY <1>1 DEF InstHas

LEMMA InstRefusedInv ==
  ASSUME DomTypes, InstTypes, InstHas, NEW t \in Callers, InstanceRefused(t)
  PROVE  InstKeeps
<1>1. /\ ipc[t] = "lookup" /\ call[t] <= Len(Calls[t]) /\ ~(Current(t).begin <= Current(t).end)
      /\ call' = [call EXCEPT ![t] = call[t] + 1] /\ dom' = dom /\ last' = last
      /\ ipc' = ipc /\ target' = target
  <2>1. call[t] <= Len(Calls[t]) /\ Current(t).begin > Current(t).end
    BY DEF InstanceRefused
  <2>2. CallFine(Current(t))
    BY <2>1, CurrentTyped
  <2>3. ~(Current(t).begin <= Current(t).end)
    BY <2>1, <2>2 DEF CallFine
  <2> QED
    BY <2>1, <2>3 DEF InstanceRefused, domVars
<1>2. DomTypes' /\ Grown /\ \A n \in 1 .. Len(dom) : StillAt(n)
  BY <1>1, DomSame
<1>3. call[t] \in Nat \ {0} /\ Len(Calls[t]) \in Nat
  BY CallTyped DEF InstTypes
<1>4. InstTypes'
  <2>1. call' \in [Callers -> Nat \ {0}]
    BY <1>1, <1>3 DEF InstTypes
  <2>2. ASSUME NEW u \in Callers
        PROVE  call'[u] <= Len(Calls[u]) + 1 /\ (ipc'[u] # "lookup" => call'[u] <= Len(Calls[u]))
    <3>1. CASE u = t
      BY <3>1, <1>1, <1>3 DEF InstTypes
    <3>2. CASE u # t
      BY <3>2, <1>1 DEF InstTypes
    <3> QED
      BY <3>1, <3>2
  <2> QED
    BY <2>1, <2>2, <1>1 DEF InstTypes
<1>5. InstHasOf(t)'
  <2>1. call'[t] = call[t] + 1
    BY <1>1 DEF InstTypes
  <2>2. ASSUME NEW i \in 1 .. call'[t] - 1, Calls[t][i].begin <= Calls[t][i].end
        PROVE  IsFiled(Calls[t][i])'
    <3>1. i \in 1 .. call[t] - 1 \/ i = call[t]
      BY <2>1, <1>3
    <3>2. i # call[t]
      BY <2>2, <1>1 DEF Current
    <3>3. IsFiled(Calls[t][i])
      BY <2>2, <3>1, <3>2 DEF InstHas, InstHasOf
    <3> QED
      BY <3>3, <1>2, CallsKept
  <2> QED
    BY <2>2, <1>1 DEF InstHasOf
<1>6. \A u \in Callers : u # t => ipc'[u] = ipc[u] /\ call'[u] = call[u] /\ target'[u] = target[u]
  BY <1>1 DEF InstTypes
<1>7. InstHas'
  BY <1>2, <1>5, <1>6, InstOthers
<1> QED
  BY <1>2, <1>4, <1>7 DEF InstKeeps

LEMMA InstLookupInv ==
  ASSUME DomTypes, InstTypes, InstHas, NEW t \in Callers, InstanceLookup(t)
  PROVE  /\ InstKeeps
         /\ ipc'[t] = "insert" => \A n \in 1 .. Len(dom) : dom[n].key # Current(t).key
<1>1. PICK n : n = Lookup(Current(t).key)
  OBVIOUS
<1>2. /\ ipc[t] = "lookup" /\ call[t] <= Len(Calls[t]) /\ Current(t).begin <= Current(t).end
      /\ target' = [target EXCEPT ![t] = n]
      /\ ipc' = [ipc EXCEPT ![t] = IF n = 0 THEN "insert" ELSE "append"]
      /\ dom' = dom /\ last' = last /\ call' = call
  BY <1>1 DEF InstanceLookup, InstGoto, domVars
<1>3. /\ n \in Nat /\ (n = 0 => \A k \in 1 .. Len(dom) : dom[k].key # Current(t).key)
      /\ n # 0 => (n \in 1 .. Len(dom) /\ dom[n].key = Current(t).key)
  BY <1>1, LookupFound
<1>4. DomTypes' /\ Grown /\ \A k \in 1 .. Len(dom) : StillAt(k)
  BY <1>2, DomSame
<1>5. ipc'[t] = (IF n = 0 THEN "insert" ELSE "append") /\ target'[t] = n /\ call'[t] = call[t]
  BY <1>2 DEF InstTypes
<1>6. InstTypes'
  BY <1>2, <1>3 DEF InstTypes, InstPoints
<1>7. InstHasOf(t)'
  <2>1. Current(t)' = Current(t)
    BY <1>5 DEF Current
  <2>2. ASSUME NEW i \in 1 .. call[t] - 1, Calls[t][i].begin <= Calls[t][i].end
        PROVE  IsFiled(Calls[t][i])'
    <3>1. IsFiled(Calls[t][i])
      BY <2>2 DEF InstHas, InstHasOf
    <3> QED
      BY <3>1, <1>4, CallsKept
  <2> QED
    BY <2>1, <2>2, <1>2, <1>3, <1>5 DEF InstHasOf
<1>8. \A u \in Callers : u # t => ipc'[u] = ipc[u] /\ call'[u] = call[u] /\ target'[u] = target[u]
  BY <1>2 DEF InstTypes
<1>9. InstHas'
  BY <1>4, <1>7, <1>8, InstOthers
<1> QED
  BY <1>3, <1>4, <1>5, <1>6, <1>9 DEF InstKeeps

LEMMA InstInsertInv ==
  ASSUME DomTypes, InstTypes, InstHas, NEW t \in Callers, InstanceInsert(t)
  PROVE  /\ InstKeeps /\ Len(dom') = Len(dom) + 1 /\ dom'[Len(dom) + 1].key = Current(t).key
         /\ \A n \in 1 .. Len(dom) : dom'[n] = dom[n]
         /\ ipc[t] = "insert" /\ ipc'[t] = "append"
<1>0. Len(dom) \in Nat
  BY LenProperties DEF DomTypes
<1>1. PICK n \in Nat \ {0} : n = Len(dom) + 1
  BY <1>0
<1>2. /\ ipc[t] = "insert" /\ target' = [target EXCEPT ![t] = n]
      /\ ipc' = [ipc EXCEPT ![t] = "append"] /\ call' = call
      /\ dom' = Append(dom, NewDomain(Current(t).key)) /\ last' = Append(last, Invalid)
  BY <1>1 DEF InstanceInsert, InstGoto
<1>3. call[t] <= Len(Calls[t]) /\ Current(t).begin <= Current(t).end
  BY <1>2 DEF InstTypes, InstHas, InstHasOf
<1>4. PICK k \in Keys : k = Current(t).key
  BY <1>3, CurrentTyped DEF CallFine
<1>5. /\ DomTypes' /\ Grown /\ \A i \in 1 .. Len(dom) : StillAt(i) /\ dom'[i] = dom[i]
      /\ Len(dom') = Len(dom) + 1 /\ dom'[Len(dom) + 1] = NewDomain(k)
  BY <1>2, <1>4, DomInsert
<1>6. dom'[n].key = k
  BY <1>1, <1>5 DEF NewDomain
<1>7. ipc'[t] = "append" /\ target'[t] = n /\ call'[t] = call[t]
  BY <1>2 DEF InstTypes
<1>8. InstTypes'
  <2>1. target' \in [Callers -> Nat] /\ ipc' \in [Callers -> InstPoints]
    BY <1>2 DEF InstTypes, InstPoints
  <2> QED
    BY <2>1, <1>2 DEF InstTypes
<1>9. InstHasOf(t)'
  <2>1. Current(t)' = Current(t)
    BY <1>7 DEF Current
  <2>2. ASSUME NEW i \in 1 .. call[t] - 1, Calls[t][i].begin <= Calls[t][i].end
        PROVE  IsFiled(Calls[t][i])'
    <3>1. IsFiled(Calls[t][i])
      BY <2>2 DEF InstHas, InstHasOf
    <3> QED
      BY <3>1, <1>5, CallsKept
  <2>3. n \in 1 .. Len(dom')
    BY <1>0, <1>1, <1>5
  <2> QED
    BY <2>1, <2>2, <2>3, <1>3, <1>4, <1>6, <1>7 DEF InstHasOf
<1>10. \A u \in Callers : u # t => ipc'[u] = ipc[u] /\ call'[u] = call[u] /\ target'[u] = target[u]
  BY <1>2 DEF InstTypes
<1>11. InstHas'
  BY <1>5, <1>9, <1>10, InstOthers
<1> QED
  BY <1>1, <1>2, <1>4, <1>5, <1>6, <1>7, <1>8, <1>11 DEF InstKeeps

LEMMA InstAppendInv ==
  ASSUME DomTypes, InstTypes, InstHas, NEW t \in Callers, InstanceAppend(t)
  PROVE  InstKeeps /\ Len(dom') = Len(dom) /\ ipc'[t] = "valid"
<1>1. PICK n : n = target[t]
  OBVIOUS
<1>2. PICK x : x = [begin |-> Current(t).begin, end |-> Current(t).end]
  OBVIOUS
<1>3. /\ ipc[t] = "append" /\ dom' = [dom EXCEPT ![n].segs = Append(dom[n].segs, x)]
      /\ ipc' = [ipc EXCEPT ![t] = "valid"] /\ last' = last /\ call' = call /\ target' = target
  BY <1>1, <1>2 DEF InstanceAppend, InstGoto
<1>4. /\ call[t] <= Len(Calls[t]) /\ Current(t).begin <= Current(t).end
      /\ n \in 1 .. Len(dom) /\ dom[n].key = Current(t).key
  BY <1>1, <1>3 DEF InstTypes, InstHas, InstHasOf
<1>5. CallFine(Current(t))
  BY <1>4, CurrentTyped
<1>6. x \in SegType /\ x.begin <= x.end /\ x.begin .. x.end \subseteq Ctxs
  BY <1>2, <1>4, <1>5 DEF CallFine, SegType
<1>7. /\ DomTypes' /\ Grown /\ (\A k \in 1 .. Len(dom) : StillAt(k))
      /\ Len(dom') = Len(dom)
      /\ Len(dom'[n].segs) = Len(dom[n].segs) + 1 /\ dom'[n].segs[Len(dom[n].segs) + 1] = x
  BY <1>3, <1>4, <1>6, DomAppend
<1>8. ipc'[t] = "valid" /\ target'[t] = n /\ call'[t] = call[t]
  BY <1>1, <1>3 DEF InstTypes
<1>9. InstTypes'
  <2>1. ipc' \in [Callers -> InstPoints]
    BY <1>3 DEF InstTypes, InstPoints
  <2>2. \A u \in Callers : ipc'[u] # "lookup" => ipc[u] # "lookup"
    BY <1>3 DEF InstTypes
  <2> QED
    BY <2>1, <2>2, <1>3 DEF InstTypes
<1>10. InstHasOf(t)'
  <2>1. Current(t)' = Current(t)
    BY <1>8 DEF Current
  <2>2. ASSUME NEW i \in 1 .. call[t] - 1, Calls[t][i].begin <= Calls[t][i].end
        PROVE  IsFiled(Calls[t][i])'
    <3>1. IsFiled(Calls[t][i])
      BY <2>2 DEF InstHas, InstHasOf
    <3> QED
      BY <3>1, <1>7, CallsKept
  <2>3. n \in 1 .. Len(dom') /\ dom'[n].key = Current(t).key
    BY <1>4, <1>7 DEF Grown
  <2>4. \E i \in 1 .. Len(dom'[n].segs) : dom'[n].segs[i] = x
    <3>1. Len(dom[n].segs) \in Nat
      BY <1>4, DomainSegments DEF DomTypes
    <3>2. Len(dom[n].segs) + 1 \in 1 .. Len(dom'[n].segs)
      BY <3>1, <1>7
    <3> QED
      BY <3>2, <1>7
  <2>5. HasSegment(target[t], Current(t))'
    BY <2>1, <2>4, <1>2, <1>8 DEF HasSegment
  <2> QED
    BY <2>1, <2>2, <2>3, <2>5, <1>4, <1>8 DEF InstHasOf
<1>11. \A u \in Callers : u # t => ipc'[u] = ipc[u] /\ call'[u] = call[u] /\ target'[u] = target[u]
  BY <1>3 DEF InstTypes
<1>12. InstHas'
  BY <1>7, <1>10, <1>11, InstOthers
<1> QED
  BY <1>7, <1>8, <1>9, <1>12 DEF InstKeeps

LEMMA InstValidInv ==
  ASSUME DomTypes, InstTypes, InstHas, NEW t \in Callers, InstanceValid(t)
  PROVE  InstKeeps /\ Len(dom') = Len(dom) /\ ipc'[t] = "lookup"
<1>1. PICK n : n = target[t]
  OBVIOUS
<1>2. /\ ipc[t] = "valid" /\ dom' = [dom EXCEPT ![n].valid = TRUE]
      /\ call' = [call EXCEPT ![t] = call[t] + 1]
      /\ ipc' = [ipc EXCEPT ![t] = "lookup"] /\ last' = last /\ target' = target
  BY <1>1 DEF InstanceValid, InstGoto
<1>3. /\ call[t] <= Len(Calls[t]) /\ n \in 1 .. Len(dom) /\ dom[n].key = Current(t).key
      /\ HasSegment(n, Current(t))
  BY <1>1, <1>2 DEF InstTypes, InstHas, InstHasOf
<1>4. dom[n].segs # <<>>
  BY <1>3, EmptySeq DEF HasSegment
<1>5. DomTypes' /\ Grown /\ (\A k \in 1 .. Len(dom) : StillAt(k)) /\ Len(dom') = Len(dom)
  BY <1>2, <1>3, <1>4, DomValid
<1>6. call[t] \in Nat \ {0} /\ Len(Calls[t]) \in Nat
  BY CallTyped DEF InstTypes
<1>7. ipc'[t] = "lookup" /\ call'[t] = call[t] + 1
  BY <1>2 DEF InstTypes
<1>8. InstTypes'
  <2>1. call' \in [Callers -> Nat \ {0}] /\ ipc' \in [Callers -> InstPoints]
    BY <1>2, <1>6 DEF InstTypes, InstPoints
  <2>2. ASSUME NEW u \in Callers
        PROVE  call'[u] <= Len(Calls[u]) + 1 /\ (ipc'[u] # "lookup" => call'[u] <= Len(Calls[u]))
    <3>1. CASE u = t
      BY <3>1, <1>3, <1>6, <1>7
    <3>2. CASE u # t
      BY <3>2, <1>2 DEF InstTypes
    <3> QED
      BY <3>1, <3>2
  <2> QED
    BY <2>1, <2>2, <1>2 DEF InstTypes
<1>9. InstHasOf(t)'
  <2>1. IsFiled(Calls[t][call[t]])
    BY <1>3 DEF IsFiled, Current
  <2>2. ASSUME NEW i \in 1 .. call'[t] - 1, Calls[t][i].begin <= Calls[t][i].end
        PROVE  IsFiled(Calls[t][i])'
    <3>1. i \in 1 .. call[t] - 1 \/ i = call[t]
      BY <1>6, <1>7
    <3>2. IsFiled(Calls[t][i])
      BY <2>1, <2>2, <3>1 DEF InstHas, InstHasOf
    <3> QED
      BY <3>2, <1>5, CallsKept
  <2> QED
    BY <2>2, <1>7 DEF InstHasOf
<1>10. \A u \in Callers : u # t => ipc'[u] = ipc[u] /\ call'[u] = call[u] /\ target'[u] = target[u]
  BY <1>2 DEF InstTypes
<1>11. InstHas'
  BY <1>5, <1>9, <1>10, InstOthers
<1> QED
  BY <1>5, <1>7, <1>8, <1>11 DEF InstKeeps

\* Keys stay apart.
LEMMA KeysKept ==
  ASSUME DomTypes, OneDomain, Grown, Len(dom') = Len(dom)
  PROVE  OneDomain' /\ \A n \in 1 .. Len(dom') : dom'[n].key = dom[n].key
BY DEF OneDomain, Grown

LEMMA KeyOnceInst ==
  ASSUME KeysApart, DomTypes, InstTypes, InstHas, KeyOnce, NEW t \in Callers, InstanceStep(t)
  PROVE  InstKeeps /\ KeyOnce' /\ UNCHANGED openVars
<1>0. UNCHANGED openVars
  BY DEF InstanceStep, InstanceRefused, InstanceLookup, InstanceInsert,
     InstanceAppend, InstanceValid
<1>1. ASSUME Len(dom') = Len(dom), Grown, NEW u \in Callers, InsertFree(u), ipc'[u] = ipc[u],
             call'[u] = call[u]
      PROVE  InsertFree(u)'
  <2>1. \A n \in 1 .. Len(dom') : dom'[n].key = dom[n].key
    BY <1>1, KeysKept DEF KeyOnce
  <2>2. Current(u)' = Current(u)
    BY <1>1 DEF Current
  <2> QED
    BY <1>1, <2>1, <2>2 DEF InsertFree
<1>2. CASE InstanceRefused(t)
  <2>1. InstKeeps
    BY <1>2, InstRefusedInv
  <2>2. /\ dom' = dom /\ ipc' = ipc /\ ipc[t] = "lookup"
        /\ \A u \in Callers : u # t => call'[u] = call[u]
    BY <1>2 DEF InstanceRefused, domVars, InstTypes
  <2>3. \A u \in Callers : InsertFree(u)'
    <3>1. InsertFree(t)'
      BY <2>2 DEF InsertFree
    <3>2. ASSUME NEW u \in Callers, u # t PROVE InsertFree(u)'
      BY <3>2, <2>1, <2>2, <1>1 DEF KeyOnce, InstKeeps
    <3> QED
      BY <3>1, <3>2
  <2> QED
    BY <2>1, <2>2, <2>3, <1>0, KeysKept DEF KeyOnce, InstKeeps
<1>3. CASE InstanceLookup(t)
  <2>1. InstKeeps /\ (ipc'[t] = "insert" => \A n \in 1 .. Len(dom) : dom[n].key # Current(t).key)
    BY <1>3, InstLookupInv
  <2>2. /\ dom' = dom /\ call' = call
        /\ \A u \in Callers : u # t => ipc'[u] = ipc[u]
    BY <1>3 DEF InstanceLookup, InstGoto, domVars, InstTypes
  <2>3. \A u \in Callers : InsertFree(u)'
    <3>1. InsertFree(t)'
      BY <2>1, <2>2 DEF InsertFree, Current
    <3>2. ASSUME NEW u \in Callers, u # t PROVE InsertFree(u)'
      BY <3>2, <2>1, <2>2, <1>1 DEF KeyOnce, InstKeeps
    <3> QED
      BY <3>1, <3>2
  <2> QED
    BY <2>1, <2>2, <2>3, <1>0, KeysKept DEF KeyOnce, InstKeeps
<1>4. CASE InstanceInsert(t)
  <2>1. /\ InstKeeps /\ Len(dom') = Len(dom) + 1 /\ dom'[Len(dom) + 1].key = Current(t).key
        /\ \A n \in 1 .. Len(dom) : dom'[n] = dom[n]
        /\ ipc[t] = "insert" /\ ipc'[t] = "append"
    BY <1>4, InstInsertInv
  <2>2. call' = call /\ \A u \in Callers : u # t => ipc'[u] = ipc[u]
    BY <1>4 DEF InstanceInsert, InstGoto, InstTypes
  <2>3. PICK l \in Nat : l = Len(dom)
    BY LenProperties DEF DomTypes
  <2>4. \A n \in 1 .. l : dom[n].key # Current(t).key
    BY <2>1, <2>3 DEF KeyOnce, InsertFree
  <2>5. \A n \in 1 .. (l + 1) : n \in 1 .. l \/ n = l + 1
    OBVIOUS
  <2>6. OneDomain'
    <3>1. \A n \in 1 .. l, k \in 1 .. l : dom[n].key = dom[k].key => n = k
      BY <2>3 DEF KeyOnce, OneDomain
    <3> SUFFICES ASSUME NEW n \in 1 .. (l + 1), NEW k \in 1 .. (l + 1), dom'[n].key = dom'[k].key
                 PROVE  n = k
      BY <2>1, <2>3 DEF OneDomain
    <3> QED
      BY <3>1, <2>1, <2>3, <2>4, <2>5
  <2>7. \A u \in Callers : InsertFree(u)'
    <3>1. InsertFree(t)'
      BY <2>1 DEF InsertFree
    <3>2. ASSUME NEW u \in Callers, u # t, ipc[u] = "insert"
          PROVE  \A n \in 1 .. (l + 1) : dom'[n].key # Current(u).key
      <4>1. call[u] \in DOMAIN Calls[u] /\ call[t] \in DOMAIN Calls[t]
        <5>1. call[u] <= Len(Calls[u]) /\ call[t] <= Len(Calls[t])
          BY <3>2, <2>1 DEF InstTypes
        <5> QED
          BY <5>1, CurrentTyped
      <4>2. Current(u).key # Current(t).key
        BY <4>1, <3>2 DEF KeysApart, Current
      <4>3. \A n \in 1 .. l : dom[n].key # Current(u).key
        BY <3>2, <2>3 DEF KeyOnce, InsertFree
      <4> QED
        BY <4>2, <4>3, <2>1, <2>3, <2>5
    <3>3. ASSUME NEW u \in Callers, u # t PROVE InsertFree(u)'
      BY <3>2, <3>3, <2>1, <2>2, <2>3 DEF InsertFree, Current
    <3> QED
      BY <3>1, <3>3
  <2> QED
    BY <2>1, <2>6, <2>7, <1>0 DEF KeyOnce
<1>5. CASE InstanceAppend(t)
  <2>1. InstKeeps /\ Len(dom') = Len(dom) /\ ipc'[t] = "valid"
    BY <1>5, InstAppendInv
  <2>2. call' = call /\ \A u \in Callers : u # t => ipc'[u] = ipc[u]
    BY <1>5 DEF InstanceAppend, InstGoto, InstTypes
  <2>3. \A u \in Callers : InsertFree(u)'
    <3>1. InsertFree(t)'
      BY <2>1 DEF InsertFree
    <3>2. ASSUME NEW u \in Callers, u # t PROVE InsertFree(u)'
      BY <3>2, <2>1, <2>2, <1>1 DEF KeyOnce, InstKeeps
    <3> QED
      BY <3>1, <3>2
  <2> QED
    BY <2>1, <2>3, <1>0, KeysKept DEF KeyOnce, InstKeeps
<1>6. CASE InstanceValid(t)
  <2>1. InstKeeps /\ Len(dom') = Len(dom) /\ ipc'[t] = "lookup"
    BY <1>6, InstValidInv
  <2>2. \A u \in Callers : u # t => ipc'[u] = ipc[u] /\ call'[u] = call[u]
    BY <1>6 DEF InstanceValid, InstGoto, InstTypes
  <2>3. \A u \in Callers : InsertFree(u)'
    <3>1. InsertFree(t)'
      BY <2>1 DEF InsertFree
    <3>2. ASSUME NEW u \in Callers, u # t PROVE InsertFree(u)'
      BY <3>2, <2>1, <2>2, <1>1 DEF KeyOnce, InstKeeps
    <3> QED
      BY <3>1, <3>2
  <2> QED
    BY <2>1, <2>3, <1>0, KeysKept DEF KeyOnce, InstKeeps
<1> QED
  BY <1>2, <1>3, <1>4, <1>5, <1>6 DEF InstanceStep

\* Without the hypothesis on the keys.
LEMMA InstInv ==
  ASSUME DomTypes, InstTypes, InstHas, NEW t \in Callers, InstanceStep(t)
  PROVE  InstKeeps /\ UNCHANGED openVars
<1>0. UNCHANGED openVars
  BY DEF InstanceStep, InstanceRefused, InstanceLookup, InstanceInsert,
     InstanceAppend, InstanceValid
<1>1. InstKeeps
  BY InstRefusedInv, InstLookupInv, InstInsertInv, InstAppendInv,
     InstValidInv DEF InstanceStep
<1> QED
  BY <1>0, <1>1

-----------------------------------------------------------------------------
\* The threads that create sessions.

LEMMA ModesAre ==
  /\ Len(Modes) = 2 /\ Modes[1] = "sync" /\ Modes[2] = "async" /\ Range(Modes) = ModeSet
  /\ \A k \in 1 .. 2 : Modes[k] \in ModeSet
<1>1. Len(Modes) = 2 /\ Modes[1] = "sync" /\ Modes[2] = "async" /\ DOMAIN Modes = 1 .. 2
  BY DEF Modes
<1>2. \A k \in 1 .. 2 : k = 1 \/ k = 2
  OBVIOUS
<1>3. Range(Modes) = ModeSet
  <2>1. Range(Modes) = {Modes[k] : k \in 1 .. 2}
    BY <1>1 DEF Range
  <2>2. 1 \in 1 .. 2 /\ 2 \in 1 .. 2
    OBVIOUS
  <2> QED
    BY <2>1, <2>2, <1>1, <1>2 DEF ModeSet
<1> QED
  BY <1>1, <1>2, <1>3 DEF ModeSet

LEMMA LocFields ==
  ASSUME NEW l \in LocType
  PROVE  l.p \in 1 .. Len(Props) /\ l.m \in 1 .. 2 /\ l.d \in Nat /\ l.i \in Nat
BY DEF LocType

LEMMA LocalsFields ==
  ASSUME NEW p \in 1 .. Len(Props), NEW m \in 1 .. 2, NEW d \in Nat, NEW i \in Nat
  PROVE  /\ Locals(p, m, d, i) \in LocType
         /\ Locals(p, m, d, i).p = p /\ Locals(p, m, d, i).m = m
         /\ Locals(p, m, d, i).d = d /\ Locals(p, m, d, i).i = i
BY DEF LocType, Locals

\* The locals and the control point of a thread are set.
LEMMA LocSet ==
  ASSUME OpenTypes, NEW t \in Openers, NEW p \in 1 .. Len(Props), NEW m \in 1 .. 2, NEW d \in Nat,
         NEW i \in Nat, SetLocals(t, Locals(p, m, d, i))
  PROVE  /\ loc' \in [Openers -> LocType]
         /\ loc'[t].p = p /\ loc'[t].m = m /\ loc'[t].d = d /\ loc'[t].i = i
         /\ \A u \in Openers : u # t => loc'[u] = loc[u]
<1>1. PICK l \in LocType : /\ l = Locals(p, m, d, i) /\ l.p = p /\ l.m = m /\ l.d = d /\ l.i = i
  BY LocalsFields
<1>2. loc' = [loc EXCEPT ![t] = l] /\ loc \in [Openers -> LocType]
  BY <1>1 DEF SetLocals, OpenTypes
<1>3. /\ loc' \in [Openers -> LocType] /\ loc'[t] = l
      /\ \A u \in Openers : u # t => loc'[u] = loc[u]
  BY <1>2
<1> QED
  BY <1>1, <1>3

LEMMA OpcSet ==
  ASSUME OpenTypes, NEW t \in Openers, NEW l \in OpenPoints, OpenGoto(t, l)
  PROVE  /\ opc' \in [Openers -> OpenPoints] /\ opc'[t] = l
         /\ \A u \in Openers : u # t => opc'[u] = opc[u]
BY DEF OpenGoto, OpenTypes

LEMMA Counting ==
  ASSUME NEW t \in Openers, OpenTypes
  PROVE  /\ loc[t].p \in 1 .. Len(Props) /\ loc[t].m \in 1 .. 2 /\ loc[t].d \in Nat /\ loc[t].i \in Nat
         /\ 1 \in 1 .. Len(Props) /\ Mode(t) \in ModeSet
         /\ loc[t].p < Len(Props) => loc[t].p + 1 \in 1 .. Len(Props)
         /\ Mode(t) = IF loc[t].m = 1 THEN "sync" ELSE "async"
<1>1. loc[t] \in LocType
  BY DEF OpenTypes
<1>2. loc[t].p \in 1 .. Len(Props) /\ loc[t].m \in 1 .. 2 /\ loc[t].d \in Nat /\ loc[t].i \in Nat
  BY <1>1, LocFields
<1>3. Len(Props) \in Nat \ {0}
  BY PropAssumption
<1>4. 1 \in 1 .. Len(Props) /\ (loc[t].p < Len(Props) => loc[t].p + 1 \in 1 .. Len(Props))
  BY <1>2, <1>3
<1>5. loc[t].m = 1 \/ loc[t].m = 2
  BY <1>2
<1>6. Mode(t) \in ModeSet /\ Mode(t) = IF loc[t].m = 1 THEN "sync" ELSE "async"
  BY <1>5, ModesAre DEF Mode, ModeSet
<1> QED
  BY <1>2, <1>4, <1>6

LEMMA AfterModeSets ==
  ASSUME OpenTypes, NEW t \in Openers, AfterMode(t)
  PROVE  /\ opc' \in [Openers -> OpenPoints] /\ opc'[t] \in {"lookup", "opened"}
         /\ loc' \in [Openers -> LocType]
         /\ opc'[t] = "opened" => loc'[t].p = 1 /\ loc'[t].m = 1
         /\ \A u \in Openers : u # t => opc'[u] = opc[u] /\ loc'[u] = loc[u]
<1>1. /\ loc[t].p \in 1 .. Len(Props) /\ loc[t].m \in 1 .. 2 /\ 1 \in 1 .. Len(Props)
      /\ loc[t].p < Len(Props) => loc[t].p + 1 \in 1 .. Len(Props)
  BY Counting
<1>2. Len(Modes) = 2 /\ 0 \in Nat /\ 1 \in 1 .. 2
  BY ModesAre
<1>3. "lookup" \in OpenPoints /\ "opened" \in OpenPoints
  BY DEF OpenPoints
<1>4. CASE loc[t].m < 2
  <2>1. OpenGoto(t, "lookup") /\ SetLocals(t, Locals(loc[t].p, loc[t].m + 1, 0, 0))
    BY <1>2, <1>4 DEF AfterMode
  <2>2. loc[t].m + 1 \in 1 .. 2
    BY <1>1, <1>4
  <2>3. /\ opc' \in [Openers -> OpenPoints] /\ opc'[t] = "lookup"
        /\ \A u \in Openers : u # t => opc'[u] = opc[u]
    BY <2>1, <1>3, OpcSet
  <2>4. loc' \in [Openers -> LocType] /\ \A u \in Openers : u # t => loc'[u] = loc[u]
    BY <2>1, <2>2, <1>1, <1>2, LocSet
  <2> QED
    BY <2>3, <2>4
<1>5. CASE ~(loc[t].m < 2) /\ policy = "loop" /\ loc[t].p < Len(Props)
  <2>1. OpenGoto(t, "lookup") /\ SetLocals(t, Locals(loc[t].p + 1, 1, 0, 0))
    BY <1>2, <1>5 DEF AfterMode
  <2>2. /\ opc' \in [Openers -> OpenPoints] /\ opc'[t] = "lookup"
        /\ \A u \in Openers : u # t => opc'[u] = opc[u]
    BY <2>1, <1>3, OpcSet
  <2>3. loc' \in [Openers -> LocType] /\ \A u \in Openers : u # t => loc'[u] = loc[u]
    BY <2>1, <1>1, <1>2, <1>5, LocSet
  <2> QED
    BY <2>2, <2>3
<1>6. CASE ~(loc[t].m < 2) /\ ~(policy = "loop" /\ loc[t].p < Len(Props))
  <2>1. OpenGoto(t, "opened") /\ SetLocals(t, Locals(1, 1, 0, 0))
    BY <1>2, <1>6 DEF AfterMode, NoLocals
  <2>2. /\ opc' \in [Openers -> OpenPoints] /\ opc'[t] = "opened"
        /\ \A u \in Openers : u # t => opc'[u] = opc[u]
    BY <2>1, <1>3, OpcSet
  <2>3. /\ loc' \in [Openers -> LocType] /\ loc'[t].p = 1 /\ loc'[t].m = 1
        /\ \A u \in Openers : u # t => loc'[u] = loc[u]
    BY <2>1, <1>1, <1>2, LocSet, SMTT(60)
  <2> QED
    BY <2>2, <2>3
<1> QED
  BY <1>4, <1>5, <1>6

LEMMA AfterFilterSets ==
  ASSUME OpenTypes, NEW t \in Openers, AfterFilter(t)
  PROVE  /\ opc' \in [Openers -> OpenPoints] /\ loc' \in [Openers -> LocType]
         /\ loc[t].m = 1 => opc'[t] = "filter" /\ loc'[t].p = 1 /\ loc'[t].m = 2
         /\ loc[t].m # 1 => opc'[t] = "open"
         /\ \A u \in Openers : u # t => opc'[u] = opc[u] /\ loc'[u] = loc[u]
<1>1. loc[t].m \in 1 .. 2 /\ 1 \in 1 .. Len(Props)
  BY Counting
<1>2. Len(Modes) = 2 /\ 0 \in Nat /\ 1 \in 1 .. 2 /\ 2 \in 1 .. 2
  BY ModesAre
<1>3. "filter" \in OpenPoints /\ "open" \in OpenPoints
  BY DEF OpenPoints
<1>4. CASE loc[t].m = 1
  <2>1. OpenGoto(t, "filter") /\ SetLocals(t, Locals(1, 2, 0, 0))
    BY <1>2, <1>4 DEF AfterFilter
  <2>2. /\ opc' \in [Openers -> OpenPoints] /\ opc'[t] = "filter"
        /\ \A u \in Openers : u # t => opc'[u] = opc[u]
    BY <2>1, <1>3, OpcSet
  <2>3. /\ loc' \in [Openers -> LocType] /\ loc'[t].p = 1 /\ loc'[t].m = 2
        /\ \A u \in Openers : u # t => loc'[u] = loc[u]
    BY <2>1, <1>1, <1>2, LocSet, SMTT(60)
  <2> QED
    BY <2>2, <2>3, <1>4
<1>5. CASE loc[t].m # 1
  <2>0. loc[t].m = 2
    BY <1>1, <1>5
  <2>1. OpenGoto(t, "open") /\ SetLocals(t, Locals(1, 1, 0, 0))
    BY <2>0, <1>2 DEF AfterFilter, NoLocals
  <2>2. /\ opc' \in [Openers -> OpenPoints] /\ opc'[t] = "open"
        /\ \A u \in Openers : u # t => opc'[u] = opc[u]
    BY <2>1, <1>3, OpcSet
  <2>3. loc' \in [Openers -> LocType] /\ \A u \in Openers : u # t => loc'[u] = loc[u]
    BY <2>1, <1>1, <1>2, LocSet, SMTT(60)
  <2> QED
    BY <2>2, <2>3, <1>5
<1> QED
  BY <1>4, <1>5

LEMMA CacheSet ==
  ASSUME OpenTypes, NEW t \in Openers, NEW m \in ModeSet, NEW x \in Int,
         cache' = [cache EXCEPT ![t][m] = <<x>>]
  PROVE  /\ cache' \in [Openers -> [ModeSet -> Seq(Int)]]
         /\ cache'[t][m] = <<x>> /\ Range(cache'[t][m]) = {x}
         /\ \A k \in ModeSet : k # m => cache'[t][k] = cache[t][k]
         /\ \A u \in Openers : u # t => cache'[u] = cache[u]
<1>1. <<x>> \in Seq(Int) /\ Range(<<x>>) = {x}
  <2>1. DOMAIN <<x>> = {1} /\ <<x>>[1] = x
    OBVIOUS
  <2>2. Range(<<x>>) = {<<x>>[k] : k \in {1}}
    BY <2>1 DEF Range
  <2> QED
    BY <2>1, <2>2
<1>2. cache \in [Openers -> [ModeSet -> Seq(Int)]]
  BY DEF OpenTypes
<1>3. PICK y \in Seq(Int) : y = <<x>>
  BY <1>1
<1>4. cache' = [cache EXCEPT ![t][m] = y]
  BY <1>3
<1>5. /\ cache' \in [Openers -> [ModeSet -> Seq(Int)]] /\ cache'[t][m] = y
      /\ \A k \in ModeSet : k # m => cache'[t][k] = cache[t][k]
      /\ \A u \in Openers : u # t => cache'[u] = cache[u]
  BY <1>2, <1>4
<1> QED
  BY <1>1, <1>3, <1>5

Stays == dom' = dom /\ last' = last
LEMMA StaysKeeps ==
  ASSUME DomTypes, Stays
  PROVE  DomTypes' /\ Grown /\ \A n \in 1 .. Len(dom) : StillAt(n)
BY DomSame DEF Stays

LEMMA OpenStartKeeps ==
  ASSUME OpenTypes, NEW t \in Openers, OpenStart(t)
  PROVE  /\ OpenKeeps(t) /\ Stays /\ opc'[t] = "lookup" /\ UNCHANGED instVars
         /\ cache'[t] = Empty /\ \A m \in ModeSet : cache'[t][m] = <<>>
         /\ \A u \in Openers : u # t => opc'[u] = opc[u]
         /\ \A u \in Openers : u # t => owed'[u] = {m \in owed[u] : Settled(u)}
         /\ owed'[t] = {m \in Possible(t) : \A q \in Openers \ {t} : Settled(q)}
<1>1. /\ OpenGoto(t, "lookup") /\ SetLocals(t, Locals(1, 1, 0, 0))
      /\ cache' = [cache EXCEPT ![t] = Empty] /\ dom' = dom /\ last' = last /\ UNCHANGED instVars
      /\ owed' = [r \in Openers |-> IF r # t THEN {m \in owed[r] : Settled(r)}
                   ELSE {m \in Possible(t) : \A q \in Openers \ {t} : Settled(q)}]
  BY DEF OpenStart, NoLocals, domVars
<1>2. "lookup" \in OpenPoints /\ 1 \in 1 .. Len(Props) /\ 1 \in 1 .. 2 /\ 0 \in Nat
  BY Counting DEF OpenPoints
<1>3. /\ opc' \in [Openers -> OpenPoints] /\ opc'[t] = "lookup"
      /\ \A u \in Openers : u # t => opc'[u] = opc[u]
  BY <1>1, <1>2, OpcSet
<1>4. loc' \in [Openers -> LocType] /\ \A u \in Openers : u # t => loc'[u] = loc[u]
  BY <1>1, <1>2, LocSet
<1>5. Empty \in [ModeSet -> Seq(Int)] /\ \A m \in ModeSet : Empty[m] = <<>>
  <2>1. Empty = [m \in ModeSet |-> <<>>]
    BY ModesAre DEF Empty
  <2>2. << >> \in Seq(Int)
    BY EmptySeq
  <2> QED
    BY <2>1, <2>2
<1>6. /\ cache' \in [Openers -> [ModeSet -> Seq(Int)]] /\ cache'[t] = Empty
      /\ \A u \in Openers : u # t => cache'[u] = cache[u]
  BY <1>1, <1>5 DEF OpenTypes
<1>7. /\ \A u \in Openers : u # t => owed'[u] = {m \in owed[u] : Settled(u)}
      /\ owed'[t] = {m \in Possible(t) : \A q \in Openers \ {t} : Settled(q)}
  BY <1>1
<1>8. owed' \in [Openers -> SUBSET ModeSet]
  <2>1. Possible(t) \subseteq ModeSet
    BY ModesAre DEF Possible
  <2>2. \A u \in Openers : owed[u] \subseteq ModeSet
    BY DEF OpenTypes
  <2>3. \A u \in Openers : owed'[u] \subseteq ModeSet
    BY <2>1, <2>2, <1>7
  <2>4. owed' = [r \in Openers |-> owed'[r]]
    BY <1>1
  <2> QED
    BY <2>3, <2>4
<1>9. OpenTypes'
  BY <1>3, <1>4, <1>6, <1>8 DEF OpenTypes
<1>10. OthersOpen(t)
  BY <1>3, <1>4, <1>6, <1>7 DEF OthersOpen
<1>11. OpenDomainOf(t)' /\ OpenFittingOf(t)'
  BY <1>3 DEF OpenDomainOf, OpenFittingOf
<1> QED
  BY <1>1, <1>3, <1>5, <1>6, <1>7, <1>9, <1>10, <1>11 DEF OpenKeeps, Stays

LEMMA PrefetchNoneKeeps ==
  ASSUME OpenTypes, NEW t \in Openers, PrefetchNone(t)
  PROVE  /\ OpenKeeps(t) /\ Stays /\ UNCHANGED <<instVars, cache, owed>>
         /\ opc[t] = "lookup" /\ opc'[t] \in {"lookup", "opened"}
<1>1. opc[t] = "lookup" /\ AfterMode(t) /\ Stays /\ UNCHANGED <<instVars, cache, owed>>
  BY DEF PrefetchNone, domVars, Stays
<1>2. /\ opc' \in [Openers -> OpenPoints] /\ opc'[t] \in {"lookup", "opened"}
      /\ loc' \in [Openers -> LocType]
      /\ (opc'[t] = "opened" => loc'[t].p = 1 /\ loc'[t].m = 1)
      /\ \A u \in Openers : u # t => opc'[u] = opc[u] /\ loc'[u] = loc[u]
  BY <1>1, AfterModeSets
<1>3. OpenTypes' /\ OthersOpen(t)
  BY <1>1, <1>2 DEF OpenTypes, OthersOpen
<1>4. OpenDomainOf(t)' /\ OpenFittingOf(t)'
  BY <1>2 DEF OpenDomainOf, OpenFittingOf
<1> QED
  BY <1>1, <1>2, <1>3, <1>4 DEF OpenKeeps

LEMMA PrefetchLookupKeeps ==
  ASSUME DomTypes, OpenTypes, NEW t \in Openers, PrefetchLookup(t)
  PROVE  /\ OpenKeeps(t) /\ Stays /\ UNCHANGED <<instVars, cache, owed>>
         /\ opc[t] = "lookup" /\ opc'[t] = "pick"
<1>1. PICK n : n = Lookup([mode |-> Mode(t), prop |-> LoopProp(t)])
  OBVIOUS
<1>2. /\ opc[t] = "lookup" /\ Usable(n) /\ SetLocals(t, Locals(loc[t].p, loc[t].m, n, 0))
      /\ OpenGoto(t, "pick") /\ Stays /\ UNCHANGED <<instVars, cache, owed>>
  BY <1>1 DEF PrefetchLookup, domVars, Stays
<1>3. n \in Nat /\ (n # 0 => n \in 1 .. Len(dom))
  BY <1>1, LookupFound
<1>4. n \in 1 .. Len(dom) /\ dom[n].valid
  BY <1>2, <1>3 DEF Usable
<1>5. "pick" \in OpenPoints /\ loc[t].p \in 1 .. Len(Props) /\ loc[t].m \in 1 .. 2 /\ 0 \in Nat
  BY Counting DEF OpenPoints
<1>6. /\ opc' \in [Openers -> OpenPoints] /\ opc'[t] = "pick"
      /\ \A u \in Openers : u # t => opc'[u] = opc[u]
  BY <1>2, <1>5, OpcSet
<1>7. /\ loc' \in [Openers -> LocType] /\ loc'[t].d = n
      /\ \A u \in Openers : u # t => loc'[u] = loc[u]
  BY <1>2, <1>3, <1>5, LocSet
<1>8. OpenTypes' /\ OthersOpen(t)
  BY <1>2, <1>6, <1>7 DEF OpenTypes, OthersOpen
<1>9. OpenDomainOf(t)' /\ OpenFittingOf(t)'
  BY <1>2, <1>4, <1>6, <1>7 DEF OpenDomainOf, OpenFittingOf, Stays
<1> QED
  BY <1>2, <1>6, <1>8, <1>9 DEF OpenKeeps

\* A pick of a session thread.
Picks(t) == loc[t].d \in 1 .. Len(dom) /\ dom[loc[t].d].valid /\ TakeNext(loc[t].d)

LEMMA PrefetchPickKeeps ==
  ASSUME DomTypes, OpenTypes, OpenDomain, NEW t \in Openers, PrefetchPick(t)
  PROVE  /\ OpenKeeps(t) /\ Picks(t) /\ UNCHANGED <<instVars, owed>>
         /\ opc[t] = "pick" /\ opc'[t] \in {"lookup", "opened"}
         /\ \A m \in ModeSet : cache'[t][m] = <<Invalid>> => cache[t][m] = <<Invalid>>
<1>1. PICK x : x = Chosen(dom[loc[t].d])
  OBVIOUS
<1>2. /\ opc[t] = "pick" /\ TakeNext(loc[t].d) /\ cache' = [cache EXCEPT ![t][Mode(t)] = <<x>>]
      /\ AfterMode(t) /\ UNCHANGED <<instVars, owed>>
  BY <1>1 DEF PrefetchPick
<1>3. Picks(t)
  BY <1>2 DEF OpenDomain, OpenDomainOf, Picks
<1>4. x \in Ctxs
  BY <1>1, <1>3, DomPick DEF Picks
<1>5. PICK z \in Nat : z = x
  BY <1>4, CtxAssumption
<1>6. Mode(t) \in ModeSet /\ z \in Int
  BY Counting
<1>7. /\ cache' \in [Openers -> [ModeSet -> Seq(Int)]]
      /\ cache'[t][Mode(t)] = <<z>>
      /\ \A k \in ModeSet : k # Mode(t) => cache'[t][k] = cache[t][k]
      /\ \A u \in Openers : u # t => cache'[u] = cache[u]
  <2>1. cache' = [cache EXCEPT ![t][Mode(t)] = <<z>>]
    BY <1>2, <1>5
  <2> QED
    BY <2>1, <1>6, CacheSet, ZenonT(60)
<1>8. /\ opc' \in [Openers -> OpenPoints] /\ opc'[t] \in {"lookup", "opened"}
      /\ loc' \in [Openers -> LocType]
      /\ (opc'[t] = "opened" => loc'[t].p = 1 /\ loc'[t].m = 1)
      /\ \A u \in Openers : u # t => opc'[u] = opc[u] /\ loc'[u] = loc[u]
  BY <1>2, AfterModeSets
<1>9. OpenTypes' /\ OthersOpen(t)
  BY <1>2, <1>7, <1>8 DEF OpenTypes, OthersOpen
<1>10. OpenDomainOf(t)' /\ OpenFittingOf(t)'
  BY <1>8 DEF OpenDomainOf, OpenFittingOf
<1>11. <<z>> # <<Invalid>>
  <2>1. <<z>>[1] = z /\ <<Invalid>>[1] = Invalid /\ z # Invalid
    BY DEF Invalid
  <2> QED
    BY <2>1
<1> QED
  BY <1>2, <1>3, <1>7, <1>8, <1>9, <1>10, <1>11 DEF OpenKeeps

LEMMA OpenFailKeeps ==
  ASSUME OpenTypes, NEW t \in Openers, OpenFail(t)
  PROVE  /\ OpenKeeps(t) /\ Stays /\ UNCHANGED <<instVars, cache, owed>>
         /\ opc[t] = "opened" /\ opc'[t] = "idle"
<1>1. /\ opc[t] = "opened" /\ OpenGoto(t, "idle") /\ Stays /\ UNCHANGED <<instVars, cache, owed, loc>>
  BY DEF OpenFail, domVars, Stays
<1>2. "idle" \in OpenPoints
  BY DEF OpenPoints
<1>3. /\ opc' \in [Openers -> OpenPoints] /\ opc'[t] = "idle"
      /\ \A u \in Openers : u # t => opc'[u] = opc[u]
  BY <1>1, <1>2, OpcSet
<1>4. OpenTypes' /\ OthersOpen(t)
  BY <1>1, <1>3 DEF OpenTypes, OthersOpen
<1>5. OpenDomainOf(t)' /\ OpenFittingOf(t)'
  BY <1>3 DEF OpenDomainOf, OpenFittingOf
<1> QED
  BY <1>1, <1>3, <1>4, <1>5 DEF OpenKeeps

LEMMA SetParamKeeps ==
  ASSUME OpenTypes, OpenDomain, NEW t \in Openers, SetParam(t)
  PROVE  /\ OpenKeeps(t) /\ Stays /\ UNCHANGED <<instVars, cache, owed>>
         /\ opc[t] = "opened" /\ opc'[t] = "filter"
<1>1. /\ opc[t] = "opened" /\ OpenGoto(t, "filter") /\ Stays
      /\ UNCHANGED <<instVars, cache, owed, loc>>
  BY DEF SetParam, domVars, Stays
<1>2. "filter" \in OpenPoints
  BY DEF OpenPoints
<1>3. /\ opc' \in [Openers -> OpenPoints] /\ opc'[t] = "filter"
      /\ \A u \in Openers : u # t => opc'[u] = opc[u]
  BY <1>1, <1>2, OpcSet
<1>4. OpenTypes' /\ OthersOpen(t)
  BY <1>1, <1>3 DEF OpenTypes, OthersOpen
<1>5. loc[t].m = 1 /\ loc[t].p = 1
  BY <1>1 DEF OpenDomain, OpenDomainOf
<1>6. OpenDomainOf(t)' /\ OpenFittingOf(t)'
  BY <1>1, <1>3, <1>5 DEF OpenDomainOf, OpenFittingOf
<1> QED
  BY <1>1, <1>3, <1>4, <1>6 DEF OpenKeeps

\* The filter is through with a mode: what is in its cache fits or is invalid.
LEMMA FilteredKeeps ==
  ASSUME OpenTypes, NEW t \in Openers, OpenFittingOf(t), AfterFilter(t),
         opc[t] \in {"filter", "search", "round"}, NEW m \in ModeSet, m = Mode(t),
         cache' \in [Openers -> [ModeSet -> Seq(Int)]],
         Range(cache'[t][m]) \subseteq Compat[t] \cup {Invalid},
         \A k \in ModeSet : k # m => cache'[t][k] = cache[t][k],
         \A u \in Openers : u # t => cache'[u] = cache[u], owed' = owed
  PROVE  OpenKeeps(t) /\ opc'[t] \in {"filter", "open"}
<1>1. /\ opc' \in [Openers -> OpenPoints] /\ loc' \in [Openers -> LocType]
      /\ (loc[t].m = 1 => opc'[t] = "filter" /\ loc'[t].p = 1 /\ loc'[t].m = 2)
      /\ (loc[t].m # 1 => opc'[t] = "open")
      /\ \A u \in Openers : u # t => opc'[u] = opc[u] /\ loc'[u] = loc[u]
  BY AfterFilterSets
<1>2. m = (IF loc[t].m = 1 THEN "sync" ELSE "async") /\ loc[t].m \in 1 .. 2
  BY Counting
<1>3. OpenTypes' /\ OthersOpen(t)
  BY <1>1 DEF OpenTypes, OthersOpen
<1>4. CASE loc[t].m = 1
  <2>1. opc'[t] = "filter" /\ loc'[t].p = 1 /\ loc'[t].m = 2 /\ m = "sync"
    BY <1>1, <1>2, <1>4
  <2>2. Fitting(t, "sync")'
    BY <2>1 DEF Fitting
  <2>3. OpenDomainOf(t)' /\ OpenFittingOf(t)'
    BY <2>1, <2>2 DEF OpenDomainOf, OpenFittingOf
  <2> QED
    BY <2>1, <2>3, <1>3 DEF OpenKeeps
<1>5. CASE loc[t].m # 1
  <2>1. opc'[t] = "open" /\ loc[t].m = 2 /\ m = "async"
    BY <1>1, <1>2, <1>5
  <2>2. Fitting(t, "async")'
    BY <2>1 DEF Fitting
  <2>3. Fitting(t, "sync")
    BY <2>1 DEF OpenFittingOf
  <2>4. cache'[t]["sync"] = cache[t]["sync"]
    BY <2>1 DEF ModeSet
  <2>5. Fitting(t, "sync")'
    BY <2>3, <2>4 DEF Fitting
  <2>6. OpenDomainOf(t)' /\ OpenFittingOf(t)'
    BY <2>1, <2>2, <2>5 DEF OpenDomainOf, OpenFittingOf
  <2> QED
    BY <2>1, <2>6, <1>3 DEF OpenKeeps
<1> QED
  BY <1>4, <1>5

LEMMA FilterKeepKeeps ==
  ASSUME OpenTypes, OpenFitting, NEW t \in Openers, FilterKeep(t)
  PROVE  /\ OpenKeeps(t) /\ Stays /\ UNCHANGED <<instVars, cache, owed>>
         /\ opc[t] = "filter" /\ opc'[t] \in {"filter", "open"}
<1>1. /\ opc[t] = "filter" /\ Fits(t) /\ AfterFilter(t) /\ Stays /\ UNCHANGED <<instVars, cache, owed>>
  BY DEF FilterKeep, domVars, Stays
<1>2. PICK m \in ModeSet : m = Mode(t)
  BY Counting
<1>3. Range(cache'[t][m]) \subseteq Compat[t] \cup {Invalid}
  BY <1>1, <1>2 DEF Fits
<1>4. cache' \in [Openers -> [ModeSet -> Seq(Int)]] /\ OpenFittingOf(t)
  BY <1>1 DEF OpenTypes, OpenFitting
<1>5. OpenKeeps(t) /\ opc'[t] \in {"filter", "open"}
  BY <1>1, <1>2, <1>3, <1>4, FilteredKeeps
<1> QED
  BY <1>1, <1>5

LEMMA FilterSearchKeeps ==
  ASSUME OpenTypes, OpenFitting, OpenDomain, NEW t \in Openers, FilterSearch(t)
  PROVE  /\ OpenKeeps(t) /\ Stays /\ UNCHANGED <<instVars, cache, owed, loc>>
         /\ opc[t] = "filter" /\ opc'[t] = "search" /\ loc[t].p = 1
<1>1. /\ opc[t] = "filter" /\ OpenGoto(t, "search") /\ Stays
      /\ UNCHANGED <<instVars, cache, owed, loc>>
  BY DEF FilterSearch, domVars, Stays
<1>2. "search" \in OpenPoints
  BY DEF OpenPoints
<1>3. /\ opc' \in [Openers -> OpenPoints] /\ opc'[t] = "search"
      /\ \A u \in Openers : u # t => opc'[u] = opc[u]
  BY <1>1, <1>2, OpcSet
<1>4. OpenTypes' /\ OthersOpen(t)
  BY <1>1, <1>3 DEF OpenTypes, OthersOpen
<1>5. OpenFittingOf(t) /\ loc[t].p = 1
  BY <1>1 DEF OpenFitting, OpenDomain, OpenDomainOf
<1>6. OpenDomainOf(t)' /\ OpenFittingOf(t)'
  BY <1>1, <1>3, <1>5 DEF OpenDomainOf, OpenFittingOf, Fitting
<1> QED
  BY <1>1, <1>3, <1>4, <1>5, <1>6 DEF OpenKeeps

LEMMA SearchNextKeeps ==
  ASSUME OpenTypes, OpenFitting, NEW t \in Openers, SearchNext(t)
  PROVE  /\ OpenKeeps(t) /\ Stays /\ UNCHANGED <<instVars, cache, owed>>
         /\ opc[t] \in {"search", "round"} /\ opc'[t] = "search"
         /\ loc'[t].p = loc[t].p + 1 /\ loc'[t].m = loc[t].m
<1>1. /\ opc[t] \in {"search", "round"} /\ loc[t].p < Len(Props)
      /\ SetLocals(t, Locals(loc[t].p + 1, loc[t].m, 0, 0))
      /\ OpenGoto(t, "search") /\ Stays /\ UNCHANGED <<instVars, cache, owed>>
  BY DEF SearchNext, domVars, Stays
<1>2. "search" \in OpenPoints /\ loc[t].p + 1 \in 1 .. Len(Props) /\ loc[t].m \in 1 .. 2 /\ 0 \in Nat
  BY <1>1, Counting DEF OpenPoints
<1>3. /\ opc' \in [Openers -> OpenPoints] /\ opc'[t] = "search"
      /\ \A u \in Openers : u # t => opc'[u] = opc[u]
  BY <1>1, <1>2, OpcSet
<1>4. /\ loc' \in [Openers -> LocType] /\ loc'[t].p = loc[t].p + 1 /\ loc'[t].m = loc[t].m
      /\ \A u \in Openers : u # t => loc'[u] = loc[u]
  BY <1>1, <1>2, LocSet
<1>5. OpenTypes' /\ OthersOpen(t)
  BY <1>1, <1>3, <1>4 DEF OpenTypes, OthersOpen
<1>6. OpenFittingOf(t)
  BY DEF OpenFitting
<1>7. OpenDomainOf(t)' /\ OpenFittingOf(t)'
  BY <1>1, <1>3, <1>4, <1>6 DEF OpenDomainOf, OpenFittingOf, Fitting
<1> QED
  BY <1>1, <1>3, <1>4, <1>5, <1>7 DEF OpenKeeps

LEMMA SearchLookupKeeps ==
  ASSUME DomTypes, OpenTypes, OpenFitting, NEW t \in Openers, SearchLookup(t)
  PROVE  /\ OpenKeeps(t) /\ Stays /\ UNCHANGED <<instVars, cache, owed>>
         /\ opc[t] = "search" /\ opc'[t] = "round"
         /\ loc'[t].p = loc[t].p /\ loc'[t].m = loc[t].m
         /\ loc'[t].d = Lookup(SearchKey(t)) /\ loc'[t].i = 0
<1>1. PICK n : n = Lookup(SearchKey(t))
  OBVIOUS
<1>2. /\ opc[t] = "search" /\ Usable(n) /\ SetLocals(t, Locals(loc[t].p, loc[t].m, n, 0))
      /\ OpenGoto(t, "round") /\ Stays /\ UNCHANGED <<instVars, cache, owed>>
  BY <1>1 DEF SearchLookup, domVars, Stays
<1>3. n \in Nat /\ (n # 0 => n \in 1 .. Len(dom))
  BY <1>1, LookupFound
<1>4. n \in 1 .. Len(dom) /\ dom[n].valid
  BY <1>2, <1>3 DEF Usable
<1>5. "round" \in OpenPoints /\ loc[t].p \in 1 .. Len(Props) /\ loc[t].m \in 1 .. 2 /\ 0 \in Nat
  BY Counting DEF OpenPoints
<1>6. /\ opc' \in [Openers -> OpenPoints] /\ opc'[t] = "round"
      /\ \A u \in Openers : u # t => opc'[u] = opc[u]
  BY <1>2, <1>5, OpcSet
<1>7. /\ loc' \in [Openers -> LocType] /\ loc'[t].p = loc[t].p /\ loc'[t].m = loc[t].m
      /\ loc'[t].d = n /\ loc'[t].i = 0
      /\ \A u \in Openers : u # t => loc'[u] = loc[u]
  BY <1>2, <1>3, <1>5, LocSet
<1>8. OpenTypes' /\ OthersOpen(t)
  BY <1>2, <1>6, <1>7 DEF OpenTypes, OthersOpen
<1>9. OpenFittingOf(t)
  BY DEF OpenFitting
<1>10. OpenDomainOf(t)'
  BY <1>2, <1>4, <1>6, <1>7 DEF OpenDomainOf, Stays
<1>11. OpenFittingOf(t)'
  BY <1>2, <1>6, <1>7, <1>9 DEF OpenFittingOf, Fitting
<1> QED
  BY <1>1, <1>2, <1>6, <1>7, <1>8, <1>10, <1>11 DEF OpenKeeps

LEMMA SearchTryKeeps ==
  ASSUME DomTypes, OpenTypes, OpenFitting, OpenDomain, NEW t \in Openers, SearchTry(t)
  PROVE  /\ OpenKeeps(t) /\ Picks(t) /\ UNCHANGED <<instVars, owed>> /\ opc[t] = "round"
         /\ IF Chosen(dom[loc[t].d]) \in Compat[t]
            THEN /\ opc'[t] \in {"filter", "open"}
                 /\ \A m \in ModeSet : cache'[t][m] = <<Invalid>> => cache[t][m] = <<Invalid>>
            ELSE /\ cache' = cache /\ opc'[t] = "round"
                 /\ loc'[t].p = loc[t].p /\ loc'[t].m = loc[t].m /\ loc'[t].d = loc[t].d
                 /\ loc'[t].i = loc[t].i + 1
<1>1. PICK x : x = Chosen(dom[loc[t].d])
  OBVIOUS
<1>2. /\ opc[t] = "round" /\ TakeNext(loc[t].d) /\ UNCHANGED <<instVars, owed>>
      /\ IF x \in Compat[t]
         THEN cache' = [cache EXCEPT ![t][Mode(t)] = <<x>>] /\ AfterFilter(t)
         ELSE /\ SetLocals(t, Locals(loc[t].p, loc[t].m, loc[t].d, loc[t].i + 1))
              /\ cache' = cache /\ opc' = opc
  BY <1>1 DEF SearchTry
<1>3. Picks(t) /\ loc[t].d \in 1 .. Len(dom) /\ dom[loc[t].d].valid
  BY <1>2 DEF OpenDomain, OpenDomainOf, Picks
<1>4. x \in Ctxs
  BY <1>1, <1>3, DomPick DEF Picks
<1>5. PICK z \in Nat : z = x
  BY <1>4, CtxAssumption
<1>6. PICK m \in ModeSet : m = Mode(t)
  BY Counting
<1>7. OpenFittingOf(t)
  BY DEF OpenFitting
<1>8. CASE x \in Compat[t]
  <2>1. z \in Int
    OBVIOUS
  <2>2. /\ cache' \in [Openers -> [ModeSet -> Seq(Int)]]
        /\ cache'[t][m] = <<z>> /\ Range(cache'[t][m]) = {z}
        /\ \A k \in ModeSet : k # m => cache'[t][k] = cache[t][k]
        /\ \A u \in Openers : u # t => cache'[u] = cache[u]
    <3>1. cache' = [cache EXCEPT ![t][m] = <<z>>]
      BY <1>2, <1>5, <1>6, <1>8
    <3> QED
      BY <3>1, <2>1, <1>6, CacheSet, ZenonT(60)
  <2>3. Range(cache'[t][m]) \subseteq Compat[t] \cup {Invalid}
    BY <2>2, <1>5, <1>8
  <2>4. OpenKeeps(t) /\ opc'[t] \in {"filter", "open"}
    <3>1. AfterFilter(t) /\ opc[t] \in {"filter", "search", "round"} /\ owed' = owed
      BY <1>2, <1>8
    <3> QED
      BY <3>1, <2>2, <2>3, <1>6, <1>7, FilteredKeeps
  <2>5. <<z>> # <<Invalid>>
    <3>1. <<z>>[1] = z /\ <<Invalid>>[1] = Invalid /\ z # Invalid
      BY DEF Invalid
    <3> QED
      BY <3>1
  <2> QED
    BY <2>2, <2>4, <2>5, <1>1, <1>2, <1>3, <1>8
<1>9. CASE x \notin Compat[t]
  <2>1. /\ SetLocals(t, Locals(loc[t].p, loc[t].m, loc[t].d, loc[t].i + 1))
        /\ cache' = cache /\ opc' = opc /\ owed' = owed
    BY <1>2, <1>9
  <2>2. loc[t].p \in 1 .. Len(Props) /\ loc[t].m \in 1 .. 2 /\ loc[t].d \in Nat /\ loc[t].i + 1 \in Nat
    BY Counting
  <2>3. /\ loc' \in [Openers -> LocType] /\ loc'[t].p = loc[t].p /\ loc'[t].m = loc[t].m
        /\ loc'[t].d = loc[t].d /\ loc'[t].i = loc[t].i + 1
        /\ \A u \in Openers : u # t => loc'[u] = loc[u]
    BY <2>1, <2>2, LocSet
  <2>4. OpenTypes' /\ OthersOpen(t)
    BY <2>1, <2>3 DEF OpenTypes, OthersOpen
  <2>5. DomTypes' /\ Grown /\ Len(dom') = Len(dom)
    BY <1>3, DomPick DEF Picks
  <2>6. loc[t].d \in 1 .. Len(dom') /\ dom'[loc[t].d].valid
    BY <2>5, <1>3 DEF Grown
  <2>7. OpenDomainOf(t)'
    BY <2>1, <2>3, <2>6, <1>2 DEF OpenDomainOf
  <2>8. OpenFittingOf(t)'
    BY <2>1, <2>3, <1>7 DEF OpenFittingOf, Fitting
  <2> QED
    BY <2>1, <2>3, <2>4, <2>7, <2>8, <1>1, <1>2, <1>3, <1>9 DEF OpenKeeps
<1> QED
  BY <1>8, <1>9

LEMMA SearchFailKeeps ==
  ASSUME OpenTypes, OpenFitting, NEW t \in Openers, SearchFail(t)
  PROVE  /\ OpenKeeps(t) /\ Stays /\ UNCHANGED <<instVars, owed>>
         /\ opc[t] \in {"search", "round"} /\ opc'[t] \in {"filter", "open"}
         /\ \A m \in ModeSet : m # Mode(t) => cache'[t][m] = cache[t][m]
<1>1. /\ opc[t] \in {"search", "round"} /\ cache' = [cache EXCEPT ![t][Mode(t)] = <<Invalid>>]
      /\ AfterFilter(t) /\ Stays /\ UNCHANGED <<instVars, owed>>
  BY DEF SearchFail, domVars, Stays
<1>2. PICK m \in ModeSet : m = Mode(t)
  BY Counting
<1>3. Invalid \in Int
  BY DEF Invalid
<1>4. /\ cache' \in [Openers -> [ModeSet -> Seq(Int)]]
      /\ cache'[t][m] = <<Invalid>> /\ Range(cache'[t][m]) = {Invalid}
      /\ \A k \in ModeSet : k # m => cache'[t][k] = cache[t][k]
      /\ \A u \in Openers : u # t => cache'[u] = cache[u]
  <2>1. cache' = [cache EXCEPT ![t][m] = <<Invalid>>]
    BY <1>1, <1>2
  <2> QED
    BY <2>1, <1>2, <1>3, CacheSet, ZenonT(60)
<1>5. Range(cache'[t][m]) \subseteq Compat[t] \cup {Invalid}
  BY <1>4
<1>6. OpenKeeps(t) /\ opc'[t] \in {"filter", "open"}
  <2>1. OpenFittingOf(t) /\ opc[t] \in {"filter", "search", "round"} /\ owed' = owed
    BY <1>1 DEF OpenFitting
  <2> QED
    BY <2>1, <1>1, <1>2, <1>4, <1>5, FilteredKeeps
<1> QED
  BY <1>1, <1>2, <1>4, <1>6

\* What a step of session thread t does to the domains and to the others.
OpenEffect(t) == /\ DomTypes' /\ Grown /\ Len(dom') = Len(dom)
                 /\ UNCHANGED instVars /\ OpenKeeps(t)

LEMMA PickEffect ==
  ASSUME DomTypes, NEW t, Picks(t)
  PROVE  DomTypes' /\ Grown /\ Len(dom') = Len(dom)
<1>1. loc[t].d \in 1 .. Len(dom) /\ dom[loc[t].d].valid /\ TakeNext(loc[t].d)
  BY DEF Picks
<1> QED
  BY <1>1, DomPick

LEMMA StayEffect ==
  ASSUME DomTypes, Stays
  PROVE  DomTypes' /\ Grown /\ Len(dom') = Len(dom)
BY StaysKeeps DEF Stays

LEMMA OpenStepEffect ==
  ASSUME DomTypes, OpenTypes, OpenDomain, OpenFitting, NEW t \in Openers, OpenStep(t)
  PROVE  OpenEffect(t)
<1>1. CASE PrefetchNone(t)
  BY <1>1, PrefetchNoneKeeps, StayEffect DEF OpenEffect
<1>2. CASE PrefetchLookup(t)
  BY <1>2, PrefetchLookupKeeps, StayEffect DEF OpenEffect
<1>3. CASE PrefetchPick(t)
  BY <1>3, PrefetchPickKeeps, PickEffect DEF OpenEffect
<1>4. CASE OpenFail(t)
  BY <1>4, OpenFailKeeps, StayEffect DEF OpenEffect
<1>5. CASE SetParam(t)
  BY <1>5, SetParamKeeps, StayEffect DEF OpenEffect
<1>6. CASE FilterKeep(t)
  BY <1>6, FilterKeepKeeps, StayEffect DEF OpenEffect
<1>7. CASE FilterSearch(t)
  BY <1>7, FilterSearchKeeps, StayEffect DEF OpenEffect
<1>8. CASE SearchNext(t)
  BY <1>8, SearchNextKeeps, StayEffect DEF OpenEffect
<1>9. CASE SearchLookup(t)
  BY <1>9, SearchLookupKeeps, StayEffect DEF OpenEffect
<1>10. CASE SearchTry(t)
  BY <1>10, SearchTryKeeps, PickEffect DEF OpenEffect
<1>11. CASE SearchFail(t)
  BY <1>11, SearchFailKeeps, StayEffect DEF OpenEffect
<1> QED
  BY <1>1, <1>2, <1>3, <1>4, <1>5, <1>6, <1>7, <1>8, <1>9, <1>10, <1>11
     DEF OpenStep

LEMMA OpenStartEffect ==
  ASSUME DomTypes, OpenTypes, NEW t \in Openers, OpenStart(t)
  PROVE  OpenEffect(t)
BY OpenStartKeeps, StayEffect DEF OpenEffect

\* The parts about one session thread, for a thread that does not step.
LEMMA OpenDomainKept ==
  ASSUME DomTypes, DomTypes', Grown, NEW u \in Openers, OpenDomainOf(u),
         opc'[u] = opc[u], loc'[u] = loc[u]
  PROVE  OpenDomainOf(u)'
<1>1. ASSUME opc[u] \in {"pick", "round"}
      PROVE  loc[u].d \in 1 .. Len(dom') /\ dom'[loc[u].d].valid
  <2>1. loc[u].d \in 1 .. Len(dom) /\ dom[loc[u].d].valid
    BY <1>1 DEF OpenDomainOf
  <2>2. Len(dom) \in Nat /\ Len(dom') \in Nat
    BY LenProperties DEF DomTypes
  <2> QED
    BY <2>1, <2>2 DEF Grown
<1> QED
  BY <1>1 DEF OpenDomainOf

LEMMA OpenEffectInv ==
  ASSUME DomainInv, NEW t \in Openers, OpenEffect(t)
  PROVE  DomainInv'
<1>1. /\ DomTypes /\ InstTypes /\ OpenTypes /\ InstHas /\ OpenDomain /\ OpenFitting
      /\ DomTypes' /\ Grown /\ UNCHANGED instVars
      /\ OpenTypes' /\ OthersOpen(t) /\ OpenDomainOf(t)' /\ OpenFittingOf(t)'
  BY DEF DomainInv, OpenEffect, OpenKeeps
<1>2. InstTypes' /\ InstHas'
  BY <1>1, InstKept
<1>3. ASSUME NEW u \in Openers
      PROVE  OpenDomainOf(u)' /\ OpenFittingOf(u)'
  <2>1. CASE u = t
    BY <2>1, <1>1
  <2>2. CASE u # t
    <3>1. opc'[u] = opc[u] /\ loc'[u] = loc[u] /\ cache'[u] = cache[u]
      BY <2>2, <1>1 DEF OthersOpen
    <3>2. OpenDomainOf(u) /\ OpenFittingOf(u)
      BY <1>1 DEF OpenDomain, OpenFitting
    <3>3. OpenDomainOf(u)'
      BY <3>1, <3>2, <1>1, OpenDomainKept
    <3>4. OpenFittingOf(u)'
      BY <3>1, <3>2 DEF OpenFittingOf, Fitting
    <3> QED
      BY <3>3, <3>4
  <2> QED
    BY <2>1, <2>2
<1>4. OpenDomain' /\ OpenFitting'
  BY <1>3 DEF OpenDomain, OpenFitting
<1> QED
  BY <1>1, <1>2, <1>4 DEF DomainInv

LEMMA InstanceStepInv ==
  ASSUME DomainInv, NEW t \in Callers, InstanceStep(t)
  PROVE  DomainInv' /\ Grown /\ (\A n \in 1 .. Len(dom) : StillAt(n)) /\ UNCHANGED openVars
<1>1. DomTypes /\ InstTypes /\ OpenTypes /\ InstHas /\ OpenDomain /\ OpenFitting
  BY DEF DomainInv
<1>2. InstKeeps /\ UNCHANGED openVars
  BY <1>1, InstInv
<1>3. DomTypes' /\ InstTypes' /\ InstHas' /\ Grown /\ (\A n \in 1 .. Len(dom) : StillAt(n))
  BY <1>2 DEF InstKeeps
<1>4. opc' = opc /\ loc' = loc /\ cache' = cache /\ owed' = owed
  BY <1>2 DEF openVars
<1>5. OpenTypes' /\ OpenFitting'
  BY <1>1, <1>4 DEF OpenTypes, OpenFitting, OpenFittingOf, Fitting
<1>6. ASSUME NEW u \in Openers PROVE OpenDomainOf(u)'
  <2>1. OpenDomainOf(u)
    BY <1>1 DEF OpenDomain
  <2> QED
    BY <2>1, <1>1, <1>3, <1>4, OpenDomainKept
<1>7. OpenDomain'
  BY <1>6 DEF OpenDomain
<1> QED
  BY <1>2, <1>3, <1>5, <1>7 DEF DomainInv

LEMMA DomainInit ==
  ASSUME Init
  PROVE  DomainInv /\ OwedInv
<1>1. /\ dom = <<>> /\ last = <<>> /\ ipc = [t \in Callers |-> "lookup"] /\ call = [t \in Callers |-> 1]
      /\ target = [t \in Callers |-> 0] /\ opc = [t \in Openers |-> "idle"]
      /\ loc = [t \in Openers |-> NoLocals] /\ cache = [t \in Openers |-> Empty]
      /\ owed = [t \in Openers |-> {}]
  BY DEF Init
<1>2. Len(dom) = 0 /\ Len(last) = 0 /\ dom \in Seq(DomainType) /\ last \in Seq(Int)
  BY <1>1, EmptySeq
<1>3. \A n : n \notin 1 .. Len(dom)
  BY <1>2
<1>4. DomTypes
  BY <1>2, <1>3 DEF DomTypes
<1>5. InstTypes
  <2>1. ASSUME NEW t \in Callers PROVE 1 <= Len(Calls[t]) + 1
    BY CallTyped
  <2> QED
    BY <2>1, <1>1 DEF InstTypes, InstPoints
<1>6. NoLocals \in LocType
  <2>1. 1 \in 1 .. Len(Props) /\ 1 \in 1 .. 2 /\ 0 \in Nat
    BY PropAssumption
  <2> QED
    BY <2>1, LocalsFields DEF NoLocals
<1>7. Empty \in [ModeSet -> Seq(Int)]
  BY ModesAre, EmptySeq DEF Empty
<1>8. OpenTypes
  BY <1>1, <1>6, <1>7 DEF OpenTypes, OpenPoints
<1>9. InstHas
  <2>1. ASSUME NEW t \in Callers PROVE InstHasOf(t)
    <3>1. ipc[t] = "lookup" /\ call[t] = 1
      BY <1>1
    <3>2. \A i : i \notin 1 .. call[t] - 1
      BY <3>1
    <3> QED
      BY <3>1, <3>2 DEF InstHasOf
  <2> QED
    BY <2>1 DEF InstHas
<1>10. OpenDomain /\ OpenFitting
  BY <1>1 DEF OpenDomain, OpenDomainOf, OpenFitting, OpenFittingOf
<1>11. KeyOnce
  BY <1>3 DEF KeyOnce, OneDomain, InsertFree
<1>12. OwedAlone /\ Owed
  BY <1>1 DEF OwedAlone, Owed
<1> QED
  BY <1>4, <1>5, <1>8, <1>9, <1>10, <1>11, <1>12 DEF DomainInv, OwedInv

LEMMA DomainStep ==
  ASSUME DomainInv, [Next]_vars
  PROVE  DomainInv'
<1>1. ASSUME NEW t \in Callers, InstanceStep(t) PROVE DomainInv'
  BY <1>1, InstanceStepInv
<1>2. ASSUME NEW t \in Openers, OpenStep(t) PROVE DomainInv'
  BY <1>2, OpenStepEffect, OpenEffectInv DEF DomainInv
<1>3. ASSUME NEW t \in Openers, OpenStart(t) PROVE DomainInv'
  BY <1>3, OpenStartEffect, OpenEffectInv DEF DomainInv
<1>4. CASE UNCHANGED vars
  <2>1. /\ DomTypes /\ InstTypes /\ OpenTypes /\ InstHas /\ OpenDomain /\ OpenFitting
        /\ Stays /\ UNCHANGED instVars
    BY <1>4 DEF vars, domVars, DomainInv, Stays
  <2>2. dom' = dom /\ opc' = opc /\ loc' = loc /\ cache' = cache /\ owed' = owed
    BY <1>4 DEF vars, domVars, openVars
  <2>3. DomTypes' /\ InstTypes' /\ InstHas'
    BY <2>1, StayEffect, InstKept
  <2>4. OpenTypes' /\ OpenFitting'
    BY <2>1, <2>2 DEF OpenTypes, OpenFitting, OpenFittingOf, Fitting
  <2>5. OpenDomain'
    BY <2>1, <2>2 DEF OpenDomain, OpenDomainOf
  <2> QED
    BY <2>3, <2>4, <2>5 DEF DomainInv
<1> QED
  BY <1>1, <1>2, <1>3, <1>4 DEF Next

-----------------------------------------------------------------------------
\* What is owed to a session.

\* The domains grow: a context stays where it is.
LEMMA FitsKept ==
  ASSUME DomTypes, DomTypes', Grown, NEW t, NEW n, NEW i, NEW j, FitsAt(t, n, i, j)
  PROVE  /\ FitsAt(t, n, i, j)' /\ dom'[n].key = dom[n].key
         /\ PlaceOf(dom'[n], i, j) = PlaceOf(dom[n], i, j)
<1>1. /\ n \in 1 .. Len(dom) /\ i \in 1 .. Len(dom[n].segs) /\ j \in Nat
      /\ dom[n].valid /\ dom[n].segs[i].begin + j <= dom[n].segs[i].end
      /\ dom[n].segs[i].begin + j \in Compat[t]
  BY DEF FitsAt
<1>2. Len(dom) \in Nat /\ Len(dom') \in Nat /\ Len(dom) <= Len(dom')
  BY LenProperties DEF DomTypes, Grown
<1>3. n \in 1 .. Len(dom')
  BY <1>1, <1>2
<1>4. DomainFine(dom[n]) /\ DomainFine(dom'[n])
  BY <1>1, <1>3 DEF DomTypes
<1>5. /\ Segments(dom[n].segs) /\ Segments(dom'[n].segs)
      /\ Len(dom[n].segs) \in Nat /\ Len(dom'[n].segs) \in Nat
  BY <1>4, DomainSegments
<1>6. /\ dom'[n].key = dom[n].key /\ dom'[n].valid
      /\ Len(dom[n].segs) <= Len(dom'[n].segs)
      /\ \A k \in 1 .. Len(dom[n].segs) : dom'[n].segs[k] = dom[n].segs[k]
  BY <1>1 DEF Grown
<1>7. i \in 1 .. Len(dom'[n].segs) /\ i - 1 \in 0 .. Len(dom[n].segs)
  BY <1>1, <1>5, <1>6
<1>8. FitsAt(t, n, i, j)'
  BY <1>1, <1>3, <1>6, <1>7 DEF FitsAt
<1>9. Before(dom'[n].segs, i - 1) = Before(dom[n].segs, i - 1)
  BY <1>5, <1>6, <1>7, BeforeKept
<1> QED
  BY <1>6, <1>8, <1>9 DEF PlaceOf

\* Where it is in its domain, and where the pointer is.
LEMMA FitsInside ==
  ASSUME DomTypes, NEW t, NEW n, NEW i, NEW j, FitsAt(t, n, i, j)
  PROVE  /\ n \in 1 .. Len(dom) /\ DomainFine(dom[n]) /\ dom[n].segs # <<>>
         /\ Total(dom[n]) \in Nat /\ At(dom[n]) \in 1 .. Total(dom[n])
         /\ PlaceOf(dom[n], i, j) \in 1 .. Total(dom[n])
         /\ PlaceOf(dom[n], i, j) = At(dom[n]) => Chosen(dom[n]) \in Compat[t]
<1>1. /\ n \in 1 .. Len(dom) /\ i \in 1 .. Len(dom[n].segs) /\ j \in Nat
      /\ dom[n].valid /\ dom[n].segs[i].begin + j <= dom[n].segs[i].end
      /\ dom[n].segs[i].begin + j \in Compat[t]
  BY DEF FitsAt
<1>2. DomainFine(dom[n])
  BY <1>1 DEF DomTypes
<1>3. /\ dom[n].segs # <<>> /\ PlaceOf(dom[n], i, j) \in 1 .. Total(dom[n])
      /\ (PlaceOf(dom[n], i, j) = At(dom[n]) => Chosen(dom[n]) = dom[n].segs[i].begin + j)
  BY <1>1, <1>2, PlaceInside
<1>4. Total(dom[n]) \in Nat /\ At(dom[n]) \in 1 .. Total(dom[n])
  BY <1>2, <1>3, TotalNat, AdvancedFine
<1> QED
  BY <1>1, <1>2, <1>3, <1>4

LEMMA AheadKept ==
  ASSUME DomTypes, DomTypes', Grown, NEW t, NEW n, NEW i, NEW j, FitsAt(t, n, i, j),
         StillAt(n), NEW k \in Nat, Ahead(dom[n], i, j, k)
  PROVE  Ahead(dom'[n], i, j, k)
<1>1. FitsAt(t, n, i, j)' /\ PlaceOf(dom'[n], i, j) = PlaceOf(dom[n], i, j)
  BY FitsKept
<1>2. /\ Total(dom[n]) \in Nat /\ At(dom[n]) \in 1 .. Total(dom[n])
      /\ PlaceOf(dom[n], i, j) \in 1 .. Total(dom[n])
  BY FitsInside
<1>3. Total(dom'[n]) \in Nat
  <2>1. n \in 1 .. Len(dom')
    BY <1>1 DEF FitsAt
  <2>2. DomainFine(dom'[n])
    BY <2>1 DEF DomTypes
  <2> QED
    BY <2>2, TotalNat
<1>4. At(dom'[n]) = At(dom[n]) /\ Total(dom[n]) <= Total(dom'[n])
  BY DEF StillAt
<1>5. AheadOf(PlaceOf(dom[n], i, j), At(dom[n]), Total(dom[n]), k)
  BY DEF Ahead
<1>6. AheadOf(PlaceOf(dom[n], i, j), At(dom[n]), Total(dom'[n]), k)
  BY <1>2, <1>3, <1>4, <1>5, AheadMore
<1> QED
  BY <1>1, <1>4, <1>6 DEF Ahead

\* Another thread steps.
LEMMA OwedKept ==
  ASSUME DomTypes, DomTypes', Grown, OpenTypes, NEW u \in Openers, NEW m, OwedFor(u, m),
         opc'[u] = opc[u], loc'[u] = loc[u], cache'[u] = cache[u],
         Searching(u, m) => \A k \in 1 .. Len(dom) : StillAt(k)
  PROVE  OwedFor(u, m)'
<1>1. PICK n \in Nat, i \in Nat, j \in Nat, q \in Nat :
        /\ FitsAt(u, n, i, j) /\ dom[n].key.mode = m
        /\ Searching(u, m) => NotPassed(u, n, i, j, q)
  BY DEF OwedFor
<1>2. FitsAt(u, n, i, j)' /\ dom'[n].key = dom[n].key
  BY <1>1, FitsKept
<1>3. Searching(u, m)' <=> Searching(u, m)
  BY DEF Searching, Mode
<1>4. ASSUME Searching(u, m) PROVE NotPassed(u, n, i, j, q)'
  <2>1. NotPassed(u, n, i, j, q) /\ StillAt(n)
    BY <1>1, <1>4, FitsInside
  <2>2. loc[u].i \in Nat
    BY Counting
  <2>3. ASSUME opc[u] = "round", loc[u].p = q
        PROVE  loc[u].d = n /\ Ahead(dom'[n], i, j, loc[u].i)
    <3>1. loc[u].d = n /\ Ahead(dom[n], i, j, loc[u].i)
      BY <2>1, <2>3 DEF NotPassed
    <3> QED
      BY <3>1, <2>1, <2>2, <1>1, AheadKept
  <2>4. q \in 1 .. Len(Props) /\ Props[q] = dom'[n].key.prop /\ loc'[u].p <= q
    BY <2>1, <1>2 DEF NotPassed
  <2> QED
    BY <2>3, <2>4 DEF NotPassed
<1>5. cache'[u][m] # <<Invalid>> /\ dom'[n].key.mode = m
  BY <1>1, <1>2 DEF OwedFor
<1> QED
  BY <1>1, <1>2, <1>3, <1>4, <1>5 DEF OwedFor

\* The thread itself steps and is not searching then.
LEMMA OwedAside ==
  ASSUME DomTypes, DomTypes', Grown, NEW t \in Openers, NEW m, OwedFor(t, m),
         ~Searching(t, m)', cache'[t][m] = <<Invalid>> => cache[t][m] = <<Invalid>>
  PROVE  OwedFor(t, m)'
<1>1. PICK n \in Nat, i \in Nat, j \in Nat, q \in Nat :
        FitsAt(t, n, i, j) /\ dom[n].key.mode = m
  BY DEF OwedFor
<1>2. FitsAt(t, n, i, j)' /\ dom'[n].key = dom[n].key
  BY <1>1, FitsKept
<1>3. cache'[t][m] # <<Invalid>>
  BY DEF OwedFor
<1> QED
  BY <1>1, <1>2, <1>3 DEF OwedFor

\* The search starts with the first property: none is passed.
LEMMA OwedSearch ==
  ASSUME DomTypes, DomTypes', Grown, NEW t \in Openers, NEW m, OwedFor(t, m),
         cache' = cache, opc'[t] = "search", loc'[t].p = 1
  PROVE  OwedFor(t, m)'
<1>1. PICK n \in Nat, i \in Nat, j \in Nat, q \in Nat :
        FitsAt(t, n, i, j) /\ dom[n].key.mode = m
  BY DEF OwedFor
<1>2. FitsAt(t, n, i, j)' /\ dom'[n].key = dom[n].key
  BY <1>1, FitsKept
<1>3. n \in 1 .. Len(dom)
  BY <1>1 DEF FitsAt
<1>4. dom[n].key \in Keys
  <2>1. dom[n] \in DomainType
    BY <1>3 DEF DomTypes, DomainFine
  <2> QED
    BY <2>1, DomainFields
<1>5. PICK k \in 1 .. Len(Props) : Props[k] = dom[n].key.prop
  <2>1. dom[n].key.prop \in Range(Props)
    BY <1>4 DEF Keys
  <2> QED
    BY <2>1, PropAssumption DEF Range
<1>6. k \in Nat /\ 1 <= k
  BY <1>5, PropAssumption
<1>7. NotPassed(t, n, i, j, k)'
  BY <1>2, <1>5, <1>6 DEF NotPassed
<1>8. cache'[t][m] # <<Invalid>>
  BY DEF OwedFor
<1> QED
  BY <1>1, <1>2, <1>6, <1>7, <1>8 DEF OwedFor

\* A property that is given up is not the one of the context.
LEMMA NotThere ==
  ASSUME DomTypes, OneDomain, OpenTypes, NEW t \in Openers, NEW n, NEW i, NEW j, NEW q,
         FitsAt(t, n, i, j), dom[n].key.mode = Mode(t), NotPassed(t, n, i, j, q),
         \/ opc[t] = "search" /\ ~Usable(Lookup(SearchKey(t)))
         \/ opc[t] = "round" /\ loc[t].i >= Total(dom[loc[t].d])
  PROVE  loc[t].p < q
<1>1. n \in 1 .. Len(dom) /\ dom[n].valid
  BY DEF FitsAt
<1>2. q \in 1 .. Len(Props) /\ Props[q] = dom[n].key.prop /\ loc[t].p <= q
  BY DEF NotPassed
<1>3. loc[t].p \in 1 .. Len(Props) /\ loc[t].i \in Nat
  BY Counting
<1>4. CASE loc[t].p = q
  <2>1. CASE opc[t] = "search" /\ ~Usable(Lookup(SearchKey(t)))
    <3>1. dom[n].key \in Keys
      <4>1. dom[n] \in DomainType
        BY <1>1 DEF DomTypes, DomainFine
      <4> QED
        BY <4>1, DomainFields
    <3>2. SearchKey(t) = dom[n].key
      BY <3>1, <1>2, <1>4 DEF SearchKey, Keys
    <3>3. Lookup(SearchKey(t)) = n
      BY <3>2, <1>1, LookupOnly
    <3>4. Len(dom) \in Nat
      BY LenProperties DEF DomTypes
    <3>5. Usable(n)
      BY <3>4, <1>1 DEF Usable
    <3> QED
      BY <3>3, <3>5, <2>1
  <2>2. CASE opc[t] = "round" /\ loc[t].i >= Total(dom[loc[t].d])
    <3>1. loc[t].d = n /\ Ahead(dom[n], i, j, loc[t].i)
      BY <2>2, <1>4 DEF NotPassed
    <3>2. /\ Total(dom[n]) \in Nat /\ At(dom[n]) \in 1 .. Total(dom[n])
          /\ PlaceOf(dom[n], i, j) \in 1 .. Total(dom[n])
      BY FitsInside
    <3>3. loc[t].i < Total(dom[n])
      BY <3>1, <3>2, <1>3, AheadLess DEF Ahead
    <3> QED
      BY <3>1, <3>2, <3>3, <2>2, <1>3
  <2> QED
    BY <2>1, <2>2
<1> QED
  BY <1>2, <1>3, <1>4, PropAssumption

\* A session thread steps: what it is owed, one lemma for each kind of step.
LEMMA OwedNext ==
  ASSUME DomTypes, OneDomain, OpenTypes, OpenFitting, NEW t \in Openers, NEW m, OwedFor(t, m),
         SearchNext(t)
  PROVE  OwedFor(t, m)'
<1>1. /\ Stays /\ cache' = cache /\ opc[t] \in {"search", "round"} /\ opc'[t] = "search"
      /\ loc'[t].p = loc[t].p + 1 /\ loc'[t].m = loc[t].m
  BY SearchNextKeeps
<1>2. \/ opc[t] = "search" /\ ~Usable(Lookup(SearchKey(t)))
      \/ opc[t] = "round" /\ loc[t].i >= Total(dom[loc[t].d])
  BY DEF SearchNext
<1>3. DomTypes' /\ Grown
  BY <1>1, StaysKeeps
<1>4. Mode(t)' = Mode(t)
  BY <1>1 DEF Mode
<1>5. CASE m # Mode(t)
  <2>1. ~Searching(t, m)'
    BY <1>4, <1>5 DEF Searching
  <2> QED
    BY <2>1, <1>1, <1>3, OwedAside
<1>6. CASE m = Mode(t)
  <2>1. Searching(t, m)
    BY <1>1, <1>6 DEF Searching
  <2>2. PICK n \in Nat, i \in Nat, j \in Nat, q \in Nat :
          FitsAt(t, n, i, j) /\ dom[n].key.mode = m /\ NotPassed(t, n, i, j, q)
    BY <2>1 DEF OwedFor
  <2>3. loc[t].p < q
    BY <2>2, <1>2, <1>6, NotThere
  <2>4. FitsAt(t, n, i, j)' /\ dom'[n].key = dom[n].key
    BY <2>2, <1>3, FitsKept
  <2>5. q \in 1 .. Len(Props) /\ Props[q] = dom[n].key.prop /\ loc[t].p \in Nat
    BY <2>2, Counting, PropAssumption DEF NotPassed
  <2>6. loc'[t].p <= q
    BY <2>2, <2>3, <2>5, <1>1
  <2>7. NotPassed(t, n, i, j, q)'
    BY <2>4, <2>5, <2>6, <1>1 DEF NotPassed
  <2>8. cache'[t][m] # <<Invalid>>
    BY <1>1 DEF OwedFor
  <2> QED
    BY <2>2, <2>4, <2>7, <2>8 DEF OwedFor
<1> QED
  BY <1>5, <1>6

LEMMA OwedLookup ==
  ASSUME DomTypes, OneDomain, OpenTypes, OpenFitting, NEW t \in Openers, NEW m, OwedFor(t, m),
         SearchLookup(t)
  PROVE  OwedFor(t, m)'
<1>1. /\ Stays /\ cache' = cache /\ opc[t] = "search" /\ opc'[t] = "round"
      /\ loc'[t].p = loc[t].p /\ loc'[t].m = loc[t].m
      /\ loc'[t].d = Lookup(SearchKey(t)) /\ loc'[t].i = 0
  BY SearchLookupKeeps
<1>2. DomTypes' /\ Grown
  BY <1>1, StaysKeeps
<1>3. Mode(t)' = Mode(t)
  BY <1>1 DEF Mode
<1>4. CASE m # Mode(t)
  <2>1. ~Searching(t, m)'
    BY <1>3, <1>4 DEF Searching
  <2> QED
    BY <2>1, <1>1, <1>2, OwedAside
<1>5. CASE m = Mode(t)
  <2>1. Searching(t, m)
    BY <1>1, <1>5 DEF Searching
  <2>2. PICK n \in Nat, i \in Nat, j \in Nat, q \in Nat :
          FitsAt(t, n, i, j) /\ dom[n].key.mode = m /\ NotPassed(t, n, i, j, q)
    BY <2>1 DEF OwedFor
  <2>3. FitsAt(t, n, i, j)' /\ dom'[n].key = dom[n].key /\ dom' = dom
    BY <2>2, <1>1, <1>2, FitsKept DEF Stays
  <2>4. q \in 1 .. Len(Props) /\ Props[q] = dom[n].key.prop /\ loc[t].p <= q
    BY <2>2 DEF NotPassed
  <2>5. ASSUME loc[t].p = q PROVE loc'[t].d = n /\ Ahead(dom[n], i, j, 0)
    <3>1. n \in 1 .. Len(dom)
      BY <2>2 DEF FitsAt
    <3>2. dom[n] \in DomainType
      BY <3>1 DEF DomTypes, DomainFine
    <3>3. dom[n].key \in Keys
      BY <3>2, DomainFields
    <3>4. SearchKey(t) = dom[n].key
      BY <3>3, <2>2, <2>4, <2>5, <1>5 DEF SearchKey, Keys
    <3>5. Lookup(SearchKey(t)) = n
      BY <3>1, <3>4, LookupOnly
    <3>6. /\ Total(dom[n]) \in Nat /\ At(dom[n]) \in 1 .. Total(dom[n])
          /\ PlaceOf(dom[n], i, j) \in 1 .. Total(dom[n])
      BY <2>2, FitsInside
    <3>7. Ahead(dom[n], i, j, 0)
      BY <3>6, AheadStart DEF Ahead
    <3> QED
      BY <3>5, <3>7, <1>1
  <2>6. NotPassed(t, n, i, j, q)'
    BY <2>3, <2>4, <2>5, <1>1 DEF NotPassed
  <2>7. cache'[t][m] # <<Invalid>>
    BY <1>1 DEF OwedFor
  <2> QED
    BY <2>2, <2>3, <2>6, <2>7 DEF OwedFor
<1> QED
  BY <1>4, <1>5

LEMMA OwedTry ==
  ASSUME DomTypes, OneDomain, OpenTypes, OpenFitting, OpenDomain, NEW t \in Openers,
         NEW m \in ModeSet, OwedFor(t, m), SearchTry(t)
  PROVE  OwedFor(t, m)'
<1>1. /\ Picks(t) /\ opc[t] = "round"
      /\ IF Chosen(dom[loc[t].d]) \in Compat[t]
         THEN /\ opc'[t] \in {"filter", "open"}
              /\ \A k \in ModeSet : cache'[t][k] = <<Invalid>> => cache[t][k] = <<Invalid>>
         ELSE /\ cache' = cache /\ opc'[t] = "round"
              /\ loc'[t].p = loc[t].p /\ loc'[t].m = loc[t].m /\ loc'[t].d = loc[t].d
              /\ loc'[t].i = loc[t].i + 1
  BY SearchTryKeeps
<1>2. DomTypes' /\ Grown
  BY <1>1, PickEffect
<1>3. CASE Chosen(dom[loc[t].d]) \in Compat[t]
  <2>1. ~Searching(t, m)'
    BY <1>1, <1>3 DEF Searching
  <2> QED
    BY <2>1, <1>1, <1>2, <1>3, OwedAside
<1>4. CASE Chosen(dom[loc[t].d]) \notin Compat[t]
  <2>1. /\ cache' = cache /\ opc'[t] = "round"
        /\ loc'[t].p = loc[t].p /\ loc'[t].m = loc[t].m /\ loc'[t].d = loc[t].d
        /\ loc'[t].i = loc[t].i + 1
    BY <1>1, <1>4
  <2>2. Mode(t)' = Mode(t)
    BY <2>1 DEF Mode
  <2>3. CASE m # Mode(t)
    <3>1. ~Searching(t, m)'
      BY <2>2, <2>3 DEF Searching
    <3> QED
      BY <3>1, <2>1, <1>2, OwedAside
  <2>4. CASE m = Mode(t)
    <3>1. Searching(t, m)
      BY <1>1, <2>4 DEF Searching
    <3>2. PICK n \in Nat, i \in Nat, j \in Nat, q \in Nat :
            FitsAt(t, n, i, j) /\ dom[n].key.mode = m /\ NotPassed(t, n, i, j, q)
      BY <3>1 DEF OwedFor
    <3>3. /\ FitsAt(t, n, i, j)' /\ dom'[n].key = dom[n].key
          /\ PlaceOf(dom'[n], i, j) = PlaceOf(dom[n], i, j)
      BY <3>2, <1>2, FitsKept
    <3>4. q \in 1 .. Len(Props) /\ Props[q] = dom[n].key.prop /\ loc[t].p <= q
      BY <3>2 DEF NotPassed
    <3>5. ASSUME loc[t].p = q PROVE loc'[t].d = n /\ Ahead(dom'[n], i, j, loc[t].i + 1)
      <4>1. loc[t].d = n /\ Ahead(dom[n], i, j, loc[t].i)
        BY <3>2, <3>5, <1>1 DEF NotPassed
      <4>2. /\ n \in 1 .. Len(dom) /\ dom[n].valid /\ TakeNext(n)
        BY <4>1, <1>1 DEF Picks
      <4>3. dom'[n] = Advanced(dom[n]) /\ dom[n].segs # <<>>
        BY <4>2, DomPick
      <4>4. /\ DomainFine(dom[n]) /\ Total(dom[n]) \in Nat /\ At(dom[n]) \in 1 .. Total(dom[n])
            /\ PlaceOf(dom[n], i, j) \in 1 .. Total(dom[n])
            /\ (PlaceOf(dom[n], i, j) = At(dom[n]) => Chosen(dom[n]) \in Compat[t])
        BY <3>2, FitsInside
      <4>5. /\ Advanced(dom[n]).segs = dom[n].segs
            /\ At(dom'[n]) = IF At(dom[n]) < Total(dom[n]) THEN At(dom[n]) + 1 ELSE 1
        BY <4>3, <4>4, AdvancedFine
      <4>6. Total(dom'[n]) = Total(dom[n])
        BY <4>3, <4>5 DEF Total
      <4>7. PlaceOf(dom[n], i, j) # At(dom[n]) /\ loc[t].i \in Nat
        BY <4>1, <4>4, <1>4, Counting
      <4>8. AheadOf(PlaceOf(dom[n], i, j), At(dom[n]), Total(dom[n]), loc[t].i)
        BY <4>1 DEF Ahead
      <4>9. AheadOf(PlaceOf(dom[n], i, j),
                    IF At(dom[n]) < Total(dom[n]) THEN At(dom[n]) + 1 ELSE 1,
                    Total(dom[n]), loc[t].i + 1)
        BY <4>4, <4>7, <4>8, AheadNext
      <4>10. Ahead(dom'[n], i, j, loc[t].i + 1)
        BY <4>5, <4>6, <4>9, <3>3 DEF Ahead
      <4> QED
        BY <4>1, <4>10, <2>1
    <3>6. NotPassed(t, n, i, j, q)'
      BY <3>3, <3>4, <3>5, <2>1 DEF NotPassed
    <3>7. cache'[t][m] # <<Invalid>>
      BY <2>1 DEF OwedFor
    <3> QED
      BY <3>2, <3>3, <3>6, <3>7 DEF OwedFor
  <2> QED
    BY <2>3, <2>4
<1> QED
  BY <1>3, <1>4

LEMMA OwedFail ==
  ASSUME DomTypes, OneDomain, OpenTypes, OpenFitting, NEW t \in Openers, NEW m \in ModeSet,
         OwedFor(t, m), SearchFail(t)
  PROVE  OwedFor(t, m)'
<1>1. /\ Stays /\ opc[t] \in {"search", "round"} /\ opc'[t] \in {"filter", "open"}
      /\ \A k \in ModeSet : k # Mode(t) => cache'[t][k] = cache[t][k]
  BY SearchFailKeeps
<1>2. /\ \/ opc[t] = "search" /\ ~Usable(Lookup(SearchKey(t)))
         \/ opc[t] = "round" /\ loc[t].i >= Total(dom[loc[t].d])
      /\ loc[t].p = Len(Props)
  BY DEF SearchFail
<1>3. DomTypes' /\ Grown
  BY <1>1, StaysKeeps
<1>4. m # Mode(t)
  <2> SUFFICES ASSUME m = Mode(t) PROVE FALSE
    OBVIOUS
  <2>1. Searching(t, m)
    BY <1>1 DEF Searching
  <2>2. PICK n \in Nat, i \in Nat, j \in Nat, q \in Nat :
          FitsAt(t, n, i, j) /\ dom[n].key.mode = m /\ NotPassed(t, n, i, j, q)
    BY <2>1 DEF OwedFor
  <2>3. loc[t].p < q
    BY <2>2, <1>2, NotThere
  <2>4. q \in 1 .. Len(Props)
    BY <2>2 DEF NotPassed
  <2> QED
    BY <2>3, <2>4, <1>2, PropAssumption
<1>5. ~Searching(t, m)'
  BY <1>1 DEF Searching
<1> QED
  BY <1>1, <1>3, <1>4, <1>5, OwedAside

LEMMA OwedOwn ==
  ASSUME DomTypes, OneDomain, OpenTypes, OpenFitting, OpenDomain, NEW t \in Openers,
         NEW m \in ModeSet, OwedFor(t, m), OpenStep(t)
  PROVE  OwedFor(t, m)'
<1>a. ASSUME NEW S, opc'[t] \in S, S \cap {"search", "round"} = {} PROVE ~Searching(t, m)'
  BY <1>a DEF Searching
<1>1. CASE PrefetchNone(t)
  <2>1. /\ Stays /\ cache' = cache
        /\ opc'[t] \in {"lookup", "opened"}
    BY <1>1, PrefetchNoneKeeps
  <2> QED
    BY <2>1, <1>a, StaysKeeps, OwedAside
<1>2. CASE PrefetchLookup(t)
  <2>1. Stays /\ cache' = cache /\ opc'[t] \in {"pick"}
    BY <1>2, PrefetchLookupKeeps
  <2> QED
    BY <2>1, <1>a, StaysKeeps, OwedAside
<1>3. CASE PrefetchPick(t)
  <2>1. /\ Picks(t) /\ opc'[t] \in {"lookup", "opened"}
        /\ (cache'[t][m] = <<Invalid>> => cache[t][m] = <<Invalid>>)
    BY <1>3, PrefetchPickKeeps
  <2> QED
    BY <2>1, <1>a, PickEffect, OwedAside
<1>4. CASE OpenFail(t)
  <2>1. Stays /\ cache' = cache /\ opc'[t] \in {"idle"}
    BY <1>4, OpenFailKeeps
  <2> QED
    BY <2>1, <1>a, StaysKeeps, OwedAside
<1>5. CASE SetParam(t)
  <2>1. Stays /\ cache' = cache /\ opc'[t] \in {"filter"}
    BY <1>5, SetParamKeeps
  <2> QED
    BY <2>1, <1>a, StaysKeeps, OwedAside
<1>6. CASE FilterKeep(t)
  <2>1. /\ Stays /\ cache' = cache
        /\ opc'[t] \in {"filter", "open"}
    BY <1>6, FilterKeepKeeps
  <2> QED
    BY <2>1, <1>a, StaysKeeps, OwedAside
<1>7. CASE FilterSearch(t)
  <2>1. /\ Stays /\ cache' = cache /\ opc'[t] = "search"
        /\ loc'[t].p = 1
    BY <1>7, FilterSearchKeeps
  <2> QED
    BY <2>1, StaysKeeps, OwedSearch
<1>8. CASE SearchNext(t)
  BY <1>8, OwedNext
<1>9. CASE SearchLookup(t)
  BY <1>9, OwedLookup
<1>10. CASE SearchTry(t)
  BY <1>10, OwedTry
<1>11. CASE SearchFail(t)
  BY <1>11, OwedFail
<1> QED
  BY <1>1, <1>2, <1>3, <1>4, <1>5, <1>6, <1>7, <1>8, <1>9, <1>10, <1>11
     DEF OpenStep

\* A step inside a call: what is owed is not written, and the call is under way.
LEMMA OpenStepOwed ==
  ASSUME NEW t, OpenStep(t)
  PROVE  owed' = owed /\ ~Settled(t)
BY DEF OpenStep, PrefetchNone, PrefetchLookup, PrefetchPick, OpenFail,
   SetParam, FilterKeep,
   FilterSearch, SearchNext, SearchLookup, SearchTry, SearchFail, Settled

\* The keys of the domains are as they were.
LEMMA KeyOnceKept ==
  ASSUME DomTypes, KeyOnce, Grown, Len(dom') = Len(dom), UNCHANGED instVars
  PROVE  KeyOnce'
<1>1. OneDomain /\ \A t \in Callers : InsertFree(t)
  BY DEF KeyOnce
<1>2. OneDomain' /\ \A n \in 1 .. Len(dom') : dom'[n].key = dom[n].key
  BY <1>1, KeysKept
<1>3. ipc' = ipc /\ call' = call
  BY DEF instVars
<1>4. ASSUME NEW t \in Callers PROVE InsertFree(t)'
  <2>1. Current(t)' = Current(t) /\ InsertFree(t)
    BY <1>1, <1>3 DEF Current
  <2> QED
    BY <2>1, <1>2, <1>3 DEF InsertFree
<1> QED
  BY <1>2, <1>4 DEF KeyOnce

\* What is filed and fits when the session is asked for.
LEMMA PossibleFits ==
  ASSUME DomTypes, NEW t \in Openers, NEW m \in Possible(t)
  PROVE  \E n \in Nat, i \in Nat, j \in Nat : FitsAt(t, n, i, j) /\ dom[n].key.mode = m
<1>1. PICK d \in Range(dom) : d.valid /\ d.key.mode = m /\ Filed(d) \cap Compat[t] # {}
  BY DEF Possible
<1>2. dom \in Seq(DomainType) /\ Len(dom) \in Nat /\ DOMAIN dom = 1 .. Len(dom)
  BY LenProperties DEF DomTypes
<1>3. PICK n \in 1 .. Len(dom) : dom[n] = d
  BY <1>1, <1>2 DEF Range
<1>4. DomainFine(d)
  BY <1>3 DEF DomTypes
<1>5. d.segs \in Seq(SegType) /\ Segments(d.segs) /\ Len(d.segs) \in Nat
  BY <1>4, DomainFields, DomainSegments DEF DomainFine
<1>6. DOMAIN d.segs = 1 .. Len(d.segs)
  BY <1>5, LenProperties
<1>7. PICK x \in Compat[t] : x \in Filed(d)
  BY <1>1
<1>8. PICK i \in 1 .. Len(d.segs) : x \in d.segs[i].begin .. d.segs[i].end
  BY <1>6, <1>7 DEF Filed, Range
<1>9. d.segs[i].begin \in Nat /\ d.segs[i].end \in Nat
  BY <1>5, <1>8, SegmentSize
<1>10. PICK j \in Nat : j = x - d.segs[i].begin
  BY <1>8, <1>9
<1>11. d.segs[i].begin + j = x /\ x <= d.segs[i].end
  BY SMTT(30), <1>8, <1>9, <1>10
<1>12. FitsAt(t, n, i, j)
  BY <1>1, <1>3, <1>7, <1>8, <1>10, <1>11 DEF FitsAt
<1>13. n \in Nat /\ i \in Nat
  BY <1>2, <1>3, <1>5, <1>8
<1> QED
  BY <1>1, <1>3, <1>10, <1>12, <1>13

LEMMA OwedStart ==
  ASSUME DomTypes, OpenTypes, OwedAlone, Owed, NEW t \in Openers, OpenStart(t)
  PROVE  OwedAlone' /\ Owed'
<1>1. /\ OpenKeeps(t) /\ Stays /\ opc'[t] = "lookup"
      /\ \A m \in ModeSet : cache'[t][m] = <<>>
      /\ \A u \in Openers : u # t => owed'[u] = {m \in owed[u] : Settled(u)}
      /\ owed'[t] = {m \in Possible(t) : \A q \in Openers \ {t} : Settled(q)}
  BY OpenStartKeeps
<1>2. \A u \in Openers : u # t => opc'[u] = opc[u] /\ loc'[u] = loc[u] /\ cache'[u] = cache[u]
  BY <1>1 DEF OpenKeeps, OthersOpen
<1>3. DomTypes' /\ Grown /\ \A n \in 1 .. Len(dom) : StillAt(n)
  BY <1>1, StaysKeeps
<1>4. OwedAlone'
  <2>1. ASSUME NEW v \in Openers, owed'[v] # {}, ~Settled(v)', NEW u \in Openers, u # v
        PROVE  Settled(u)'
    <3>1. v = t
      BY <2>1, <1>1, <1>2 DEF Settled
    <3>2. Settled(u)
      BY <2>1, <3>1, <1>1
    <3> QED
      BY <2>1, <3>1, <3>2, <1>2 DEF Settled
  <2> QED
    BY <2>1 DEF OwedAlone
<1>5. ASSUME NEW u \in Openers, NEW m \in owed'[u] PROVE OwedFor(u, m)'
  <2>1. CASE u = t
    <3>1. m \in Possible(t) /\ m \in ModeSet
      BY <2>1, <1>1, <1>5, ModesAre DEF Possible
    <3>2. PICK n \in Nat, i \in Nat, j \in Nat : FitsAt(t, n, i, j) /\ dom[n].key.mode = m
      BY <3>1, PossibleFits
    <3>3. FitsAt(t, n, i, j)' /\ dom'[n].key = dom[n].key
      BY <3>2, <1>3, FitsKept
    <3>4. ~Searching(t, m)'
      BY <1>1 DEF Searching
    <3>5. cache'[t][m] # <<Invalid>>
      <4>1. cache'[t][m] = <<>> /\ Len(<<>>) = 0 /\ Len(<<Invalid>>) = 1
        BY <3>1, <1>1
      <4> QED
        BY <4>1
    <3> QED
      BY <2>1, <3>2, <3>3, <3>4, <3>5 DEF OwedFor
  <2>2. CASE u # t
    <3>1. m \in owed[u] /\ opc'[u] = opc[u] /\ loc'[u] = loc[u] /\ cache'[u] = cache[u]
      BY <2>2, <1>1, <1>2, <1>5
    <3>2. OwedFor(u, m)
      BY <3>1 DEF Owed
    <3> QED
      BY <3>1, <3>2, <1>3, OwedKept
  <2> QED
    BY <2>1, <2>2
<1> QED
  BY <1>4, <1>5 DEF Owed

LEMMA OwedStep ==
  ASSUME DomTypes, OpenTypes, OpenDomain, OpenFitting, OneDomain, OwedAlone, Owed,
         NEW t \in Openers, OpenStep(t)
  PROVE  OwedAlone' /\ Owed'
<1>1. DomTypes' /\ Grown /\ OthersOpen(t)
  BY OpenStepEffect DEF OpenEffect, OpenKeeps
<1>2. owed' = owed /\ ~Settled(t)
  BY OpenStepOwed
<1>3. \A u \in Openers : u # t => opc'[u] = opc[u] /\ loc'[u] = loc[u] /\ cache'[u] = cache[u]
  BY <1>1 DEF OthersOpen
<1>4. ASSUME NEW u \in Openers, u # t, owed[u] # {} PROVE Settled(u)
  BY <1>2, <1>4 DEF OwedAlone
<1>5. OwedAlone'
  <2>1. ASSUME NEW v \in Openers, owed'[v] # {}, ~Settled(v)', NEW u \in Openers, u # v
        PROVE  Settled(u)'
    <3>1. v = t
      BY <2>1, <1>2, <1>3, <1>4 DEF Settled
    <3>2. Settled(u)
      BY <2>1, <3>1, <1>2 DEF OwedAlone
    <3> QED
      BY <2>1, <3>1, <3>2, <1>3 DEF Settled
  <2> QED
    BY <2>1 DEF OwedAlone
<1>6. ASSUME NEW u \in Openers, NEW m \in owed'[u] PROVE OwedFor(u, m)'
  <2>1. m \in owed[u] /\ OwedFor(u, m) /\ m \in ModeSet
    BY <1>2, <1>6 DEF Owed, OpenTypes
  <2>2. CASE u = t
    BY <2>1, <2>2, OwedOwn
  <2>3. CASE u # t
    <3>1. ~Searching(u, m)
      BY <2>1, <2>3, <1>4 DEF Settled, Searching
    <3>2. opc'[u] = opc[u] /\ loc'[u] = loc[u] /\ cache'[u] = cache[u]
      BY <2>3, <1>3
    <3> QED
      BY <3>1, <3>2, <2>1, <1>1, OwedKept
  <2> QED
    BY <2>2, <2>3
<1> QED
  BY <1>5, <1>6 DEF Owed

LEMMA OwedInvStep ==
  ASSUME KeysApart, DomainInv, OwedInv, [Next]_vars
  PROVE  OwedInv'
<1>1. /\ DomTypes /\ InstTypes /\ OpenTypes /\ InstHas /\ OpenDomain /\ OpenFitting
      /\ KeyOnce /\ OneDomain /\ OwedAlone /\ Owed
  BY DEF DomainInv, OwedInv, KeyOnce
<1>2. ASSUME DomTypes', Grown, \A n \in 1 .. Len(dom) : StillAt(n), UNCHANGED openVars
      PROVE  OwedAlone' /\ Owed'
  <2>1. opc' = opc /\ loc' = loc /\ cache' = cache /\ owed' = owed
    BY <1>2 DEF openVars
  <2>2. OwedAlone'
    BY <2>1, <1>1 DEF OwedAlone, Settled
  <2>3. ASSUME NEW u \in Openers, NEW m \in owed'[u] PROVE OwedFor(u, m)'
    <3>1. OwedFor(u, m)
      BY <2>1, <2>3, <1>1 DEF Owed
    <3> QED
      BY <3>1, <2>1, <1>1, <1>2, OwedKept
  <2> QED
    BY <2>2, <2>3 DEF Owed
<1>3. ASSUME NEW t \in Callers, InstanceStep(t) PROVE OwedInv'
  <2>1. InstKeeps /\ KeyOnce' /\ UNCHANGED openVars
    BY <1>1, <1>3, KeyOnceInst
  <2>2. DomTypes' /\ Grown /\ \A n \in 1 .. Len(dom) : StillAt(n)
    BY <2>1 DEF InstKeeps
  <2> QED
    BY <2>1, <2>2, <1>2 DEF OwedInv
<1>4. ASSUME NEW t \in Openers, OpenEffect(t) PROVE KeyOnce'
  BY <1>1, <1>4, KeyOnceKept DEF OpenEffect
<1>5. ASSUME NEW t \in Openers, OpenStep(t) PROVE OwedInv'
  <2>1. OwedAlone' /\ Owed'
    BY <1>1, <1>5, OwedStep
  <2>2. KeyOnce'
    BY <1>1, <1>4, <1>5, OpenStepEffect
  <2> QED
    BY <2>1, <2>2 DEF OwedInv
<1>6. ASSUME NEW t \in Openers, OpenStart(t) PROVE OwedInv'
  <2>1. OwedAlone' /\ Owed'
    BY <1>1, <1>6, OwedStart
  <2>2. KeyOnce'
    BY <1>1, <1>4, <1>6, OpenStartEffect
  <2> QED
    BY <2>1, <2>2 DEF OwedInv
<1>7. CASE UNCHANGED vars
  <2>1. Stays /\ UNCHANGED instVars /\ UNCHANGED openVars
    BY <1>7 DEF vars, domVars, Stays
  <2>2. DomTypes' /\ Grown /\ (\A n \in 1 .. Len(dom) : StillAt(n)) /\ Len(dom') = Len(dom)
    BY <2>1, <1>1, StaysKeeps, StayEffect
  <2>3. KeyOnce'
    BY <2>1, <2>2, <1>1, KeyOnceKept
  <2> QED
    BY <2>1, <2>2, <2>3, <1>2 DEF OwedInv
<1> QED
  BY <1>3, <1>5, <1>6, <1>7 DEF Next

\* The parts make the invariants of the run.
LEMMA DomainFound ==
  ASSUME DomainInv, OneDomain
  PROVE  InstancedIsFound
<1>1. DomTypes /\ InstTypes /\ InstHas
  BY DEF DomainInv
<1>2. ASSUME NEW t \in Callers, NEW i \in 1 .. call[t] - 1, NEW c, c = Calls[t][i], c.begin <= c.end
      PROVE  Lookup(c.key) > 0 /\ c.begin .. c.end \subseteq Filed(dom[Lookup(c.key)])
  <2>1. IsFiled(c)
    BY <1>1, <1>2 DEF InstHas, InstHasOf
  <2>2. PICK n \in 1 .. Len(dom) : dom[n].key = c.key /\ HasSegment(n, c)
    BY <2>1 DEF IsFiled
  <2>3. Lookup(c.key) = n
    BY <2>2, <1>1, LookupOnly
  <2>4. Len(dom) \in Nat
    BY <1>1, LenProperties DEF DomTypes
  <2>5. PICK k \in 1 .. Len(dom[n].segs) : dom[n].segs[k] = [begin |-> c.begin, end |-> c.end]
    BY <2>2 DEF HasSegment
  <2>6. DOMAIN dom[n].segs = 1 .. Len(dom[n].segs)
    <3>1. dom[n] \in DomainType
      BY <2>2, <1>1 DEF DomTypes, DomainFine
    <3>2. dom[n].segs \in Seq(SegType)
      BY <3>1, DomainFields
    <3> QED
      BY <3>2, LenProperties
  <2>7. c.begin .. c.end \subseteq Filed(dom[n])
    <3>1. PICK s : s = dom[n].segs[k] /\ s.begin = c.begin /\ s.end = c.end
      BY <2>5
    <3>2. s \in Range(dom[n].segs)
      BY <3>1, <2>6 DEF Range
    <3>3. s.begin .. s.end \subseteq Filed(dom[n])
      BY <3>2 DEF Filed
    <3> QED
      BY <3>1, <3>3
  <2> QED
    BY <2>2, <2>3, <2>4, <2>7
<1> QED
  BY <1>2 DEF InstancedIsFound

LEMMA DomainFits ==
  ASSUME DomainInv, Owed
  PROVE  OpenFits
<1>1. ASSUME NEW t \in Openers, opc[t] = "open"
      PROVE  /\ \A m \in Range(Modes) : Range(cache[t][m]) \subseteq Compat[t] \cup {Invalid}
             /\ \A m \in owed[t] : cache[t][m] # <<Invalid>>
  <2>1. Fitting(t, "sync") /\ Fitting(t, "async")
    BY <1>1 DEF DomainInv, OpenFitting, OpenFittingOf
  <2>2. \A m \in owed[t] : cache[t][m] # <<Invalid>>
    BY DEF Owed, OwedFor
  <2>3. Range(Modes) = {"sync", "async"}
    BY ModesAre DEF ModeSet
  <2> QED
    BY <2>1, <2>2, <2>3 DEF Fitting
<1> QED
  BY <1>1 DEF OpenFits

\* A context range whose instance call has returned is found under its key, as long
\* as no two threads file contexts under one key (wd_sched_rr_instance,
\* wd_sched_hash_table_insert): two threads that look one key up before either has
\* inserted would each insert a domain, and the older is not found any more.
THEOREM InstancedFound == KeysApart => (Spec => []InstancedIsFound)
<1> SUFFICES ASSUME KeysApart PROVE Spec => []InstancedIsFound
  OBVIOUS
<1>1. Init => DomainInv /\ OwedInv
  BY DomainInit
<1>2. DomainInv /\ OwedInv /\ [Next]_vars => (DomainInv /\ OwedInv)'
  BY DomainStep, OwedInvStep
<1>3. DomainInv /\ OwedInv => InstancedIsFound
  BY DomainFound DEF OwedInv, KeyOnce
<1> QED
  BY <1>1, <1>2, <1>3, PTL DEF Spec

\* A session that was set up holds fitting contexts or entries marked invalid
\* (wd_sched_skey_compat_filter), and an entry is marked invalid only if nothing that
\* fits was filed for it (wd_sched_find_compat_ctx) or another session was set up
\* meanwhile.  The search of a session goes round the pointer it shares with the
\* instance threads, which append contexts under it.
THEOREM OpenFitsAlways == KeysApart => (Spec => []OpenFits)
<1> SUFFICES ASSUME KeysApart PROVE Spec => []OpenFits
  OBVIOUS
<1>1. Init => DomainInv /\ OwedInv
  BY DomainInit
<1>2. DomainInv /\ OwedInv /\ [Next]_vars => (DomainInv /\ OwedInv)'
  BY DomainStep, OwedInvStep
<1>3. DomainInv /\ OwedInv => OpenFits
  BY DomainFits DEF OwedInv
<1> QED
  BY <1>1, <1>2, <1>3, PTL DEF Spec

-----------------------------------------------------------------------------
\* The first domain implements RoundRobin.

\* A place of the ring is in one segment.
Holds(s, k, i) == i \in 1 .. Len(s) /\ Before(s, i - 1) < k /\ k <= Before(s, i)

LEMMA SegmentOf ==
  ASSUME NEW s, Segments(s), NEW k \in 1 .. Before(s, Len(s))
  PROVE  \E i : Holds(s, k, i)
<1>1. Len(s) \in Nat /\ Before(s, 0) = 0
  BY BeforeStep
<1>2. \A n \in 0 .. Len(s) : Before(s, n) \in Nat
  BY BeforeNat
<1> DEFINE T == {n \in 0 .. Len(s) : k <= Before(s, n)}
<1>3. T \in SUBSET Nat /\ T # {}
  <2>1. Len(s) \in T
    BY <1>1, <1>2
  <2> QED
    BY <2>1, <1>1
<1>4. PICK n \in T : \A y \in T : n <= y
  <2> HIDE DEF T
  <2> QED
    BY <1>3, LeastNat
<1>5. n \in 0 .. Len(s) /\ k <= Before(s, n)
  BY <1>4
<1>6. n # 0
  BY <1>1, <1>2, <1>5
<1>7. n \in 1 .. Len(s) /\ n - 1 \in 0 .. Len(s) /\ ~(n <= n - 1)
  BY <1>1, <1>5, <1>6
<1>8. n - 1 \notin T
  BY <1>4, <1>7
<1>9. ~(k <= Before(s, n - 1)) /\ Before(s, n - 1) \in Nat /\ Before(s, Len(s)) \in Nat
  BY <1>1, <1>2, <1>7, <1>8
<1>10. Before(s, n - 1) < k
  BY <1>9
<1> QED
  BY <1>5, <1>7, <1>10 DEF Holds

LEMMA SegmentOnly ==
  ASSUME NEW s, Segments(s), NEW k \in Int, NEW i, NEW n, Holds(s, k, i), Holds(s, k, n)
  PROVE  i = n
<1>1. /\ Len(s) \in Nat /\ i \in 1 .. Len(s) /\ n \in 1 .. Len(s)
      /\ Before(s, i - 1) < k /\ k <= Before(s, i) /\ Before(s, n - 1) < k /\ k <= Before(s, n)
  BY BeforeStep DEF Holds
<1>2. /\ i - 1 \in 0 .. Len(s) /\ n - 1 \in 0 .. Len(s) /\ i \in 0 .. Len(s) /\ n \in 0 .. Len(s)
  BY <1>1
<1>3. /\ Before(s, i - 1) \in Nat /\ Before(s, i) \in Nat /\ Before(s, n - 1) \in Nat
      /\ Before(s, n) \in Nat
  BY <1>2, BeforeNat
<1>4. ~(i <= n - 1)
  <2>1. SUFFICES ASSUME i <= n - 1 PROVE FALSE
    OBVIOUS
  <2>2. Before(s, i) <= Before(s, n - 1)
    BY <1>2, <2>1, BeforeGrows
  <2> QED
    BY <1>1, <1>3, <2>2
<1>5. ~(n <= i - 1)
  <2>1. SUFFICES ASSUME n <= i - 1 PROVE FALSE
    OBVIOUS
  <2>2. Before(s, n) <= Before(s, i - 1)
    BY <1>2, <2>1, BeforeGrows
  <2> QED
    BY <1>1, <1>3, <2>2
<1> QED
  BY <1>1, <1>4, <1>5

\* The ring is a sequence; what is at a place is in the segment that has it.
LEMMA RingPlace ==
  ASSUME NEW d, DomainFine(d), NEW k \in 1 .. Total(d), NEW i, Holds(d.segs, k, i)
  PROVE  Ring(d)[k] = d.segs[i].begin + (k - Before(d.segs, i - 1)) - 1
<1>1. Segments(d.segs) /\ Total(d) \in Nat
  BY DomainSegments, TotalNat
<1>2. PICK n : n = CHOOSE x \in 1 .. Len(d.segs) :
                     Before(d.segs, x - 1) < k /\ k <= Before(d.segs, x)
  OBVIOUS
<1>3. \E x \in 1 .. Len(d.segs) : Before(d.segs, x - 1) < k /\ k <= Before(d.segs, x)
  BY DEF Holds
<1>4. Holds(d.segs, k, n)
  BY <1>2, <1>3, Zenon DEF Holds
<1>5. k \in Int
  BY <1>1
<1>6. n = i
  BY <1>1, <1>4, <1>5, SegmentOnly
<1>7. Ring(d)[k] = d.segs[n].begin + (k - Before(d.segs, n - 1)) - 1
  BY <1>2, Zenon DEF Ring
<1> QED
  BY <1>6, <1>7

LEMMA RingSeq ==
  ASSUME NEW d, DomainFine(d)
  PROVE  Ring(d) \in Seq(Int) /\ Len(Ring(d)) = Total(d)
<1>1. Segments(d.segs) /\ Total(d) \in Nat /\ Len(d.segs) \in Nat
  BY DomainSegments, TotalNat
<1>2. ASSUME NEW k \in 1 .. Total(d) PROVE Ring(d)[k] \in Int
  <2>1. PICK i : Holds(d.segs, k, i)
    BY <1>1, SegmentOf DEF Total
  <2>2. i \in 1 .. Len(d.segs) /\ i - 1 \in 0 .. Len(d.segs)
    BY <2>1, <1>1 DEF Holds
  <2>3. d.segs[i].begin \in Nat /\ Before(d.segs, i - 1) \in Nat /\ k \in Int
    BY <2>2, <1>1, SegmentSize, BeforeNat
  <2>4. Ring(d)[k] = d.segs[i].begin + (k - Before(d.segs, i - 1)) - 1
    BY <2>1, RingPlace
  <2> QED
    BY <2>3, <2>4
<1>3. DOMAIN Ring(d) = 1 .. Total(d) /\ Ring(d) = [k \in 1 .. Total(d) |-> Ring(d)[k]]
  BY DEF Ring
<1>4. Ring(d) \in [1 .. Total(d) -> Int]
  BY <1>2, <1>3
<1>5. Ring(d) \in Seq(Int)
  BY <1>1, <1>4, SeqDef
<1> QED
  BY <1>1, <1>3, <1>5, LenProperties

\* The pointer is at the next pick.
LEMMA RingAt ==
  ASSUME NEW d, DomainFine(d), d.segs # <<>>
  PROVE  At(d) \in 1 .. Total(d) /\ Ring(d)[At(d)] = Chosen(d)
<1>1. /\ d.cur \in 1 .. Len(d.segs) /\ d.pos \in Nat
      /\ \E b \in Nat, z \in Nat \ {0}, T \in Nat :
           /\ b = Before(d.segs, d.cur - 1) /\ z = Size(d.segs[d.cur]) /\ T = Total(d)
           /\ Before(d.segs, d.cur) = b + z /\ b + z <= T
           /\ d.pos < z /\ At(d) = 1 + d.pos + b
  BY AtInside
<1>2. PICK b \in Nat, z \in Nat \ {0}, T \in Nat :
        /\ b = Before(d.segs, d.cur - 1) /\ T = Total(d)
        /\ Before(d.segs, d.cur) = b + z /\ b + z <= T
        /\ d.pos < z /\ At(d) = 1 + d.pos + b
  BY <1>1
<1>3. PICK p \in Nat : p = d.pos
  BY <1>1
<1>4. PICK k \in Nat : k = 1 + p + b
  OBVIOUS
<1>5. k \in 1 .. T /\ b < k /\ k <= b + z /\ k - b - 1 = p
  BY <1>2, <1>3, <1>4
<1>6. k = At(d) /\ k \in 1 .. Total(d) /\ Holds(d.segs, k, d.cur)
  BY <1>1, <1>2, <1>3, <1>4, <1>5 DEF Holds
<1>7. Ring(d)[k] = d.segs[d.cur].begin + (k - b) - 1
  BY <1>2, <1>6, RingPlace
<1>8. PICK y \in Nat : y = d.segs[d.cur].begin
  BY <1>1, SegmentSize, DomainSegments
<1>9. y + (k - b) - 1 = y + p
  BY <1>4
<1>10. Chosen(d) = y + p
  BY <1>3, <1>8 DEF Chosen
<1> QED
  BY <1>6, <1>7, <1>8, <1>9, <1>10

\* Segments are appended: the ring is extended at its end.
LEMMA RingGrows ==
  ASSUME NEW d, DomainFine(d), NEW e, DomainFine(e), Len(d.segs) <= Len(e.segs),
         \A i \in 1 .. Len(d.segs) : e.segs[i] = d.segs[i]
  PROVE  /\ Len(e.segs) = Len(d.segs) => Ring(e) = Ring(d)
         /\ Len(e.segs) # Len(d.segs) =>
              \E n \in 1 .. Len(Ring(e)) : Ring(d) = SubSeq(Ring(e), 1, n - 1)
<1>1. /\ Segments(d.segs) /\ Segments(e.segs) /\ Len(d.segs) \in Nat /\ Len(e.segs) \in Nat
      /\ Total(d) \in Nat /\ Total(e) \in Nat
  BY DomainSegments, TotalNat
<1>2. \A n \in 0 .. Len(d.segs) : Before(e.segs, n) = Before(d.segs, n)
  BY <1>1, BeforeKept
<1>3. Before(e.segs, Len(d.segs)) = Total(d)
  BY <1>1, <1>2 DEF Total
<1>4. Total(d) <= Total(e)
  <2>1. Len(d.segs) \in 0 .. Len(e.segs) /\ Len(e.segs) \in 0 .. Len(e.segs)
    BY <1>1
  <2>2. Before(e.segs, Len(d.segs)) <= Before(e.segs, Len(e.segs))
    BY <2>1, <1>1, BeforeGrows
  <2> QED
    BY <2>2, <1>3 DEF Total
<1>5. ASSUME NEW k \in 1 .. Total(d) PROVE Ring(e)[k] = Ring(d)[k]
  <2>1. PICK i : Holds(d.segs, k, i)
    BY <1>1, SegmentOf DEF Total
  <2>2. i \in 1 .. Len(d.segs) /\ Before(d.segs, i - 1) < k /\ k <= Before(d.segs, i)
    BY <2>1 DEF Holds
  <2>3. i \in 1 .. Len(e.segs) /\ i - 1 \in 0 .. Len(d.segs) /\ i \in 0 .. Len(d.segs)
    BY <2>2, <1>1
  <2>4. Before(e.segs, i - 1) = Before(d.segs, i - 1) /\ Before(e.segs, i) = Before(d.segs, i)
    BY <2>3, <1>2
  <2>5. Holds(e.segs, k, i)
    BY <2>2, <2>3, <2>4 DEF Holds
  <2>6. k \in 1 .. Total(e)
    BY <1>1, <1>4
  <2>7. Ring(d)[k] = d.segs[i].begin + (k - Before(d.segs, i - 1)) - 1
    BY <2>1, RingPlace
  <2>8. Ring(e)[k] = e.segs[i].begin + (k - Before(e.segs, i - 1)) - 1
    BY <2>5, <2>6, RingPlace
  <2> QED
    BY <2>2, <2>4, <2>7, <2>8
<1>6. /\ Ring(d) \in Seq(Int) /\ Len(Ring(d)) = Total(d)
      /\ Ring(e) \in Seq(Int) /\ Len(Ring(e)) = Total(e)
  BY RingSeq
<1>7. ASSUME Len(e.segs) = Len(d.segs) PROVE Ring(e) = Ring(d)
  <2>1. Total(e) = Total(d)
    BY <1>3, <1>7 DEF Total
  <2> QED
    BY <2>1, <1>5, <1>6, SeqEqual
<1>8. ASSUME Len(e.segs) # Len(d.segs)
      PROVE  \E n \in 1 .. Len(Ring(e)) : Ring(d) = SubSeq(Ring(e), 1, n - 1)
  <2>1. PICK m \in Nat : m = Len(d.segs)
    BY <1>1
  <2>2. m + 1 \in 1 .. Len(e.segs) /\ m + 1 \in 0 .. Len(e.segs) /\ Len(e.segs) \in 0 .. Len(e.segs)
    BY <2>1, <1>1, <1>8
  <2>3. Before(e.segs, m + 1) = Before(e.segs, m + 1 - 1) + Size(e.segs[m + 1])
        /\ Size(e.segs[m + 1]) \in Nat \ {0}
    BY <2>2, <1>1, BeforeStep
  <2>4. m + 1 - 1 = m
    BY <2>1
  <2>5. Before(e.segs, m + 1) <= Total(e)
    BY <2>2, <1>1, BeforeGrows DEF Total
  <2>6. Total(d) + 1 <= Total(e)
    <3>1. PICK z \in Nat \ {0} : Before(e.segs, m + 1) = Total(d) + z
      BY <2>1, <2>3, <2>4, <1>3
    <3> QED
      BY <3>1, <2>5, <1>1
  <2>7. PICK n \in Nat : n \in 1 .. Len(Ring(e)) /\ n - 1 = Total(d)
    <3>1. PICK n \in Nat : n = Total(d) + 1
      BY <1>1
    <3>2. n \in 1 .. Len(Ring(e)) /\ n - 1 = Total(d)
      BY <3>1, <2>6, <1>1, <1>6
    <3> QED
      BY <3>1, <3>2
  <2>8. \A k \in 1 .. Total(d) : Ring(e)[k] \in Int
    BY <1>1, <1>4, <1>6, ElementOfSeq
  <2>9. PICK r : r = SubSeq(Ring(e), 1, Total(d))
    OBVIOUS
  <2>10. /\ r \in Seq(Int) /\ Len(r) = (IF 1 <= Total(d) THEN Total(d) - 1 + 1 ELSE 0)
         /\ \A k \in 1 .. (Total(d) - 1 + 1) : r[k] = Ring(e)[1 + k - 1]
    <3>1. 1 \in Int /\ Total(d) \in Int
      BY <1>1
    <3> QED
      BY <3>1, <2>8, <2>9, SubSeqProperties
  <2>11. Len(r) = Total(d) /\ \A k \in 1 .. Total(d) : r[k] = Ring(e)[k]
    <3>1. Total(d) - 1 + 1 = Total(d) /\ \A k \in 1 .. Total(d) : 1 + k - 1 = k
      BY <1>1
    <3> QED
      BY <3>1, <2>10, <1>1
  <2>12. Ring(d) = r
    BY <2>10, <2>11, <1>5, <1>6, SeqEqual
  <2> QED
    BY <2>7, <2>9, <2>12
<1> QED
  BY <1>7, <1>8

\* What the ring, the pointer and the last pick of the first domain are.
RingNow == IF dom = <<>> THEN <<>> ELSE Ring(dom[1])
AtNow == IF dom = <<>> THEN 1 ELSE At(dom[1])
OutNow == IF dom = <<>> THEN Invalid ELSE last[1]

RotStays == RingNow' = RingNow /\ AtNow' = AtNow /\ OutNow' = OutNow
RotExtends == /\ \E n \in 1 .. Len(RingNow') : RingNow = SubSeq(RingNow', 1, n - 1)
              /\ AtNow' = AtNow /\ OutNow' = OutNow
RotPicks == /\ AtNow \in 1 .. Len(RingNow) /\ OutNow' = RingNow[AtNow]
            /\ AtNow' = (AtNow % Len(RingNow)) + 1 /\ RingNow' = RingNow
Rotates == RotStays \/ RotExtends \/ RotPicks

LEMMA FirstDomain ==
  ASSUME DomTypes
  PROVE  /\ Len(dom) \in Nat /\ (dom = <<>> <=> Len(dom) = 0)
         /\ dom # <<>> => (1 \in 1 .. Len(dom) /\ DomainFine(dom[1]) /\ 1 \in 1 .. Len(last))
<1>1. Len(dom) \in Nat /\ (dom # <<>> => Len(dom) # 0) /\ Len(<<>>) = 0
  BY LenProperties, EmptySeq DEF DomTypes
<1> QED
  BY <1>1 DEF DomTypes

LEMMA RotStaysWith ==
  ASSUME Stays
  PROVE  Rotates
BY DEF Stays, RingNow, AtNow, OutNow, Rotates, RotStays

\* Domains that only grow.
LEMMA RotGrows ==
  ASSUME DomTypes, DomTypes', Grown, dom # <<>>, StillAt(1), last'[1] = last[1]
  PROVE  Rotates
<1>1. 1 \in 1 .. Len(dom) /\ DomainFine(dom[1]) /\ Len(dom) \in Nat
  BY FirstDomain
<1>2. Len(dom') \in Nat /\ Len(dom) <= Len(dom')
  BY LenProperties DEF DomTypes, Grown
<1>3. 1 \in 1 .. Len(dom') /\ dom' # <<>>
  BY <1>1, <1>2, EmptySeq
<1>4. DomainFine(dom'[1])
  BY <1>3 DEF DomTypes
<1>5. /\ Len(dom[1].segs) <= Len(dom'[1].segs)
      /\ \A i \in 1 .. Len(dom[1].segs) : dom'[1].segs[i] = dom[1].segs[i]
  BY <1>1 DEF Grown
<1>6. \/ Ring(dom'[1]) = Ring(dom[1])
      \/ \E n \in 1 .. Len(Ring(dom'[1])) : Ring(dom[1]) = SubSeq(Ring(dom'[1]), 1, n - 1)
  BY <1>1, <1>4, <1>5, RingGrows
<1>7. /\ RingNow = Ring(dom[1]) /\ RingNow' = Ring(dom'[1])
      /\ AtNow = At(dom[1]) /\ AtNow' = At(dom'[1]) /\ OutNow = last[1] /\ OutNow' = last'[1]
  BY <1>3 DEF RingNow, AtNow, OutNow
<1>8. AtNow' = AtNow /\ OutNow' = OutNow
  BY <1>7 DEF StillAt
<1> QED
  BY <1>6, <1>7, <1>8 DEF Rotates, RotStays, RotExtends

LEMMA RotPick ==
  ASSUME DomTypes, NEW t, Picks(t)
  PROVE  Rotates
<1>1. PICK n : n = loc[t].d
  OBVIOUS
<1>2. n \in 1 .. Len(dom) /\ dom[n].valid /\ TakeNext(n)
  BY <1>1 DEF Picks
<1>3. /\ DomTypes' /\ Grown /\ dom'[n] = Advanced(dom[n]) /\ dom[n].segs # <<>>
      /\ (\A k \in 1 .. Len(dom) : k # n => StillAt(k)) /\ Len(dom') = Len(dom)
  BY <1>2, DomPick
<1>4. dom # <<>> /\ 1 \in 1 .. Len(dom) /\ DomainFine(dom[1]) /\ 1 \in 1 .. Len(last)
  BY <1>2, FirstDomain
<1>5. last' = [last EXCEPT ![n] = Chosen(dom[n])] /\ last \in Seq(Int) /\ Len(last) = Len(dom)
  BY <1>2 DEF TakeNext, DomTypes
<1>6. last'[1] = IF n = 1 THEN Chosen(dom[n]) ELSE last[1]
  <2>1. DOMAIN last = 1 .. Len(last)
    BY <1>5, LenProperties
  <2> QED
    BY <2>1, <1>4, <1>5
<1>7. CASE n # 1
  BY <1>3, <1>4, <1>6, <1>7, RotGrows
<1>8. CASE n = 1
  <2>1. dom' # <<>>
    BY <1>3, <1>4, FirstDomain, EmptySeq
  <2>2. /\ RingNow = Ring(dom[1]) /\ RingNow' = Ring(dom'[1])
        /\ AtNow = At(dom[1]) /\ AtNow' = At(dom'[1]) /\ OutNow' = last'[1]
    BY <2>1, <1>4 DEF RingNow, AtNow, OutNow
  <2>3. /\ Advanced(dom[1]).segs = dom[1].segs
        /\ At(Advanced(dom[1])) = IF At(dom[1]) < Total(dom[1]) THEN At(dom[1]) + 1 ELSE 1
    BY <1>3, <1>4, <1>8, AdvancedFine
  <2>4. Total(dom[1]) \in Nat /\ Len(Ring(dom[1])) = Total(dom[1])
    BY <1>4, TotalNat, RingSeq
  <2>5. At(dom[1]) \in 1 .. Total(dom[1]) /\ Ring(dom[1])[At(dom[1])] = Chosen(dom[1])
    BY <1>3, <1>4, <1>8, RingAt
  <2>6. Ring(dom'[1]) = Ring(dom[1])
    <3>1. DomainFine(dom'[1]) /\ dom'[1].segs = dom[1].segs
      BY <2>3, <1>3, <1>4, <1>8 DEF DomTypes
    <3>2. Len(dom[1].segs) \in Nat
      BY <1>4, DomainSegments
    <3> QED
      BY <3>1, <3>2, <1>4, RingGrows
  <2>7. PICK T \in Nat, k \in Nat : T = Total(dom[1]) /\ k = At(dom[1]) /\ k \in 1 .. T
    BY <2>4, <2>5
  <2>8. (k % T) + 1 = IF k < T THEN k + 1 ELSE 1
    <3>1. CASE k < T
      <4>1. k \in 0 .. T - 1 /\ T \in Nat \ {0} /\ T * 0 + k = k
        BY <3>1, <2>7
      <4>2. (T * 0 + k) % T = k
        BY <4>1, DivModOf
      <4> QED
        BY <3>1, <4>1, <4>2
    <3>2. CASE k = T
      <4>1. 0 \in 0 .. T - 1 /\ T \in Nat \ {0} /\ T * 1 + 0 = k /\ 1 \in Nat
        BY <3>2, <2>7
      <4>2. (T * 1 + 0) % T = 0
        BY <4>1, DivModOf
      <4> QED
        BY <3>2, <4>1, <4>2
    <3> QED
      BY <3>1, <3>2, <2>7
  <2>9. AtNow' = (AtNow % Len(RingNow)) + 1
    BY <2>2, <2>3, <2>4, <2>7, <2>8, <1>3, <1>8
  <2>10. AtNow \in 1 .. Len(RingNow) /\ OutNow' = RingNow[AtNow] /\ RingNow' = RingNow
    BY <2>2, <2>4, <2>5, <2>6, <1>6, <1>8
  <2> QED
    BY <2>9, <2>10 DEF Rotates, RotPicks
<1> QED
  BY <1>7, <1>8

\* The first insert makes an empty domain.
LEMMA RotFirst ==
  ASSUME DomTypes, DomTypes', dom = <<>>, NEW k, dom' = Append(dom, NewDomain(k)),
         last' = Append(last, Invalid)
  PROVE  Rotates
<1>1. Len(dom) = 0 /\ last \in Seq(Int) /\ Len(last) = 0 /\ dom \in Seq(DomainType)
  BY EmptySeq DEF DomTypes
<1>2. Len(dom') = 1 /\ dom'[1] = NewDomain(k) /\ last'[1] = Invalid
  <2>1. last = <<>>
    BY <1>1, EmptySeq
  <2> QED
    BY <2>1
<1>3. dom' # <<>> /\ 1 \in 1 .. Len(dom')
  BY <1>2, EmptySeq
<1>4. DomainFine(dom'[1])
  BY <1>3 DEF DomTypes
<1>5. dom'[1].segs = <<>> /\ dom'[1].cur = 1 /\ dom'[1].pos = 0
  BY <1>2 DEF NewDomain
<1>6. Segments(<<>>) /\ Len(<<>>) = 0
  BY <1>4, <1>5, DomainSegments
<1>7. Before(<<>>, 0) = 0
  BY <1>6, BeforeStep
<1>8. At(dom'[1]) = 1
  <2>1. 1 - 1 = 0 /\ 1 + 0 + 0 = 1
    OBVIOUS
  <2> QED
    BY <2>1, <1>5, <1>7 DEF At
<1>9. Total(dom'[1]) = 0
  BY <1>5, <1>6, <1>7 DEF Total
<1>10. Ring(dom'[1]) = <<>>
  BY <1>4, <1>9, RingSeq, EmptySeq
<1> QED
  BY <1>2, <1>3, <1>8, <1>10 DEF RingNow, AtNow, OutNow, Rotates, RotStays

LEMMA RotInstance ==
  ASSUME DomainInv, NEW t \in Callers, InstanceStep(t)
  PROVE  Rotates
<1>1. DomTypes /\ InstTypes /\ InstHas
  BY DEF DomainInv
<1>2. DomTypes' /\ Grown /\ \A n \in 1 .. Len(dom) : StillAt(n)
  BY <1>1, InstInv DEF InstKeeps
<1>3. ASSUME dom # <<>>, last'[1] = last[1] PROVE Rotates
  BY <1>1, <1>2, <1>3, FirstDomain, RotGrows
<1>4. CASE InstanceRefused(t) \/ InstanceLookup(t)
  <2>1. Stays
    BY <1>4 DEF InstanceRefused, InstanceLookup, domVars, Stays
  <2> QED
    BY <2>1, RotStaysWith
<1>5. CASE InstanceInsert(t)
  <2>1. dom' = Append(dom, NewDomain(Current(t).key)) /\ last' = Append(last, Invalid)
    BY <1>5 DEF InstanceInsert
  <2>2. CASE dom = <<>>
    BY <2>1, <2>2, <1>1, <1>2, RotFirst
  <2>3. CASE dom # <<>>
    <3>1. last \in Seq(Int) /\ 1 \in 1 .. Len(last) /\ Invalid \in Int
      BY <2>3, <1>1, FirstDomain DEF DomTypes, Invalid
    <3>2. last'[1] = last[1]
      BY <3>1, <2>1, AppendProperties
    <3> QED
      BY <3>2, <2>3, <1>3
  <2> QED
    BY <2>2, <2>3
<1>6. CASE InstanceAppend(t) \/ InstanceValid(t)
  <2>1. ipc[t] \in {"append", "valid"} /\ last' = last
    BY <1>6 DEF InstanceAppend, InstanceValid
  <2>2. target[t] \in 1 .. Len(dom)
    BY <2>1, <1>1 DEF InstHas, InstHasOf
  <2>3. dom # <<>>
    BY <2>2, <1>1, FirstDomain
  <2> QED
    BY <2>1, <2>3, <1>3
<1> QED
  BY <1>4, <1>5, <1>6 DEF InstanceStep

LEMMA RotOpen ==
  ASSUME DomainInv, NEW t \in Openers, OpenStep(t) \/ OpenStart(t)
  PROVE  Rotates
<1>1. DomTypes /\ OpenDomain
  BY DEF DomainInv
<1>2. CASE PrefetchPick(t) \/ SearchTry(t)
  <2>1. opc[t] \in {"pick", "round"} /\ TakeNext(loc[t].d)
    BY <1>2 DEF PrefetchPick, SearchTry
  <2>2. Picks(t)
    BY <2>1, <1>1 DEF OpenDomain, OpenDomainOf, Picks
  <2> QED
    BY <2>2, <1>1, RotPick
<1>3. CASE ~(PrefetchPick(t) \/ SearchTry(t))
  <2>1. Stays
    BY <1>3 DEF OpenStart, OpenStep, PrefetchNone, PrefetchLookup, OpenFail,
       SetParam, FilterKeep,
       FilterSearch, SearchNext, SearchLookup, SearchFail, domVars, Stays
  <2> QED
    BY <2>1, RotStaysWith
<1> QED
  BY <1>2, <1>3

\* The first domain goes round all its contexts one by one, whoever picks and
\* whenever segments are appended (wd_sched_domain_get_next_rr,
\* wd_sched_domain_add_segment): it implements RoundRobin.
THEOREM DomainRotates == Spec => FirstRotates
<1>1. Init => DomainInv
  BY DomainInit
<1>2. DomainInv /\ [Next]_vars => DomainInv'
  BY DomainStep
<1>3. Init => Rotation!Init
  <2> SUFFICES ASSUME Init PROVE Rotation!Init
    OBVIOUS
  <2>1. dom = <<>>
    BY DEF Init
  <2>2. Invalid \notin Ctxs
    <3>1. Invalid \notin Nat
      BY DEF Invalid
    <3> QED
      BY <3>1, CtxAssumption
  <2> QED
    BY <2>1, <2>2 DEF Rotation!Init
<1>4. DomainInv /\ [Next]_vars => [Rotation!Next]_(Rotation!vars)
  <2> SUFFICES ASSUME DomainInv, [Next]_vars PROVE [Rotation!Next]_(Rotation!vars)
    OBVIOUS
  <2>1. ASSUME NEW t \in Callers, InstanceStep(t) PROVE Rotates
    BY <2>1, RotInstance
  <2>2. ASSUME NEW t \in Openers, OpenStep(t) \/ OpenStart(t) PROVE Rotates
    BY <2>2, RotOpen
  <2>3. ASSUME UNCHANGED vars PROVE Rotates
    <3>1. Stays
      BY <2>3 DEF vars, domVars, Stays
    <3> QED
      BY <3>1, RotStaysWith
  <2>4. Rotates
    BY <2>1, <2>2, <2>3 DEF Next
  <2>5. CASE RotStays
    BY <2>5 DEF RotStays, RingNow, AtNow, OutNow, Rotation!vars
  <2>6. CASE RotExtends
    BY <2>6 DEF RotExtends, RingNow, AtNow, OutNow, Rotation!Next,
       Rotation!Extend
  <2>7. CASE RotPicks
    BY <2>7 DEF RotPicks, RingNow, AtNow, OutNow, Rotation!Next, Rotation!Pick
  <2> QED
    BY <2>4, <2>5, <2>6, <2>7 DEF Rotates
<1> QED
  BY <1>1, <1>2, <1>3, <1>4, PTL DEF Spec, FirstRotates, Rotation!Spec
=============================================================================
