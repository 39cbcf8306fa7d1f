--------------------------- MODULE ClassNamesProofs ---------------------------
(***************************************************************************)
(* Entities keep their own class names, for every number of entities and   *)
(* size of the pool.                                                       *)
(*                                                                         *)
(* The names in a file are right because the pool only grows while a file  *)
(* is open, because no name is put over another, and because a slot is     *)
(* looked up again whenever its handle changes: the only slots that can be *)
(* wrong are those that have kept a handle since an earlier map (stale).   *)
(* Slots are loaded one after the other, each with the pool that the ones  *)
(* before it leave: what a pool is like after the last of them is shown by *)
(* induction, that is by looking at the least number of slots for which it *)
(* would not be so.                                                        *)
(***************************************************************************)
EXTENDS ClassNames, WellFoundedInduction, TLAPS

\* Pool p holds names of this map, one after the other and without gaps.
GoodPool(p) ==
    /\ p.idx \in 1..PoolSize
    /\ \A o \in DOMAIN p.names :
        /\ o \in Nat \ {0} /\ p.names[o] \in Names
        /\ o + NameLength[p.names[o]] < p.idx /\ o + NameLength[p.names[o]] < PoolSize
    /\ \A h \in DOMAIN p.known :
        /\ h \in DOMAIN string
        /\ p.known[h] \in DOMAIN p.names /\ p.names[p.known[h]] = string[h]
    /\ \A byte \in 1..(p.idx - 1) :
        \E o \in DOMAIN p.names : byte \in o..(o + NameLength[p.names[o]])

\* Pool q has what p has.
Keeps(p, q) ==
    /\ p.idx <= q.idx
    /\ \A o \in DOMAIN p.names : o \in DOMAIN q.names /\ q.names[o] = p.names[o]

\* Slot s is right with pool p: a handle of this map is under its own name, or
\* without one because p has no room for it.
NamedIn(s, p) ==
    s.handle \in DOMAIN string =>
        IF s.name # 0
        THEN s.name \in DOMAIN p.names /\ p.names[s.name] = string[s.handle]
        ELSE NameLength[string[s.handle]] + p.idx + 1 >= PoolSize

TypedSlot(s) == s.handle \in Handles \cup {0} /\ s.name \in 0..PoolSize

MapRight ==
    /\ map \in 1..MaxMaps /\ changes \in 0..MaxChanges
    /\ string \in [Handles -> Names]
    /\ world \in [Edicts -> Handles \cup {0}]
    /\ stale \subseteq Edicts
    /\ open \in BOOLEAN /\ pc \in {"idle", "pool", "torn"}

FramesTyped ==
    /\ Len(frames) \in 0..MaxFrames
    /\ frames \in Seq([offset : [Edicts -> 0..PoolSize], class : [Edicts -> Names \cup {""}],
                       stale : SUBSET Edicts])

TypeInv ==
    /\ MapRight
    /\ FramesTyped
    /\ GoodPool(Pool)
    /\ \A i \in Edicts : TypedSlot(slots[i])

\* A slot with a handle that was looked up on this map is right.
SlotsRight == \A i \in Edicts \ stale : NamedIn(slots[i], Pool)

\* The entities of frame f are under their own names in names.
NamedBy(f, names) ==
    \A i \in Edicts \ f.stale : f.offset[i] # 0 =>
        f.offset[i] \in DOMAIN names /\ names[f.offset[i]] = f.class[i]

FramesRight ==
    /\ pc = "pool" => open /\ Len(frames) > 0 /\ NamedBy(frames[Len(frames)], pool)
    /\ pc = "torn" => ~open
    /\ open => \A o \in DOMAIN disk : o \in DOMAIN pool /\ pool[o] = disk[o]
    /\ \A n \in 1..Len(frames) : n < Len(frames) \/ pc = "idle" => NamedBy(frames[n], disk)

NameInv == TypeInv /\ SlotsRight /\ FramesRight

-----------------------------------------------------------------------------
(* Induction up to a number *)

\* Of some numbers one is the least.
LEMMA LeastNumber ==
    ASSUME NEW S \in SUBSET Nat, S # {}
    PROVE  \E n \in S : \A k \in S : n <= k
<1> DEFINE R == OpToRel(<, Nat)
<1>1. IsWellFoundedOn(R, Nat)
  BY NatLessThanWellFounded
<1> HIDE DEF R
<1>2. PICK n \in S : \A k \in S : ~(<<k, n>> \in R)
  BY <1>1, WFMin
<1>3. n \in Nat /\ \A k \in S : k \in Nat /\ (k < n => <<k, n>> \in R)
  BY DEF R, OpToRel
<1>4. n \in Nat /\ \A k \in S : k \in Nat /\ ~(k < n)
  BY <1>2, <1>3
<1>5. QED
  BY <1>4

\* A set with 0 and, below N, with the next of its numbers has all up to N.
LEMMA Induction ==
    ASSUME NEW N \in Nat, NEW S \in SUBSET Nat, 0 \in S,
           \A n \in Nat : n < N /\ n \in S => n + 1 \in S
    PROVE  \A n \in 0..N : n \in S
<1> DEFINE T == {n \in 0..N : n \notin S}
<1> SUFFICES ASSUME T # {} PROVE FALSE
  OBVIOUS
<1>1. PICK n \in T : \A k \in T : n <= k
  <2>1. T \in SUBSET Nat
    OBVIOUS
  <2> HIDE DEF T
  <2>2. QED
    BY <2>1, LeastNumber
<1>2. n # 0 /\ n - 1 \in Nat /\ n - 1 < N
  OBVIOUS
<1>3. n - 1 \in S
  BY <1>1, <1>2
<1>4. (n - 1) + 1 \in S
  BY <1>2, <1>3
<1>5. QED
  BY <1>2, <1>4

-----------------------------------------------------------------------------
(* The pool, slot after slot *)

\* The pool after slot i, which finds p.
After(p, i) == IF CachedIn(slots[i], world[i]) THEN p ELSE LookedUp(p, world[i])

\* The pools up to slot n.
PoolsUpTo(f, n) == f = [i \in 0..n |-> IF i = 0 THEN Pool ELSE After(f[i - 1], i - 1)]

\* Each slot is loaded with the pool that the slot before it leaves.
LEMMA PoolBeforeDef ==
    /\ PoolBefore[0] = Pool
    /\ \A i \in Edicts : PoolBefore[i + 1] = After(PoolBefore[i], i)
<1>1. NumEdicts \in Nat \ {0}
  BY NamesAssumption
<1> DEFINE S == {n \in Nat : \E f : PoolsUpTo(f, n)}
<1>2. 0 \in S
  <2>1. PoolsUpTo([i \in 0..0 |-> Pool], 0)
    BY DEF PoolsUpTo
  <2>2. QED
    BY <2>1
<1>3. ASSUME NEW n \in Nat, n \in S PROVE n + 1 \in S
  <2>1. PICK f : PoolsUpTo(f, n)
    BY <1>3
  <2> DEFINE g == [i \in 0..(n + 1) |-> IF i = 0 THEN Pool ELSE After(f[i - 1], i - 1)]
  <2>2. \A i \in 0..n : g[i] = f[i]
    BY <2>1 DEF PoolsUpTo
  <2>3. \A i \in 0..(n + 1) : i # 0 => i - 1 \in 0..n
    OBVIOUS
  <2>4. PoolsUpTo(g, n + 1)
    BY <2>2, <2>3 DEF PoolsUpTo
  <2>5. QED
    BY <2>4
<1> HIDE DEF S
<1>4. NumEdicts \in S
  <2>1. S \in SUBSET Nat
    BY DEF S
  <2>2. \A n \in 0..NumEdicts : n \in S
    BY <1>1, <1>2, <1>3, <2>1, Induction
  <2>3. QED
    BY <1>1, <2>2
<1>5. PICK f : PoolsUpTo(f, NumEdicts)
  BY <1>4 DEF S
<1>6. PoolsUpTo(PoolBefore, NumEdicts)
  BY <1>5 DEF PoolBefore, PoolsUpTo, After
<1>7. \A i \in Edicts : i + 1 \in 0..NumEdicts /\ i + 1 # 0 /\ (i + 1) - 1 = i
  BY <1>1 DEF Edicts
<1>8. \A i \in 0..NumEdicts :
        PoolBefore[i] = IF i = 0 THEN Pool ELSE After(PoolBefore[i - 1], i - 1)
  BY <1>6 DEF PoolsUpTo
<1>9. 0 \in 0..NumEdicts
  BY <1>1
<1>10. QED
  BY <1>7, <1>8, <1>9

\* A longer pool keeps what a pool has, and so on.
LEMMA KeepsTransitive ==
    ASSUME NEW p, NEW q, NEW r, GoodPool(p), GoodPool(q), GoodPool(r), Keeps(p, q), Keeps(q, r)
    PROVE  Keeps(p, r) /\ Keeps(p, p)
<1>1. p.idx \in Nat /\ q.idx \in Nat /\ r.idx \in Nat
  BY NamesAssumption DEF GoodPool
<1>2. p.idx <= r.idx
  BY <1>1 DEF Keeps
<1>3. QED
  BY <1>1, <1>2 DEF Keeps

\* A name that is new goes behind the others, and is found there.
LEMMA AddedName ==
    ASSUME NEW p, GoodPool(p), NEW h \in DOMAIN string, string \in [DOMAIN string -> Names],
           h \notin DOMAIN p.known, Fits(p, string[h])
    PROVE  /\ GoodPool(LookedUp(p, h)) /\ Keeps(p, LookedUp(p, h))
           /\ p.idx \in DOMAIN LookedUp(p, h).names
           /\ LookedUp(p, h).names[p.idx] = string[h]
<1> DEFINE name == string[h]
           len == NameLength[string[h]]
           q == LookedUp(p, h)
<1>1. name \in Names /\ len \in Nat \ {0} /\ PoolSize \in Nat
  BY NamesAssumption
<1>2. p.idx \in Nat \ {0} /\ len + p.idx + 1 < PoolSize
  BY DEF GoodPool, Fits
<1>3. /\ q.idx = p.idx + len + 1
      /\ q.names = [o \in DOMAIN p.names \cup {p.idx} |->
                        IF o = p.idx THEN name ELSE p.names[o]]
      /\ q.known = [k \in DOMAIN p.known \cup {h} |-> IF k = h THEN p.idx ELSE p.known[k]]
  BY DEF LookedUp
<1> HIDE DEF q, name
<1>4. \A o \in DOMAIN p.names :
        /\ o \in Nat \ {0} /\ p.names[o] \in Names /\ NameLength[p.names[o]] \in Nat
        /\ o + NameLength[p.names[o]] < p.idx /\ o + NameLength[p.names[o]] < PoolSize
  BY NamesAssumption DEF GoodPool
<1>5. \A o \in DOMAIN p.names : o # p.idx
  BY <1>2, <1>4
<1>6. /\ DOMAIN q.names = DOMAIN p.names \cup {p.idx} /\ q.names[p.idx] = name
      /\ \A o \in DOMAIN p.names : q.names[o] = p.names[o]
  BY <1>3, <1>5
<1>7. Keeps(p, q)
  BY <1>1, <1>2, <1>3, <1>6 DEF Keeps
<1>8. q.idx \in 1..PoolSize
  BY <1>1, <1>2, <1>3
<1>9. ASSUME NEW o \in DOMAIN q.names
      PROVE  /\ o \in Nat \ {0} /\ q.names[o] \in Names
             /\ o + NameLength[q.names[o]] < q.idx /\ o + NameLength[q.names[o]] < PoolSize
  <2>1. CASE o = p.idx
    BY <2>1, <1>1, <1>2, <1>3, <1>6 DEF name
  <2>2. CASE o # p.idx
    BY <2>2, <1>1, <1>2, <1>3, <1>4, <1>6
  <2>3. QED
    BY <2>1, <2>2
<1>10. ASSUME NEW k \in DOMAIN q.known
       PROVE  /\ k \in DOMAIN string
              /\ q.known[k] \in DOMAIN q.names /\ q.names[q.known[k]] = string[k]
  <2>1. CASE k = h
    BY <2>1, <1>3, <1>6 DEF name
  <2>2. CASE k # h
    <3>1. k \in DOMAIN p.known /\ q.known[k] = p.known[k]
      BY <2>2, <1>3
    <3>2. QED
      BY <3>1, <1>6 DEF GoodPool
  <2>3. QED
    BY <2>1, <2>2
<1>11. ASSUME NEW byte \in 1..(q.idx - 1)
       PROVE  \E o \in DOMAIN q.names : byte \in o..(o + NameLength[q.names[o]])
  <2>1. CASE byte < p.idx
    <3>1. byte \in 1..(p.idx - 1)
      BY <2>1, <1>2
    <3>2. PICK o \in DOMAIN p.names : byte \in o..(o + NameLength[p.names[o]])
      BY <3>1 DEF GoodPool
    <3>3. QED
      BY <3>2, <1>6
  <2>2. CASE byte >= p.idx
    <3>1. byte \in p.idx..(p.idx + len)
      BY <2>2, <1>1, <1>2, <1>3
    <3>2. QED
      BY <3>1, <1>6 DEF name
  <2>3. QED
    BY <2>1, <2>2, <1>2
<1>12. GoodPool(q)
  BY <1>8, <1>9, <1>10, <1>11 DEF GoodPool
<1>13. QED
  BY <1>6, <1>7, <1>12 DEF q, name

\* A handle is looked up without harm, and what is found is its name, or 0 when
\* the pool has no room for it.
LEMMA LookUpFacts ==
    ASSUME NEW p, GoodPool(p), NEW h \in DOMAIN string, string \in [DOMAIN string -> Names]
    PROVE  /\ GoodPool(LookedUp(p, h)) /\ Keeps(p, LookedUp(p, h))
           /\ OffsetOf(p, h) \in 0..PoolSize
           /\ IF OffsetOf(p, h) # 0
              THEN /\ OffsetOf(p, h) \in DOMAIN LookedUp(p, h).names
                   /\ LookedUp(p, h).names[OffsetOf(p, h)] = string[h]
              ELSE NameLength[string[h]] + LookedUp(p, h).idx + 1 >= PoolSize
<1>1. /\ p.idx \in 1..PoolSize /\ PoolSize \in Nat
      /\ string[h] \in Names /\ NameLength[string[h]] \in Nat
  BY NamesAssumption DEF GoodPool
<1>2. Keeps(p, p)
  BY <1>1 DEF Keeps
<1>3. CASE h \in DOMAIN p.known
  <2>1. LookedUp(p, h) = p /\ OffsetOf(p, h) = p.known[h]
    BY <1>3 DEF LookedUp, OffsetOf
  <2>2. p.known[h] \in DOMAIN p.names /\ p.names[p.known[h]] = string[h]
    BY <1>3 DEF GoodPool
  <2>3. /\ p.known[h] \in Nat \ {0}
        /\ p.known[h] + NameLength[p.names[p.known[h]]] < PoolSize
    BY <2>2 DEF GoodPool
  <2>4. p.known[h] \in 0..PoolSize
    BY <2>2, <2>3, <1>1
  <2>5. QED
    BY <2>1, <2>2, <2>3, <2>4, <1>2
<1>4. CASE h \notin DOMAIN p.known /\ Fits(p, string[h])
  <2>1. OffsetOf(p, h) = p.idx
    BY <1>4 DEF OffsetOf
  <2>2. p.idx # 0 /\ p.idx \in 0..PoolSize
    BY <1>1
  <2>3. QED
    BY <2>1, <2>2, <1>4, AddedName
<1>5. CASE h \notin DOMAIN p.known /\ ~Fits(p, string[h])
  <2>1. LookedUp(p, h) = p /\ OffsetOf(p, h) = 0
    BY <1>5 DEF LookedUp, OffsetOf
  <2>2. NameLength[string[h]] + p.idx + 1 >= PoolSize
    BY <1>1, <1>5 DEF Fits
  <2>3. QED
    BY <2>1, <2>2, <1>1, <1>2
<1>6. QED
  BY <1>3, <1>4, <1>5

\* A slot that is loaded keeps the pool good.
LEMMA AfterFacts ==
    ASSUME TypeInv, NEW p, GoodPool(p), NEW i \in Edicts
    PROVE  GoodPool(After(p, i)) /\ Keeps(p, After(p, i))
<1>1. CASE CachedIn(slots[i], world[i])
  BY <1>1, KeepsTransitive DEF After, Keeps, GoodPool
<1>2. CASE ~CachedIn(slots[i], world[i])
  <2>1. world[i] \in DOMAIN string /\ string \in [DOMAIN string -> Names]
    BY <1>2 DEF CachedIn, TypeInv, MapRight
  <2>2. QED
    BY <1>2, <2>1, LookUpFacts DEF After
<1>3. QED
  BY <1>1, <1>2

\* Every slot finds a good pool.
LEMMA PoolsGood ==
    ASSUME TypeInv
    PROVE  \A i \in 0..NumEdicts : GoodPool(PoolBefore[i])
<1> DEFINE S == {n \in Nat : GoodPool(PoolBefore[n])}
<1>1. NumEdicts \in Nat
  BY NamesAssumption
<1>2. 0 \in S
  BY PoolBeforeDef DEF TypeInv
<1>3. ASSUME NEW n \in Nat, n < NumEdicts, n \in S PROVE n + 1 \in S
  <2>1. n \in Edicts
    BY <1>1, <1>3 DEF Edicts
  <2>2. PoolBefore[n + 1] = After(PoolBefore[n], n)
    BY <2>1, PoolBeforeDef
  <2>3. QED
    BY <1>3, <2>1, <2>2, AfterFacts
<1>4. S \in SUBSET Nat
  OBVIOUS
<1> HIDE DEF S
<1>5. \A n \in 0..NumEdicts : n \in S
  BY <1>1, <1>2, <1>3, <1>4, Induction
<1>6. QED
  BY <1>5 DEF S

\* The last pool has what each of them has.
LEMMA PoolsGrow ==
    ASSUME TypeInv
    PROVE  \A i \in 0..NumEdicts : Keeps(PoolBefore[i], PoolBefore[NumEdicts])
<1> DEFINE S == {n \in Nat : \A i \in 0..NumEdicts :
                                i <= n => Keeps(PoolBefore[i], PoolBefore[n])}
<1>1. NumEdicts \in Nat /\ S \in SUBSET Nat
  BY NamesAssumption
<1>2. \A i \in 0..NumEdicts : GoodPool(PoolBefore[i]) /\ Keeps(PoolBefore[i], PoolBefore[i])
  <2>1. \A i \in 0..NumEdicts : GoodPool(PoolBefore[i])
    BY PoolsGood
  <2>2. \A i \in 0..NumEdicts : PoolBefore[i].idx \in Int
    BY <2>1, NamesAssumption DEF GoodPool
  <2>3. QED
    BY <2>1, <2>2 DEF Keeps
<1>3. 0 \in S
  BY <1>1, <1>2
<1>4. ASSUME NEW n \in Nat, n < NumEdicts, n \in S PROVE n + 1 \in S
  <2>1. n \in Edicts /\ n \in 0..NumEdicts /\ n + 1 \in 0..NumEdicts
    BY <1>1, <1>4 DEF Edicts
  <2>2. Keeps(PoolBefore[n], PoolBefore[n + 1])
    BY <2>1, <1>2, PoolBeforeDef, AfterFacts
  <2>3. ASSUME NEW i \in 0..NumEdicts, i <= n + 1
        PROVE  Keeps(PoolBefore[i], PoolBefore[n + 1])
    <3>1. CASE i = n + 1
      BY <3>1, <1>2
    <3>2. CASE i # n + 1
      <4>1. i <= n
        BY <1>1, <2>3, <3>2
      <4>2. Keeps(PoolBefore[i], PoolBefore[n])
        BY <4>1, <1>4
      <4>3. QED
        BY <4>2, <2>1, <2>2, <1>2, KeepsTransitive
    <3>3. QED
      BY <3>1, <3>2
  <2>4. QED
    BY <2>3
<1> HIDE DEF S
<1>5. NumEdicts \in S
  BY <1>1, <1>3, <1>4, Induction
<1>6. QED
  BY <1>1, <1>5 DEF S

\* 0 is no handle.
LEMMA NoHandle == 0 \notin Handles
BY NamesAssumption DEF Handles

\* What loading all slots does to the pool and the slots.
LEMMA LoadFacts ==
    ASSUME TypeInv, LoadAll, string' = string
    PROVE  /\ GoodPool(Pool)' /\ Keeps(Pool, Pool')
           /\ \A i \in Edicts :
                IF world[i] = 0 THEN slots'[i] = NoSlot
                ELSE /\ slots'[i].handle = world[i] /\ TypedSlot(slots'[i])
                     /\ i \in stale' \/ (i \notin stale /\ ~NamedIn(slots[i], Pool))
                            \/ NamedIn(slots[i], Pool)'
<1> DEFINE last == PoolBefore[NumEdicts]
<1>1. NumEdicts \in Nat \ {0} /\ PoolSize \in Nat
  BY NamesAssumption
<1>2. GoodPool(last) /\ \A i \in 0..NumEdicts : GoodPool(PoolBefore[i]) /\ Keeps(PoolBefore[i], last)
  BY <1>1, PoolsGood, PoolsGrow
<1>3. Pool'.names = last.names /\ Pool'.idx = last.idx /\ Pool'.known = last.known
  BY DEF LoadAll, Pool
<1> HIDE DEF last
<1>4. GoodPool(Pool)'
  BY <1>2, <1>3 DEF GoodPool
<1>5. Keeps(Pool, Pool')
  <2>1. Keeps(Pool, last)
    BY <1>1, <1>2, PoolBeforeDef
  <2>2. QED
    BY <2>1, <1>3 DEF Keeps
<1>6. ASSUME NEW i \in Edicts, world[i] # 0
      PROVE  /\ slots'[i].handle = world[i] /\ TypedSlot(slots'[i])
             /\ i \in stale' \/ (i \notin stale /\ ~NamedIn(slots[i], Pool))
                    \/ NamedIn(slots[i], Pool)'
  <2> DEFINE h == world[i]
             p == PoolBefore[i]
  <2>1. h \in DOMAIN string /\ string \in [DOMAIN string -> Names]
    BY <1>6 DEF TypeInv, MapRight
  <2>2. slots'[i] = Load(slots[i], h, p) /\ Loaded[i] = slots'[i]
    BY DEF LoadAll, Loaded
  <2>3. CASE slots[i].handle = h
    <3>1. slots'[i] = slots[i]
      BY <2>2, <2>3, <1>6 DEF Load
    <3>2. TypedSlot(slots'[i])
      BY <3>1 DEF TypeInv
    <3>3. ASSUME NamedIn(slots[i], Pool) PROVE NamedIn(slots[i], Pool)'
      <4>1. CASE slots[i].name # 0
        BY <3>1, <3>3, <4>1, <1>5, <2>1, <2>3 DEF NamedIn, Keeps
      <4>2. CASE slots[i].name = 0
        <5>1. NameLength[string[h]] + Pool.idx + 1 >= PoolSize
          BY <3>3, <4>2, <2>1, <2>3 DEF NamedIn
        <5>2. /\ NameLength[string[h]] \in Nat /\ Pool.idx \in Nat /\ Pool'.idx \in Nat
              /\ Pool.idx <= Pool'.idx
          BY <2>1, <1>2, <1>3, <1>5, NamesAssumption DEF TypeInv, GoodPool, Keeps
        <5>3. NameLength[string[h]] + Pool'.idx + 1 >= PoolSize
          BY <5>1, <5>2, <1>1
        <5>4. QED
          BY <5>3, <3>1, <4>2, <2>3 DEF NamedIn
      <4>3. QED
        BY <4>1, <4>2
    <3>4. i \in stale => i \in stale'
      BY <3>1, <2>2 DEF LoadAll
    <3>5. QED
      BY <2>3, <3>1, <3>2, <3>3, <3>4
  <2>4. CASE slots[i].handle # h
    <3>1. slots'[i].handle = h /\ slots'[i].name = OffsetOf(p, h)
      BY <2>2, <2>4, <1>6 DEF Load
    <3>2. i \in 0..NumEdicts /\ i + 1 \in 0..NumEdicts
      BY <1>1 DEF Edicts
    <3>3. PoolBefore[i + 1] = LookedUp(p, h)
      BY <2>4, <1>6, PoolBeforeDef DEF After, CachedIn
    <3>4. Keeps(LookedUp(p, h), last) /\ GoodPool(LookedUp(p, h)) /\ GoodPool(p)
      BY <3>2, <3>3, <1>2
    <3> HIDE DEF h, p
    <3>5. /\ OffsetOf(p, h) \in 0..PoolSize
          /\ IF OffsetOf(p, h) # 0
             THEN /\ OffsetOf(p, h) \in DOMAIN LookedUp(p, h).names
                  /\ LookedUp(p, h).names[OffsetOf(p, h)] = string[h]
             ELSE NameLength[string[h]] + LookedUp(p, h).idx + 1 >= PoolSize
      BY <2>1, <3>4, LookUpFacts
    <3>6. h \in Handles
      BY <2>1 DEF TypeInv, MapRight, h
    <3>7. TypedSlot(slots'[i])
      BY <3>1, <3>5, <3>6 DEF TypedSlot
    <3>8. NamedIn(slots[i], Pool)'
      <4>1. CASE slots'[i].name # 0
        BY <4>1, <3>1, <3>4, <3>5, <1>3 DEF NamedIn, Keeps
      <4>2. CASE slots'[i].name = 0
        <5>1. NameLength[string[h]] + LookedUp(p, h).idx + 1 >= PoolSize
          BY <4>2, <3>1, <3>5
        <5>2. /\ NameLength[string[h]] \in Nat /\ LookedUp(p, h).idx \in Nat
              /\ Pool'.idx \in Nat /\ LookedUp(p, h).idx <= Pool'.idx
          BY <2>1, <1>2, <1>3, <3>4, NamesAssumption DEF GoodPool, Keeps
        <5>3. NameLength[string[h]] + Pool'.idx + 1 >= PoolSize
          BY <5>1, <5>2, <1>1
        <5>4. QED
          BY <5>3, <3>1, <4>2 DEF NamedIn
      <4>3. QED
        BY <4>1, <4>2
    <3>9. QED
      BY <3>1, <3>7, <3>8 DEF h
  <2>5. QED
    BY <2>3, <2>4
<1>7. \A i \in Edicts : world[i] = 0 => slots'[i] = NoSlot
  BY DEF LoadAll, Loaded, Load
<1>8. QED
  BY <1>4, <1>5, <1>6, <1>7

-----------------------------------------------------------------------------
(* Types *)

FrameSet == [offset : [Edicts -> 0..PoolSize], class : [Edicts -> Names \cup {""}],
             stale : SUBSET Edicts]

\* An empty pool is good, and an empty slot has its type.
LEMMA EmptyFacts ==
    /\ \A p : p.names = <<>> /\ p.idx = 1 /\ p.known = <<>> => GoodPool(p)
    /\ TypedSlot(NoSlot)
<1>1. PoolSize \in Nat \ {0} /\ DOMAIN <<>> = {}
  BY NamesAssumption
<1>2. \A p : p.names = <<>> /\ p.idx = 1 /\ p.known = <<>> => GoodPool(p)
  BY <1>1 DEF GoodPool
<1>3. TypedSlot(NoSlot)
  BY <1>1 DEF TypedSlot, NoSlot
<1>4. QED
  BY <1>2, <1>3

\* At first there are no names, slots or frames.
LEMMA TypeInit == Init => TypeInv
<1> SUFFICES ASSUME Init PROVE TypeInv
  OBVIOUS
<1>1. MaxMaps \in Nat \ {0} /\ MaxFrames \in Nat \ {0} /\ MaxChanges \in Nat
  BY NamesAssumption
<1>2. MapRight
  <2>1. map \in 1..MaxMaps /\ changes \in 0..MaxChanges
    BY <1>1 DEF Init
  <2>2. string \in [Handles -> Names] /\ stale \subseteq Edicts
    BY DEF Init
  <2>3. world \in [Edicts -> Handles \cup {0}]
    BY DEF Init
  <2>4. QED
    BY <2>1, <2>2, <2>3 DEF Init, MapRight
<1>3. FramesTyped
  BY <1>1 DEF Init, FramesTyped
<1>4. GoodPool(Pool)
  BY EmptyFacts DEF Init, Pool, NoPool
<1>5. \A i \in Edicts : TypedSlot(slots[i])
  BY EmptyFacts DEF Init
<1>6. QED
  BY <1>2, <1>3, <1>4, <1>5 DEF TypeInv

\* Loading keeps the types of the pool and the slots.
LEMMA LoadTyped ==
    ASSUME TypeInv, LoadAll, string' = string
    PROVE  GoodPool(Pool)' /\ \A i \in Edicts : TypedSlot(slots'[i])
BY LoadFacts, EmptyFacts

\* A frame has its type.
LEMMA FrameTyped ==
    ASSUME TypeInv, LoadAll, string' = string
    PROVE  Frame \in FrameSet /\ Frame.stale = stale'
<1>1. \A i \in Edicts : slots'[i].name \in 0..PoolSize
  BY LoadTyped DEF TypedSlot
<1>2. \A i \in Edicts :
        (IF world[i] = 0 THEN "" ELSE string[world[i]]) \in Names \cup {""}
  BY DEF TypeInv, MapRight
<1>3. stale' \subseteq Edicts
  BY DEF TypeInv, MapRight, LoadAll
<1>4. QED
  BY <1>1, <1>2, <1>3 DEF Frame, FrameSet

\* A new map has its own strings and an empty pool.
LEMMA NextMapTyped ==
    ASSUME TypeInv, map < MaxMaps, map' = map + 1, string' \in [Handles -> Names],
           world' = [i \in Edicts |-> 0], stale' \subseteq Edicts,
           pool' = <<>>, poolIdx' = 1, known' = <<>>, open' = FALSE,
           changes' = changes, frames' = frames, pc' \in {"idle", "pool", "torn"},
           \A i \in Edicts : TypedSlot(slots'[i])
    PROVE  TypeInv'
<1>1. MaxMaps \in Nat \ {0} /\ MaxFrames \in Nat \ {0} /\ MaxChanges \in Nat
  BY NamesAssumption
<1>2. MapRight'
  <2>1. map' \in 1..MaxMaps /\ changes' \in 0..MaxChanges
    BY <1>1 DEF TypeInv, MapRight
  <2>2. string' \in [Handles -> Names]
    OBVIOUS
  <2>3. world' \in [Edicts -> Handles \cup {0}]
    OBVIOUS
  <2>4. QED
    BY <2>1, <2>2, <2>3 DEF MapRight
<1>3. GoodPool(Pool)'
  <2>1. Pool'.names = <<>> /\ Pool'.idx = 1 /\ Pool'.known = <<>>
    BY DEF Pool
  <2>2. QED
    BY <2>1, <1>1, NamesAssumption DEF GoodPool
<1>4. FramesTyped'
  BY DEF TypeInv, FramesTyped
<1>5. QED
  BY <1>2, <1>3, <1>4 DEF TypeInv

\* Every step keeps the types.
LEMMA TypeNext == TypeInv /\ [Next]_vars => TypeInv'
<1> SUFFICES ASSUME TypeInv, [Next]_vars PROVE TypeInv'
  OBVIOUS
<1>1. MaxMaps \in Nat \ {0} /\ MaxFrames \in Nat \ {0} /\ MaxChanges \in Nat
  BY NamesAssumption
<1>2. ASSUME NEW i \in Edicts, NEW h \in Handles \cup {0}, EngineStep(i, h)
      PROVE  TypeInv'
  <2>1. MapRight'
    BY <1>1, <1>2 DEF EngineStep, TypeInv, MapRight, poolVars, fileVars
  <2>2. FramesTyped'
    BY <1>2 DEF EngineStep, TypeInv, FramesTyped, fileVars
  <2>3. QED
    BY <2>1, <2>2, <1>2 DEF EngineStep, TypeInv, GoodPool, Pool, TypedSlot, poolVars
<1>3. CASE NewMap
  BY <1>3, NextMapTyped DEF NewMap, NoPool, FirstFree, TypeInv, MapRight
<1>4. CASE ThinkOnly
  <2>1. MapRight' /\ FramesTyped'
    BY <1>4 DEF ThinkOnly, LoadAll, TypeInv, MapRight, FramesTyped, gameVars
  <2>2. QED
    BY <2>1, <1>4, LoadTyped DEF ThinkOnly, TypeInv, gameVars
<1>5. CASE ThinkAndWrite
  <2>1. MapRight'
    BY <1>5 DEF ThinkAndWrite, LoadAll, TypeInv, MapRight, gameVars
  <2>2. FramesTyped'
    <3>1. Frame \in FrameSet
      BY <1>5, FrameTyped DEF ThinkAndWrite, gameVars
    <3>2. frames \in Seq(FrameSet) /\ Len(frames) \in 0..MaxFrames
      BY DEF TypeInv, FramesTyped, FrameSet
    <3>3. CASE open
      <4>1. Len(frames) < MaxFrames /\ frames' = Append(frames, Frame)
        BY <1>5, <3>3 DEF ThinkAndWrite
      <4> HIDE DEF Frame
      <4>2. frames' \in Seq(FrameSet) /\ Len(frames') = Len(frames) + 1
        BY <4>1, <3>1, <3>2
      <4>3. Len(frames') \in 0..MaxFrames
        BY <4>1, <4>2, <3>2, <1>1
      <4>4. QED
        BY <4>2, <4>3 DEF FramesTyped, FrameSet
    <3>4. CASE ~open
      <4>1. frames' = <<Frame>>
        BY <1>5, <3>4 DEF ThinkAndWrite
      <4>2. frames' \in Seq(FrameSet) /\ Len(frames') = 1
        BY <4>1, <3>1
      <4>3. Len(frames') \in 0..MaxFrames
        BY <4>2, <1>1
      <4>4. QED
        BY <4>2, <4>3 DEF FramesTyped, FrameSet
    <3>5. QED
      BY <3>3, <3>4
  <2>3. QED
    BY <2>1, <2>2, <1>5, LoadTyped DEF ThinkAndWrite, TypeInv, gameVars
<1>6. CASE WritePool
  <2>1. MapRight' /\ FramesTyped'
    BY <1>6 DEF WritePool, TypeInv, MapRight, FramesTyped, gameVars, poolVars
  <2>2. QED
    BY <2>1, <1>6 DEF WritePool, TypeInv, GoodPool, Pool, TypedSlot, gameVars, poolVars
<1>7. CASE Crash
  <2>1. \A i \in Edicts : TypedSlot(slots'[i])
    BY <1>7, EmptyFacts DEF Crash
  <2>2. QED
    BY <2>1, <1>7, NextMapTyped DEF Crash, NoPool
<1>8. CASE UNCHANGED vars
  <2>1. MapRight' /\ FramesTyped'
    BY <1>8 DEF vars, TypeInv, MapRight, FramesTyped, gameVars, poolVars, fileVars
  <2>2. QED
    BY <2>1, <1>8 DEF vars, TypeInv, GoodPool, Pool, TypedSlot, gameVars, poolVars
<1>9. QED
  BY <1>2, <1>3, <1>4, <1>5, <1>6, <1>7, <1>8 DEF Next

\* Offsets, handles and the pool keep their types, and every name ends inside
\* the pool, for every number of entities and every size of the pool.
THEOREM NamesTyped == Spec => []TypeOK
<1>1. TypeInv => TypeOK
  <2> SUFFICES ASSUME TypeInv PROVE TypeOK
    OBVIOUS
  <2>1. /\ map \in 1..MaxMaps /\ changes \in 0..MaxChanges
        /\ DOMAIN string = Handles /\ string \in [Handles -> Names]
        /\ world \in [Edicts -> Handles \cup {0}] /\ stale \subseteq Edicts
        /\ open \in BOOLEAN /\ pc \in {"idle", "pool", "torn"}
    BY DEF TypeInv, MapRight
  <2>3. /\ poolIdx \in 1..PoolSize
        /\ \A o \in DOMAIN pool :
            pool[o] \in Names /\ o > 0 /\ o + NameLength[pool[o]] < PoolSize
        /\ \A h \in DOMAIN known : h \in DOMAIN string /\ known[h] \in DOMAIN pool
    BY DEF TypeInv, GoodPool, Pool
  <2>4. Len(frames) <= MaxFrames
    <3>1. Len(frames) \in 0..MaxFrames /\ MaxFrames \in Nat
      BY NamesAssumption DEF TypeInv, FramesTyped
    <3>2. QED
      BY <3>1
  <2>5. \A i \in Edicts : slots[i].handle \in Handles \cup {0} /\ slots[i].name \in 0..PoolSize
    BY DEF TypeInv, TypedSlot
  <2>6. QED
    BY <2>1, <2>3, <2>4, <2>5 DEF TypeOK
<1>2. QED
  BY <1>1, TypeInit, TypeNext, PTL DEF Spec

-----------------------------------------------------------------------------
(* Names *)

\* At first there is nothing to be named.
LEMMA NameInit == Init => NameInv
<1> SUFFICES ASSUME Init PROVE NameInv
  OBVIOUS
<1>1. TypeInv
  BY TypeInit
<1>2. 0 \notin DOMAIN string
  BY <1>1, NoHandle DEF TypeInv, MapRight
<1>3. SlotsRight
  BY <1>2 DEF Init, SlotsRight, NoSlot, NamedIn
<1>4. FramesRight
  BY DEF Init, FramesRight
<1>5. QED
  BY <1>1, <1>3, <1>4 DEF NameInv

\* Loading keeps the slots right.
LEMMA LoadRight ==
    ASSUME NameInv, LoadAll, UNCHANGED gameVars
    PROVE  SlotsRight'
<1>1. TypeInv /\ map' = map /\ string' = string /\ world' = world
  BY DEF NameInv, gameVars
<1>3. 0 \notin DOMAIN string
  BY <1>1, NoHandle DEF TypeInv, MapRight
<1>4. ASSUME NEW i \in Edicts \ stale'
      PROVE  NamedIn(slots[i], Pool)'
  <2>1. CASE world[i] = 0
    <3>1. slots'[i].handle = 0
      BY <1>1, <2>1, LoadFacts DEF NoSlot
    <3>2. QED
      BY <3>1, <1>1, <1>3 DEF NamedIn
  <2>2. CASE world[i] # 0
    <3>1. i \notin stale => NamedIn(slots[i], Pool)
      BY DEF NameInv, SlotsRight
    <3>2. QED
      BY <3>1, <1>1, <1>4, <2>2, LoadFacts
  <2>3. QED
    BY <2>1, <2>2
<1>5. QED
  BY <1>1, <1>4 DEF SlotsRight

\* A frame stores offsets under which the pool of its time has the names.
LEMMA FrameRight ==
    ASSUME NameInv, LoadAll, UNCHANGED gameVars
    PROVE  NamedBy(Frame, pool')
<1>1. TypeInv /\ string' = string /\ SlotsRight'
  BY LoadRight DEF NameInv, gameVars
<1>0. Frame.stale = stale'
  BY <1>1, FrameTyped
<1>2. SUFFICES ASSUME NEW i \in Edicts \ stale', Frame.offset[i] # 0
               PROVE  /\ Frame.offset[i] \in DOMAIN pool'
                      /\ pool'[Frame.offset[i]] = Frame.class[i]
  BY <1>0 DEF NamedBy
<1>3. /\ Frame.offset[i] = slots'[i].name
      /\ Frame.class[i] = IF world[i] = 0 THEN "" ELSE string[world[i]]
  BY DEF Frame
<1>4. world[i] # 0
  <2>1. world[i] = 0 => slots'[i] = NoSlot
    BY <1>1, LoadFacts
  <2>2. slots'[i].name # 0 /\ NoSlot.name = 0
    BY <1>2, <1>3 DEF NoSlot
  <2>3. QED
    BY <2>1, <2>2
<1>5. slots'[i].handle = world[i] /\ world[i] \in DOMAIN string
  BY <1>1, <1>4, LoadFacts DEF TypeInv, MapRight
<1>6. slots'[i].name \in DOMAIN pool' /\ pool'[slots'[i].name] = string[world[i]]
  BY <1>1, <1>2, <1>3, <1>5 DEF SlotsRight, NamedIn, Pool
<1>7. QED
  BY <1>3, <1>4, <1>6

\* A frame that is added is right, and the ones before it stay right.
LEMMA WriteRight ==
    ASSUME NameInv, ThinkAndWrite
    PROVE  FramesRight'
<1>1. /\ LoadAll /\ UNCHANGED gameVars /\ string' = string /\ pc # "pool"
      /\ open' = TRUE /\ pc' = "pool"
  BY DEF ThinkAndWrite, gameVars
<1>2. NamedBy(Frame, pool')
  BY <1>1, FrameRight
<1>3. \A o \in DOMAIN pool : o \in DOMAIN pool' /\ pool'[o] = pool[o]
  <2>1. Keeps(Pool, Pool')
    BY <1>1, LoadFacts DEF NameInv
  <2>2. QED
    BY <2>1 DEF Keeps, Pool
<1>4. frames \in Seq(FrameSet) /\ Len(frames) \in Nat /\ Frame \in FrameSet
  <2>1. Frame \in FrameSet
    BY <1>1, FrameTyped DEF NameInv
  <2>2. frames \in Seq(FrameSet)
    BY DEF NameInv, TypeInv, FramesTyped, FrameSet
  <2> HIDE DEF Frame
  <2>3. QED
    BY <2>1, <2>2
<1> HIDE DEF Frame
<1>5. CASE open
  <2>1. frames' = Append(frames, Frame) /\ disk' = disk /\ pc = "idle"
    <3>1. pc \in {"idle", "pool", "torn"} /\ pc # "torn"
      BY <1>5 DEF NameInv, FramesRight, TypeInv, MapRight
    <3>2. QED
      BY <3>1, <1>1, <1>5 DEF ThinkAndWrite
  <2>2. /\ Len(frames') = Len(frames) + 1 /\ frames'[Len(frames')] = Frame
        /\ \A n \in 1..Len(frames) : frames'[n] = frames[n]
    BY <1>4, <2>1
  <2>3. \A n \in 1..Len(frames) : NamedBy(frames'[n], disk')
    BY <2>1, <2>2 DEF NameInv, FramesRight
  <2>4. \A n \in 1..Len(frames') : n < Len(frames') => NamedBy(frames'[n], disk')
    BY <2>2, <2>3, <1>4
  <2>5. \A o \in DOMAIN disk' : o \in DOMAIN pool' /\ pool'[o] = disk'[o]
    BY <2>1, <1>3, <1>5 DEF NameInv, FramesRight
  <2>6. Len(frames') > 0
    BY <2>2, <1>4
  <2>7. QED
    BY <2>2, <2>4, <2>5, <2>6, <1>1, <1>2 DEF FramesRight
<1>6. CASE ~open
  <2>1. frames' = <<Frame>> /\ disk' = pool'
    BY <1>6 DEF ThinkAndWrite
  <2>2. Len(frames') = 1 /\ frames'[1] = Frame
    BY <2>1
  <2>3. \A n \in 1..Len(frames') : ~(n < Len(frames'))
    BY <2>2
  <2>4. QED
    BY <2>1, <2>2, <2>3, <1>1, <1>2 DEF FramesRight
<1>7. QED
  BY <1>5, <1>6

\* On a new map the slots that have a handle are stale, and the others right.
LEMMA NextMapRight ==
    ASSUME TypeInv', \A i \in Edicts \ stale' : slots'[i].handle = 0
    PROVE  SlotsRight'
<1>1. 0 \notin DOMAIN string'
  BY NoHandle DEF TypeInv, MapRight
<1>2. QED
  BY <1>1 DEF SlotsRight, NamedIn

\* Every step keeps names right.
LEMMA NameNext == NameInv /\ [Next]_vars => NameInv'
<1> SUFFICES ASSUME NameInv, [Next]_vars PROVE NameInv'
  OBVIOUS
<1>1. TypeInv /\ TypeInv'
  BY TypeNext DEF NameInv
<1>2. ASSUME NEW i \in Edicts, NEW h \in Handles \cup {0}, EngineStep(i, h)
      PROVE  NameInv'
  <2>1. SlotsRight'
    BY <1>2 DEF EngineStep, NameInv, SlotsRight, NamedIn, Pool, poolVars
  <2>2. FramesRight'
    BY <1>2 DEF EngineStep, NameInv, FramesRight, NamedBy, poolVars, fileVars
  <2>3. QED
    BY <2>1, <2>2, <1>1 DEF NameInv
<1>3. CASE NewMap
  <2>1. SlotsRight'
    <3>1. \A i \in Edicts \ stale' : slots'[i].handle = 0
      BY <1>3 DEF NewMap
    <3>2. QED
      BY <1>1, <3>1, NextMapRight
  <2>2. FramesRight'
    BY <1>3 DEF NewMap, NameInv, FramesRight, NamedBy
  <2>3. QED
    BY <2>1, <2>2, <1>1 DEF NameInv
<1>4. CASE ThinkOnly
  <2>1. /\ LoadAll /\ UNCHANGED gameVars /\ string' = string /\ pc # "pool"
        /\ frames' = frames /\ disk' = disk /\ pc' = pc /\ open' \in {open, FALSE}
    BY <1>4 DEF ThinkOnly, gameVars
  <2>2. SlotsRight'
    BY <2>1, LoadRight
  <2>3. \A o \in DOMAIN pool : o \in DOMAIN pool' /\ pool'[o] = pool[o]
    <3>1. Keeps(Pool, Pool')
      BY <1>1, <2>1, LoadFacts
    <3>2. QED
      BY <3>1 DEF Keeps, Pool
  <2>4. open' => \A o \in DOMAIN disk' : o \in DOMAIN pool' /\ pool'[o] = disk'[o]
    BY <2>1, <2>3 DEF NameInv, FramesRight
  <2>5. \A n \in 1..Len(frames') : n < Len(frames') \/ pc' = "idle" => NamedBy(frames'[n], disk')
    BY <2>1 DEF NameInv, FramesRight
  <2>6. FramesRight'
    <3>1. pc' # "pool" /\ (pc' = "torn" => ~open')
      <4>1. CASE open' = open
        BY <2>1, <4>1 DEF NameInv, FramesRight
      <4>2. CASE open' = FALSE
        BY <2>1, <4>2
      <4>3. QED
        BY <2>1, <4>1, <4>2
    <3>2. QED
      BY <2>4, <2>5, <3>1 DEF FramesRight
  <2>7. QED
    BY <2>2, <2>6, <1>1 DEF NameInv
<1>5. CASE ThinkAndWrite
  <2>1. SlotsRight'
    BY <1>5, LoadRight DEF ThinkAndWrite
  <2>2. QED
    BY <2>1, <1>1, <1>5, WriteRight DEF NameInv
<1>6. CASE WritePool
  <2>1. /\ pc = "pool" /\ disk' = pool /\ pc' = "idle" /\ open' = open /\ frames' = frames
        /\ map' = map /\ string' = string /\ pool' = pool /\ poolIdx' = poolIdx
        /\ known' = known /\ slots' = slots /\ stale' = stale
    BY <1>6 DEF WritePool, PoolInFile, gameVars, poolVars
  <2>2. SlotsRight'
    BY <2>1 DEF NameInv, SlotsRight, NamedIn, Pool
  <2>3. ASSUME NEW n \in 1..Len(frames) PROVE NamedBy(frames[n], pool)
    <3>1. CASE n < Len(frames)
      BY <2>1, <3>1 DEF NameInv, FramesRight, NamedBy
    <3>2. CASE ~(n < Len(frames))
      <4>1. Len(frames) \in Nat
        <5>1. frames \in Seq(FrameSet)
          BY <1>1 DEF TypeInv, FramesTyped, FrameSet
        <5>2. QED
          BY <5>1
      <4>2. n = Len(frames)
        BY <3>2, <4>1
      <4>3. QED
        BY <2>1, <4>2 DEF NameInv, FramesRight
    <3>3. QED
      BY <3>1, <3>2
  <2>4. FramesRight'
    BY <2>1, <2>3 DEF FramesRight
  <2>5. QED
    BY <2>2, <2>4, <1>1 DEF NameInv
<1>7. CASE Crash
  <2>1. \A i \in Edicts : slots'[i].handle = 0
    BY <1>7 DEF Crash, NoSlot
  <2>2. SlotsRight'
    BY <2>1, <1>1, NextMapRight
  <2>3. FramesRight'
    BY <1>7 DEF Crash, NameInv, FramesRight, NamedBy
  <2>4. QED
    BY <2>2, <2>3, <1>1 DEF NameInv
<1>8. CASE UNCHANGED vars
  <2>1. SlotsRight'
    BY <1>8 DEF vars, NameInv, SlotsRight, NamedIn, Pool, gameVars, poolVars
  <2>2. FramesRight'
    BY <1>8 DEF vars, NameInv, FramesRight, NamedBy, poolVars, fileVars
  <2>3. QED
    BY <2>1, <2>2, <1>1 DEF NameInv
<1>9. QED
  BY <1>2, <1>3, <1>4, <1>5, <1>6, <1>7, <1>8 DEF Next

\* Whoever opens a file finds every entity of every frame under its own class
\* name or none, except in the newest frame after a crash and in slots that have
\* kept their handle since an earlier map.
THEOREM NamesAreRight == Spec => []NamesRight
<1>1. NameInv => NamesRight
  BY DEF NameInv, FramesRight, NamedBy, NamesRight, NameRead
<1>2. QED
  BY <1>1, NameInit, NameNext, PTL DEF Spec

\* An entity whose handle was looked up on this map is left without a name only
\* when the names of the same map leave no room for it.
THEOREM NamelessOnlyWhenFull == Spec => []NamedIfRoom
<1>1. NameInv => NamedIfRoom
  <2> SUFFICES ASSUME NameInv, NEW i \in Edicts \ stale,
                      slots[i].handle # 0, slots[i].name = 0,
                      NEW byte \in 1..(PoolSize - NameLength[string[slots[i].handle]] - 2)
               PROVE  Filled(byte)
    BY DEF NamedIfRoom
  <2>0. slots[i].handle \in DOMAIN string
    BY DEF NameInv, TypeInv, MapRight, TypedSlot
  <2>1. /\ NameLength[string[slots[i].handle]] + poolIdx + 1 >= PoolSize
        /\ poolIdx \in 1..PoolSize /\ PoolSize \in Nat
        /\ NameLength[string[slots[i].handle]] \in Nat
    BY <2>0, NamesAssumption DEF NameInv, SlotsRight, NamedIn, Pool, TypeInv, MapRight, GoodPool
  <2>2. byte \in 1..(poolIdx - 1)
    BY <2>1
  <2>3. QED
    BY <2>2 DEF Filled, NameInv, TypeInv, GoodPool, Pool
<1>2. QED
  BY <1>1, NameInit, NameNext, PTL DEF Spec
===============================================================================
