-------------------------- MODULE DeltaServerProofs --------------------------
(***************************************************************************)
(* The UDP server and a client, for any number of entities, any size of    *)
(* packets, history and acknowledgements, and every loss of messages.      *)
(*                                                                         *)
(* That ids are unique, and with it that server and client have the same   *)
(* baseline, needs that a history spans no more than the range of ids.     *)
(***************************************************************************)
EXTENDS DeltaServer, FiniteSetTheorems, WellFoundedInduction, TLAPS

-----------------------------------------------------------------------------
(* The history of a client *)

IsSequence(s) == \E X : s \in Seq(X)

\* t is what is left of s without the d oldest.
Rest(t, s, d) ==
    /\ IsSequence(t) /\ d \in 0..Len(s) /\ Len(t) = Len(s) - d
    /\ \A k \in 1..Len(t) : t[k] = s[k + d]

LEMMA Lengths ==
    ASSUME NEW s, IsSequence(s)
    PROVE  Len(s) \in Nat /\ DOMAIN s = 1..Len(s) /\ s = [k \in 1..Len(s) |-> s[k]]
<1>1. PICK X : s \in Seq(X)
  BY DEF IsSequence
<1>2. QED
  BY <1>1

LEMMA Appended ==
    ASSUME NEW s, IsSequence(s), NEW u
    PROVE  /\ IsSequence(Append(s, u)) /\ Len(Append(s, u)) = Len(s) + 1
           /\ \A k \in 1..Len(s) : Append(s, u)[k] = s[k]
           /\ Append(s, u)[Len(s) + 1] = u
<1>1. PICK X : s \in Seq(X)
  BY DEF IsSequence
<1>2. s \in Seq(X \cup {u}) /\ u \in X \cup {u}
  BY <1>1
<1>3. Append(s, u) \in Seq(X \cup {u})
  BY <1>2
<1>4. QED
  BY <1>2, <1>3 DEF IsSequence

LEMMA WithoutFirst ==
    ASSUME NEW s, IsSequence(s), Len(s) > 0
    PROVE  Rest(Tail(s), s, 1)
<1>1. PICK X : s \in Seq(X)
  BY DEF IsSequence
<1>2. s # <<>> /\ Len(s) \in Nat
  BY <1>1
<1>3. Tail(s) \in Seq(X) /\ Len(Tail(s)) = Len(s) - 1
  BY <1>1, <1>2
<1>4. \A k \in 1..(Len(s) - 1) : Tail(s)[k] = s[k + 1]
  BY <1>1, <1>2
<1>5. QED
  BY <1>2, <1>3, <1>4 DEF IsSequence, Rest

LEMMA FromOne ==
    ASSUME NEW s, IsSequence(s), NEW i \in 1..Len(s)
    PROVE  Rest(SubSeq(s, i, Len(s)), s, i - 1)
<1> DEFINE t == SubSeq(s, i, Len(s))
<1>1. PICK X : s \in Seq(X)
  BY DEF IsSequence
<1>2. Len(s) \in Nat /\ i - 1 \in 0..Len(s) /\ Len(s) - (i - 1) = Len(s) - i + 1
  BY <1>1
<1>3. t \in Seq(X) /\ Len(t) = Len(s) - i + 1
  BY <1>1
<1>4. \A k \in 1..(Len(s) - i + 1) : t[k] = s[k + (i - 1)]
  BY <1>1
<1> HIDE DEF t
<1>5. IsSequence(t) /\ Len(t) = Len(s) - (i - 1)
  BY <1>2, <1>3 DEF IsSequence
<1>6. \A k \in 1..Len(t) : t[k] = s[k + (i - 1)]
  BY <1>3, <1>4
<1>7. Rest(t, s, i - 1)
  BY <1>2, <1>5, <1>6 DEF Rest
<1>8. QED
  BY <1>7 DEF t

\* After an update was added to a history that was not too long it is not.
LEMMA HistoryKept ==
    ASSUME NEW s, IsSequence(s), NEW u, Len(s) <= MaxSent
    PROVE  /\ IsSequence(History(Append(s, u))) /\ Len(History(Append(s, u))) <= MaxSent
           /\ \E d \in {0, 1} : Rest(History(Append(s, u)), Append(s, u), d)
<1> DEFINE t == Append(s, u)
<1>1. MaxSent \in Nat \ {0} /\ Len(s) \in Nat
  BY Lengths, ServerAssumption
<1>2. IsSequence(t) /\ Len(t) = Len(s) + 1
  BY Appended
<1> HIDE DEF t
<1>3. CASE Len(t) > MaxSent
  <2>1. History(t) = Tail(t)
    BY <1>3 DEF History
  <2>2. Rest(Tail(t), t, 1)
    BY <1>1, <1>2, <1>3, WithoutFirst
  <2>3. QED
    BY <1>1, <1>2, <2>1, <2>2 DEF t, Rest
<1>4. CASE Len(t) <= MaxSent
  <2>1. History(t) = t
    BY <1>1, <1>2, <1>4 DEF History
  <2>2. Rest(t, t, 0)
    BY <1>1, <1>2 DEF Rest
  <2>3. QED
    BY <1>2, <1>4, <2>1, <2>2 DEF t
<1>5. QED
  BY <1>1, <1>2, <1>3, <1>4

-----------------------------------------------------------------------------
(* Ids *)

Due(n) == n * (MaxSkips + 1)

\* A history is shorter than the range of ids.
IdsSuffice == Due(MaxSent) <= IdMod

\* The updates of history s are ever younger, and none is older than those
\* after it let it be: each was sent when the client was due.
Aged(s, now, skipped) ==
    /\ \A i \in 1..Len(s) :
        /\ s[i].id \in 0..(IdMod - 1)
        /\ Age(now, s[i].id) <= Due(Len(s) - i) + skipped + 1
    /\ \A i, j \in 1..Len(s) : i < j => Age(now, s[j].id) < Age(now, s[i].id)

AgeInv ==
    /\ updateId \in 0..(IdMod - 1) /\ skips \in 0..MaxSkips
    /\ IsSequence(sentDeltas) /\ Len(sentDeltas) <= MaxSent
    /\ isFree => sentDeltas = <<>>
    /\ Aged(sentDeltas, updateId, skips)

LEMMA Dues ==
    /\ \A n \in Nat : Due(n) \in Nat /\ Due(n + 1) = Due(n) + MaxSkips + 1
    /\ \A m, n \in Nat : m <= n => Due(m) <= Due(n)
<1>1. MaxSkips \in Nat
  BY ServerAssumption
<1>2. ASSUME NEW n \in Nat PROVE Due(n) \in Nat /\ Due(n + 1) = Due(n) + MaxSkips + 1
  BY <1>1 DEF Due
<1>3. ASSUME NEW m \in Nat, NEW n \in Nat, m <= n PROVE Due(m) <= Due(n)
  <2>1. PICK k \in Nat : n = m + k
    BY <1>3
  <2>2. n * (MaxSkips + 1) = m * (MaxSkips + 1) + k * (MaxSkips + 1)
    BY <1>1, <2>1
  <2>3. k * (MaxSkips + 1) \in Nat /\ m * (MaxSkips + 1) \in Nat
    BY <1>1
  <2>4. QED
    BY <2>2, <2>3 DEF Due
<1>4. QED
  BY <1>2, <1>3

LEMMA NextId ==
    ASSUME NEW now \in 0..(IdMod - 1)
    PROVE  /\ (now + 1) % IdMod = IF now + 1 = IdMod THEN 0 ELSE now + 1
           /\ (now + 1) % IdMod \in 0..(IdMod - 1)
<1>1. IdMod \in Nat \ {0}
  BY ServerAssumption
<1>2. CASE now + 1 = IdMod
  <2>1. IdMod % IdMod = 0
    BY <1>1
  <2>2. QED
    BY <1>1, <1>2, <2>1
<1>3. CASE now + 1 # IdMod
  <2>1. now + 1 \in 0..(IdMod - 1)
    BY <1>1, <1>3
  <2>2. (now + 1) % IdMod = now + 1
    BY <1>1, <2>1
  <2>3. QED
    BY <1>3, <2>1, <2>2
<1>4. QED
  BY <1>2, <1>3

\* An id grows older by one with each update, and one that was just used is one
\* update old.
LEMMA Older ==
    ASSUME NEW now \in 0..(IdMod - 1), NEW id \in 0..(IdMod - 1)
    PROVE  /\ Age(now, id) \in 1..IdMod
           /\ Age(now, id) < IdMod => Age((now + 1) % IdMod, id) = Age(now, id) + 1
           /\ Age((now + 1) % IdMod, now) = 1
<1>1. IdMod \in Nat \ {0}
  BY ServerAssumption
<1>2. (now + 1) % IdMod = IF now + 1 = IdMod THEN 0 ELSE now + 1
  BY NextId
<1>3. PICK next : next = (now + 1) % IdMod
  OBVIOUS
<1>4. QED
  BY <1>1, <1>2, <1>3 DEF Age

LEMMA RestAged ==
    ASSUME NEW s, NEW t, NEW d, NEW now, NEW skipped,
           IsSequence(s), Rest(t, s, d), Aged(s, now, skipped)
    PROVE  Aged(t, now, skipped)
<1>1. /\ Len(s) \in Nat /\ d \in 0..Len(s) /\ Len(t) = Len(s) - d
      /\ \A k \in 1..Len(t) : t[k] = s[k + d]
  BY Lengths DEF Rest
<1>2. \A k \in 1..Len(t) : k + d \in 1..Len(s) /\ Len(t) - k = Len(s) - (k + d)
  BY <1>1
<1>3. \A k \in 1..Len(t) : /\ t[k].id \in 0..(IdMod - 1)
                           /\ Age(now, t[k].id) <= Due(Len(t) - k) + skipped + 1
  <2> SUFFICES ASSUME NEW k \in 1..Len(t)
               PROVE  /\ t[k].id \in 0..(IdMod - 1)
                      /\ Age(now, t[k].id) <= Due(Len(t) - k) + skipped + 1
    OBVIOUS
  <2>1. PICK i \in 1..Len(s) : i = k + d
    BY <1>2
  <2>2. t[k] = s[i] /\ Len(t) - k = Len(s) - i
    BY <1>1, <1>2, <2>1
  <2>3. QED
    BY <2>2 DEF Aged
<1>4. ASSUME NEW k \in 1..Len(t), NEW l \in 1..Len(t), k < l
      PROVE  Age(now, t[l].id) < Age(now, t[k].id)
  <2>1. k + d < l + d
    BY <1>1, <1>4
  <2>2. QED
    BY <1>1, <1>2, <1>4, <2>1 DEF Aged
<1>5. QED
  BY <1>3, <1>4 DEF Aged

\* A thinking without an update for the client.
LEMMA SkipAged ==
    ASSUME NEW s, IsSequence(s), Len(s) <= MaxSent, IdsSuffice,
           NEW now \in 0..(IdMod - 1), NEW skipped \in 0..(MaxSkips - 1), Aged(s, now, skipped)
    PROVE  Aged(s, (now + 1) % IdMod, skipped + 1)
<1>1. /\ Len(s) \in Nat /\ MaxSent \in Nat \ {0} /\ IdMod \in Nat \ {0} /\ MaxSkips \in Nat
  BY Lengths, ServerAssumption
<1>2. ASSUME NEW i \in 1..Len(s)
      PROVE  /\ s[i].id \in 0..(IdMod - 1) /\ Age(now, s[i].id) \in Nat
             /\ Age(now, s[i].id) <= Due(Len(s) - i) + skipped + 1
             /\ Age((now + 1) % IdMod, s[i].id) = Age(now, s[i].id) + 1
  <2>1. s[i].id \in 0..(IdMod - 1) /\ Age(now, s[i].id) <= Due(Len(s) - i) + skipped + 1
    BY DEF Aged
  <2>2. Len(s) - i \in Nat /\ Len(s) - i <= MaxSent - 1 /\ MaxSent - 1 \in Nat
    BY <1>1
  <2>3. Due(Len(s) - i) <= Due(MaxSent - 1) /\ Due(Len(s) - i) \in Nat
    BY <2>2, Dues
  <2>4. Due(MaxSent) = Due(MaxSent - 1) + MaxSkips + 1 /\ Due(MaxSent - 1) \in Nat
    <3>1. Due((MaxSent - 1) + 1) = Due(MaxSent - 1) + MaxSkips + 1 /\ Due(MaxSent - 1) \in Nat
      BY <2>2, Dues
    <3>2. (MaxSent - 1) + 1 = MaxSent
      BY <1>1
    <3>3. QED
      BY <3>1, <3>2
  <2>5. Age(now, s[i].id) \in 1..IdMod
    BY <2>1, Older
  <2>6. Age(now, s[i].id) < IdMod
    BY <1>1, <2>1, <2>3, <2>4, <2>5 DEF IdsSuffice
  <2>7. Age((now + 1) % IdMod, s[i].id) = Age(now, s[i].id) + 1
    BY <2>1, <2>6, Older
  <2>8. QED
    BY <1>1, <2>1, <2>5, <2>7
<1>3. ASSUME NEW i \in 1..Len(s)
      PROVE  Age((now + 1) % IdMod, s[i].id) <= Due(Len(s) - i) + (skipped + 1) + 1
  <2>1. Len(s) - i \in Nat
    BY <1>1
  <2>2. Due(Len(s) - i) \in Nat
    BY <2>1, Dues
  <2>3. QED
    BY <1>1, <1>2, <2>2
<1>4. ASSUME NEW i \in 1..Len(s), NEW j \in 1..Len(s), i < j
      PROVE  Age((now + 1) % IdMod, s[j].id) < Age((now + 1) % IdMod, s[i].id)
  <2>1. Age(now, s[j].id) < Age(now, s[i].id)
    BY <1>4 DEF Aged
  <2>2. QED
    BY <1>2, <2>1
<1>5. QED
  BY <1>2, <1>3, <1>4 DEF Aged

\* An update is sent, and the oldest one forgotten if they are too many.
LEMMA SentAged ==
    ASSUME NEW s, IsSequence(s), Len(s) <= MaxSent, IdsSuffice, NEW u,
           NEW now \in 0..(IdMod - 1), NEW skipped \in 0..MaxSkips, Aged(s, now, skipped),
           u.id = now
    PROVE  Aged(History(Append(s, u)), (now + 1) % IdMod, 0)
<1> DEFINE next == (now + 1) % IdMod
<1>1. PICK t : t = History(Append(s, u))
  OBVIOUS
<1>2. PICK a : a = Append(s, u)
  OBVIOUS
<1>3. PICK d \in {0, 1} : Rest(t, a, d) /\ Len(t) <= MaxSent
  BY <1>1, <1>2, HistoryKept
<1>4. /\ Len(s) \in Nat /\ MaxSent \in Nat \ {0} /\ IdMod \in Nat \ {0} /\ MaxSkips \in Nat
      /\ Len(a) = Len(s) + 1 /\ a[Len(s) + 1] = u
      /\ \A k \in 1..Len(s) : a[k] = s[k]
  BY <1>2, Lengths, Appended, ServerAssumption
<1>5. Len(t) \in Nat /\ Len(t) = Len(s) + 1 - d /\ \A k \in 1..Len(t) : t[k] = a[k + d]
  BY <1>3, <1>4 DEF Rest
<1> HIDE DEF next
<1>6. ASSUME NEW k \in 1..(Len(t) - 1)
      PROVE  /\ t[k] = s[k + d] /\ k + d \in 1..Len(s)
             /\ t[k].id \in 0..(IdMod - 1) /\ Age(now, t[k].id) \in Nat
             /\ Age(now, t[k].id) <= Due(Len(t) - k)
             /\ Age(next, t[k].id) = Age(now, t[k].id) + 1
  <2>1. PICK i \in 1..Len(s) : i = k + d
    BY <1>4, <1>5
  <2>2. t[k] = s[i]
    BY <1>4, <1>5, <2>1
  <2>3. s[i].id \in 0..(IdMod - 1) /\ Age(now, s[i].id) <= Due(Len(s) - i) + skipped + 1
    BY DEF Aged
  <2>4. PICK m : m = Len(s) - i
    OBVIOUS
  <2>5. /\ m \in Nat /\ m + 1 = Len(t) - k /\ m + 1 <= MaxSent - 1
        /\ m + 1 \in Nat /\ MaxSent - 1 \in Nat
    BY <1>3, <1>4, <1>5, <2>1, <2>4
  <2>6. Due(m) \in Nat /\ Due(m + 1) = Due(m) + MaxSkips + 1 /\ Due(m + 1) <= Due(MaxSent - 1)
    BY <2>5, Dues
  <2>7. Due(MaxSent) = Due(MaxSent - 1) + MaxSkips + 1 /\ Due(MaxSent - 1) \in Nat
    <3>1. Due((MaxSent - 1) + 1) = Due(MaxSent - 1) + MaxSkips + 1 /\ Due(MaxSent - 1) \in Nat
      BY <2>5, Dues
    <3>2. (MaxSent - 1) + 1 = MaxSent
      BY <1>4
    <3>3. QED
      BY <3>1, <3>2
  <2>8. Age(now, s[i].id) <= Due(m + 1) /\ Age(now, s[i].id) < IdMod
        /\ Age(now, s[i].id) \in 1..IdMod
    <3>1. Age(now, s[i].id) \in 1..IdMod
      BY <2>3, Older
    <3>2. Age(now, s[i].id) <= Due(m) + skipped + 1
      BY <2>3, <2>4
    <3>3. skipped \in Nat /\ skipped <= MaxSkips
      BY <1>4
    <3>4. Age(now, s[i].id) <= Due(m) + MaxSkips + 1
      BY <1>4, <2>6, <3>1, <3>2, <3>3
    <3>5. Due(MaxSent) <= IdMod
      BY DEF IdsSuffice
    <3>6. Age(now, s[i].id) <= Due(m + 1)
      BY <2>6, <3>4
    <3>7. Age(now, s[i].id) < IdMod
      BY <1>4, <2>6, <2>7, <3>1, <3>4, <3>5
    <3>8. QED
      BY <3>1, <3>6, <3>7
  <2>9. Age(next, s[i].id) = Age(now, s[i].id) + 1
    BY <2>3, <2>8, Older DEF next
  <2>10. Age(now, s[i].id) \in Nat
    BY <1>4, <2>8
  <2>11. Age(now, s[i].id) <= Due(Len(t) - k)
    BY <2>5, <2>8
  <2>12. QED
    BY <2>1, <2>2, <2>3, <2>9, <2>10, <2>11
<1>7. ASSUME NEW k \in 1..Len(t), k = Len(t) PROVE t[k] = u /\ Age(next, t[k].id) = 1
  <2>1. k + d = Len(s) + 1
    BY <1>4, <1>5, <1>7
  <2>2. t[k] = u
    BY <1>4, <1>5, <2>1
  <2>3. Age(next, now) = 1
    BY Older DEF next
  <2>4. QED
    BY <2>2, <2>3
<1>8. ASSUME NEW k \in 1..Len(t)
      PROVE  t[k].id \in 0..(IdMod - 1) /\ Age(next, t[k].id) <= Due(Len(t) - k) + 0 + 1
  <2>1. CASE k = Len(t)
    <3>1. Len(t) - k = 0 /\ Due(0) \in Nat
      BY <1>5, <2>1, Dues
    <3>2. Due(Len(t) - k) \in Nat
      BY <3>1
    <3>3. t[k] = u /\ Age(next, t[k].id) = 1
      BY <1>7, <2>1
    <3>4. QED
      BY <3>2, <3>3
  <2>2. CASE k # Len(t)
    <3>1. k \in 1..(Len(t) - 1) /\ Len(t) - k \in Nat
      BY <1>5, <2>2
    <3>2. Due(Len(t) - k) \in Nat
      BY <3>1, Dues
    <3>3. QED
      BY <1>6, <3>1, <3>2
  <2>3. QED
    BY <2>1, <2>2
<1>9. ASSUME NEW i \in 1..Len(t), NEW j \in 1..Len(t), i < j
      PROVE  Age(next, t[j].id) < Age(next, t[i].id)
  <2>1. i \in 1..(Len(t) - 1)
    BY <1>5, <1>9
  <2>2. /\ t[i] = s[i + d] /\ i + d \in 1..Len(s) /\ Age(now, t[i].id) \in Nat
        /\ t[i].id \in 0..(IdMod - 1) /\ Age(next, t[i].id) = Age(now, t[i].id) + 1
    BY <1>6, <2>1
  <2>3. CASE j = Len(t)
    <3>1. Age(now, t[i].id) \in 1..IdMod
      BY <2>2, Older
    <3>2. Age(next, t[j].id) = 1
      BY <1>7, <2>3
    <3>3. QED
      BY <1>4, <2>2, <3>1, <3>2
  <2>4. CASE j # Len(t)
    <3>1. j \in 1..(Len(t) - 1)
      BY <1>5, <2>4
    <3>2. /\ t[j] = s[j + d] /\ j + d \in 1..Len(s) /\ Age(now, t[j].id) \in Nat
          /\ Age(next, t[j].id) = Age(now, t[j].id) + 1
      BY <1>6, <3>1
    <3>3. i + d < j + d
      BY <1>5, <1>9
    <3>4. Age(now, s[j + d].id) < Age(now, s[i + d].id)
      BY <2>2, <3>2, <3>3 DEF Aged
    <3>5. QED
      BY <2>2, <3>2, <3>4
  <2>5. QED
    BY <2>3, <2>4
<1>10. Aged(t, next, 0)
  BY <1>8, <1>9 DEF Aged
<1>11. QED
  BY <1>1, <1>10 DEF next

\* Of some numbers one is the least.
LEMMA LeastNumber ==
    ASSUME NEW S \in SUBSET Nat, S # {}
    PROVE  \E n \in S : \A k \in S : n <= k
<1> DEFINE R == OpToRel(<, Nat)
<1>1. IsWellFoundedOn(R, Nat)
  BY NatLessThanWellFounded
<1> HIDE DEF R
<1>2. PICK n \in S : \A k \in S : ~(<<k, n>> \in R)
  BY <1>1, WFMin
<1>3. ASSUME NEW k \in S PROVE n <= k
  <2>1. ~(k < n)
    BY <1>2 DEF R, OpToRel
  <2>2. QED
    BY <2>1
<1>4. QED
  BY <1>3

\* What an acknowledgement of the i-th update of the history does.
Acknowledged(ack, i) ==
    LET packets == sentDeltas[i].packets
    IN  /\ ~isFree
        /\ baselines' = Applied(baselines, packets, Acked(ack.bits, packets))
        /\ IF BitsRead(ack.bits, packets) = DOMAIN packets
           THEN /\ baselineId' = ack.id
                /\ sentDeltas' = SubSeq(sentDeltas, i, Len(sentDeltas))
                /\ (~astray' => ~astray /\ sentDeltas[i].base = baselineId)
           ELSE UNCHANGED <<baselineId, sentDeltas>> /\ astray'

LEMMA AckOfOne ==
    ASSUME IsSequence(sentDeltas), NEW ack, HandleAck(ack)
    PROVE  \/ UNCHANGED <<baselineId, baselines, sentDeltas, astray>>
           \/ \E i \in 1..Len(sentDeltas) : sentDeltas[i].id = ack.id /\ Acknowledged(ack, i)
<1> DEFINE found == {i \in DOMAIN sentDeltas : sentDeltas[i].id = ack.id}
           least == CHOOSE k \in found : \A l \in found : k <= l
<1>1. CASE isFree \/ found = {}
  BY <1>1 DEF HandleAck, clientVars
<1>2. CASE ~isFree /\ found # {}
  <2>1. /\ DOMAIN sentDeltas = 1..Len(sentDeltas) /\ Len(sentDeltas) \in Nat
        /\ found \in SUBSET Nat
    BY Lengths
  <2>2. Acknowledged(ack, least)
    BY <1>2 DEF HandleAck, Acknowledged
  <2> HIDE DEF found
  <2>3. least \in found
    <3>1. \E n \in found : \A k \in found : n <= k
      BY <1>2, <2>1, LeastNumber
    <3>2. QED
      BY <3>1
  <2>4. least \in 1..Len(sentDeltas) /\ sentDeltas[least].id = ack.id
    BY <2>1, <2>3 DEF found
  <2> HIDE DEF least
  <2>5. QED
    BY <2>2, <2>4
<1>3. QED
  BY <1>1, <1>2

LEMMA AgeInit == Init => AgeInv
<1> SUFFICES ASSUME Init PROVE AgeInv
  OBVIOUS
<1>1. /\ updateId \in 0..(IdMod - 1) /\ skips \in 0..MaxSkips /\ MaxSent \in Nat
      /\ sentDeltas = <<>>
  BY ServerAssumption DEF Init
<1>2. IsSequence(sentDeltas) /\ Len(sentDeltas) = 0 /\ 1..Len(sentDeltas) = {}
  <2>1. <<>> \in Seq({}) /\ Len(<<>>) = 0
    OBVIOUS
  <2>2. QED
    BY <1>1, <2>1 DEF IsSequence
<1>3. QED
  BY <1>1, <1>2 DEF AgeInv, Aged

\* The histories that are left when a client connects, resets or is gone.
LEMMA EmptyHistory ==
    /\ IsSequence(<<>>) /\ Len(<<>>) = 0
    /\ \A now, skipped : Aged(<<>>, now, skipped)
<1>1. <<>> \in Seq({}) /\ Len(<<>>) = 0 /\ 1..0 = {}
  OBVIOUS
<1>2. QED
  BY <1>1 DEF IsSequence, Aged

LEMMA AgeNext == ASSUME IdsSuffice PROVE AgeInv /\ [Next]_vars => AgeInv'
<1> SUFFICES ASSUME AgeInv, [Next]_vars PROVE AgeInv'
  OBVIOUS
<1>1. /\ updateId \in 0..(IdMod - 1) /\ skips \in 0..MaxSkips
      /\ IsSequence(sentDeltas) /\ Len(sentDeltas) <= MaxSent
      /\ isFree => sentDeltas = <<>>
      /\ Aged(sentDeltas, updateId, skips)
      /\ MaxSkips \in Nat /\ MaxSent \in Nat
  BY ServerAssumption DEF AgeInv
<1>2. ASSUME UNCHANGED <<updateId, skips, isFree, sentDeltas>> PROVE AgeInv'
  BY <1>1, <1>2 DEF AgeInv
<1>3. ASSUME UNCHANGED <<updateId, skips>>, sentDeltas' = <<>> PROVE AgeInv'
  BY <1>1, <1>3, EmptyHistory DEF AgeInv
<1>4. ASSUME NEW type \in {"connect", "reset"}, ClientStart(type) PROVE AgeInv'
  BY <1>2, <1>4 DEF ClientStart, frameVars, clientVars
<1>5. ASSUME NEW update \in toClient, NEW got, ClientAck(update, got) PROVE AgeInv'
  BY <1>2, <1>5 DEF ClientAck, frameVars, clientVars
<1>6. CASE HandleConnect
  BY <1>2, <1>3, <1>6 DEF HandleConnect, Receive, frameVars, clientVars
<1>7. CASE HandleReset
  BY <1>2, <1>3, <1>7 DEF HandleReset, Receive, frameVars, clientVars
<1>8. ASSUME NEW ack \in toServer, HandleAck(ack) PROVE AgeInv'
  <2>1. UNCHANGED <<updateId, skips, isFree>>
    BY <1>8 DEF HandleAck, Receive, frameVars
  <2>2. CASE UNCHANGED sentDeltas
    BY <1>2, <2>1, <2>2
  <2>3. ASSUME NEW i \in 1..Len(sentDeltas), ~isFree,
               sentDeltas' = SubSeq(sentDeltas, i, Len(sentDeltas))
        PROVE  AgeInv'
    <3>1. Rest(sentDeltas', sentDeltas, i - 1)
      BY <1>1, <2>3, FromOne
    <3>2. IsSequence(sentDeltas') /\ Len(sentDeltas') <= MaxSent
      BY <1>1, <3>1, Lengths DEF Rest
    <3>3. Aged(sentDeltas', updateId, skips)
      BY <1>1, <3>1, RestAged
    <3>4. QED
      BY <1>1, <2>1, <2>3, <3>2, <3>3 DEF AgeInv
  <2>4. QED
    BY <1>1, <1>8, <2>2, <2>3, AckOfOne DEF Acknowledged
<1>9. CASE SkipUpdate
  <2>1. /\ updateId' = (updateId + 1) % IdMod
        /\ (isFree /\ skips' = skips) \/ (skips < MaxSkips /\ skips' = skips + 1)
        /\ UNCHANGED <<isFree, sentDeltas>>
    BY <1>9 DEF SkipUpdate, NextUpdate, clientVars
  <2>2. updateId' \in 0..(IdMod - 1) /\ skips' \in 0..MaxSkips
    <3>1. updateId' \in 0..(IdMod - 1)
      BY <1>1, <2>1, NextId
    <3>2. skips' \in 0..MaxSkips
      BY <1>1, <2>1
    <3>3. QED
      BY <3>1, <3>2
  <2>3. CASE isFree /\ skips' = skips
    BY <1>1, <2>1, <2>2, <2>3, EmptyHistory DEF AgeInv
  <2>4. CASE skips < MaxSkips /\ skips' = skips + 1
    <3>1. skips \in 0..(MaxSkips - 1)
      BY <1>1, <2>4
    <3>2. Aged(sentDeltas, updateId', skips')
      BY <1>1, <2>1, <2>4, <3>1, SkipAged
    <3>3. QED
      BY <1>1, <2>1, <2>2, <3>2 DEF AgeInv
  <2>5. QED
    BY <2>1, <2>3, <2>4
<1>10. CASE SendUpdate
  <2>1. /\ updateId' = (updateId + 1) % IdMod /\ skips' = 0
        /\ \/ /\ sentDeltas' = History(Append(sentDeltas,
                        [id |-> updateId, base |-> baselineId, packets |-> Fragments]))
              /\ isFree' = isFree
           \/ isFree' = TRUE /\ sentDeltas' = <<>>
        /\ ~isFree
    BY <1>10 DEF SendUpdate, NextUpdate
  <2>2. updateId' \in 0..(IdMod - 1) /\ skips' \in 0..MaxSkips
    BY <1>1, <2>1, NextId
  <2>3. CASE sentDeltas' = <<>>
    BY <1>1, <2>2, <2>3, EmptyHistory DEF AgeInv
  <2>4. CASE /\ sentDeltas' = History(Append(sentDeltas,
                        [id |-> updateId, base |-> baselineId, packets |-> Fragments]))
             /\ isFree' = isFree
    <3>1. PICK u : u = [id |-> updateId, base |-> baselineId, packets |-> Fragments]
      OBVIOUS
    <3>2. u.id = updateId /\ sentDeltas' = History(Append(sentDeltas, u))
      BY <2>4, <3>1
    <3>3. IsSequence(sentDeltas') /\ Len(sentDeltas') <= MaxSent
      BY <1>1, <3>2, HistoryKept
    <3>4. Aged(sentDeltas', updateId', skips')
      BY <1>1, <2>1, <3>2, SentAged
    <3>5. QED
      BY <2>1, <2>2, <2>4, <3>3, <3>4 DEF AgeInv
  <2>5. QED
    BY <2>1, <2>3, <2>4
<1>11. CASE UNCHANGED vars
  BY <1>2, <1>11 DEF vars, frameVars, clientVars
<1>12. QED
  BY <1>4, <1>5, <1>6, <1>7, <1>8, <1>9, <1>10, <1>11 DEF Next

\* Updates of different age have different ids.
LEMMA AgesDiffer == AgeInv => UniqueIds
<1> SUFFICES ASSUME AgeInv, NEW i \in DOMAIN sentDeltas, NEW j \in DOMAIN sentDeltas,
                    sentDeltas[i].id = sentDeltas[j].id
             PROVE  i = j
  BY DEF UniqueIds
<1>1. i \in 1..Len(sentDeltas) /\ j \in 1..Len(sentDeltas) /\ Len(sentDeltas) \in Nat
  BY Lengths DEF AgeInv
<1>2. Aged(sentDeltas, updateId, skips) /\ updateId \in 0..(IdMod - 1)
  BY DEF AgeInv
<1>3. Age(updateId, sentDeltas[i].id) \in 1..IdMod /\ IdMod \in Nat
  BY <1>1, <1>2, Older, ServerAssumption DEF Aged
<1>4. ~(i < j) /\ ~(j < i)
  BY <1>1, <1>2, <1>3 DEF Aged
<1>5. QED
  BY <1>1, <1>4

\* The id in an acknowledgement is that of one update of the history, also after
\* the ids have wrapped around (handleDeltaAck), if the history, with the
\* thinkings in which the client is not due, is no longer than the ids.
THEOREM IdsAreUnique == ASSUME IdsSuffice PROVE Spec => []UniqueIds
<1>1. QED
  BY AgesDiffer, AgeInit, AgeNext, PTL DEF Spec

-----------------------------------------------------------------------------
(* Types *)

\* A delta that turns any state into a state.
TypedDelta(delta) ==
    /\ DOMAIN delta \subseteq Fields
    /\ "flags" \in DOMAIN delta => delta["flags"] \in SUBSET {"valid"}
    /\ "pos" \in DOMAIN delta => \A old \in Int : ReadPos(old, delta["pos"]) \in Int
    /\ \A f \in {"seq", "rate", "frame"} : f \in DOMAIN delta => delta[f] = 0

TypedUpdate(update) ==
    /\ "id" \in DOMAIN update /\ update.id \in 0..(IdMod - 1)
    /\ Len(update.packets) \in Nat /\ DOMAIN update.packets = 1..Len(update.packets)
    /\ \A j \in DOMAIN update.packets : \A e \in DOMAIN update.packets[j] :
            TypedDelta(update.packets[j][e])

TypedInv ==
    /\ updateId \in 0..(IdMod - 1) /\ baselineId \in 0..(IdMod - 1)
    /\ frame \in [Edicts -> States] /\ baselines \in [Edicts -> AllStates]
    /\ IsSequence(sentDeltas) /\ Len(sentDeltas) <= MaxSent
    /\ \A i \in 1..Len(sentDeltas) : TypedUpdate(sentDeltas[i])
    /\ \A update \in toClient : TypedUpdate(update)

LEMMA StateFacts ==
    /\ Null \in States /\ Nulls \in [Edicts -> States]
    /\ States \subseteq AllStates
<1>1. Positions \subseteq Int
  BY ServerAssumption
<1>2. ASSUME NEW p \in Positions
      PROVE  [Null EXCEPT !.flags = {"valid"}, !.pos = p] \in AllStates
  <2>1. PICK valid : valid = [Null EXCEPT !.flags = {"valid"}]
    OBVIOUS
  <2>2. valid = [flags |-> {"valid"}, pos |-> 0, seq |-> 0, rate |-> 0, frame |-> 0]
    BY <2>1 DEF Null
  <2>3. [valid EXCEPT !.pos = p] =
            [flags |-> {"valid"}, pos |-> p, seq |-> 0, rate |-> 0, frame |-> 0]
    BY <2>2
  <2>4. [Null EXCEPT !.flags = {"valid"}, !.pos = p] = [valid EXCEPT !.pos = p]
    BY <2>1, Zenon
  <2>5. p \in Int
    BY <1>1
  <2>6. [flags |-> {"valid"}, pos |-> p, seq |-> 0, rate |-> 0, frame |-> 0] \in AllStates
    BY <2>5 DEF AllStates
  <2>7. QED
    BY <2>3, <2>4, <2>6
<1>3. Null \in AllStates
  BY DEF Null, AllStates
<1>4. \A s \in States : s \in AllStates
  BY <1>2, <1>3 DEF States
<1>5. Null \in States
  BY DEF States
<1>6. QED
  BY <1>4, <1>5 DEF Nulls

\* A slot that was free begins with null, whatever was left in it.
LEMMA FreshStates ==
    ASSUME NEW s \in AllStates
    PROVE  Fresh(s) \in AllStates
  BY StateFacts DEF Fresh

\* The delta from any state to one of the frame.
LEMMA DeltaTyped ==
    ASSUME NEW now \in AllStates, NEW base \in AllStates
    PROVE  TypedDelta(EdictDelta(now, base, FALSE))
<1>1. PICK old \in AllStates : old = Fresh(base)
  BY FreshStates
<1>2. PICK delta : delta = EdictDelta(now, base, FALSE)
  OBVIOUS
<1>3. /\ DOMAIN delta \subseteq Fields
      /\ \A f \in DOMAIN delta :
            delta[f] = IF f = "pos" THEN PosDelta(now.pos, old.pos) ELSE now[f]
  BY <1>1, <1>2 DEF EdictDelta, Fields
<1>4. now.pos \in Int /\ old.pos \in Int
  BY DEF AllStates
<1>5. \A from \in Int : ReadPos(from, PosDelta(now.pos, old.pos)) \in Int
  <2> SUFFICES ASSUME NEW from \in Int
               PROVE  ReadPos(from, PosDelta(now.pos, old.pos)) \in Int
    OBVIOUS
  <2>1. PICK d \in Int : d = now.pos - old.pos
    BY <1>4
  <2>2. SignExtend(d % 256, 128) \in Int /\ SignExtend(d % 16384, 8192) \in Int
    BY DEF SignExtend
  <2>3. QED
    BY <1>4, <2>1, <2>2 DEF PosDelta, ReadPos
<1>6. now["flags"] \in SUBSET {"valid"} /\ now["seq"] = 0 /\ now["rate"] = 0 /\ now["frame"] = 0
  BY DEF AllStates
<1>7. TypedDelta(delta)
  BY <1>3, <1>5, <1>6 DEF TypedDelta
<1>8. QED
  BY <1>2, <1>7

LEMMA ApplyTyped ==
    ASSUME NEW old \in AllStates, NEW delta, TypedDelta(delta)
    PROVE  ApplyDelta(old, delta) \in AllStates
<1>1. PICK from \in AllStates : from = Start(old, delta)
  BY FreshStates DEF Start
<1>2. PICK new : new = ApplyDelta(old, delta)
  OBVIOUS
<1>3. new = [f \in Fields |->
                IF f \notin DOMAIN delta THEN from[f]
                ELSE IF f = "pos" THEN ReadPos(from.pos, delta["pos"]) ELSE delta[f]]
  BY <1>1, <1>2 DEF ApplyDelta
<1>4. new.flags \in SUBSET {"valid"} /\ new.pos \in Int
      /\ new.seq = 0 /\ new.rate = 0 /\ new.frame = 0
  <2>1. from.flags \in SUBSET {"valid"} /\ from.pos \in Int
        /\ from.seq = 0 /\ from.rate = 0 /\ from.frame = 0
    BY DEF AllStates
  <2>2. "pos" \in DOMAIN delta => ReadPos(from.pos, delta["pos"]) \in Int
    BY <2>1 DEF TypedDelta
  <2>3. new.flags \in SUBSET {"valid"}
    BY <1>3, <2>1 DEF TypedDelta, Fields
  <2>4. new.pos \in Int
    BY <1>3, <2>1, <2>2 DEF Fields
  <2>5. new.seq = 0 /\ new.rate = 0 /\ new.frame = 0
    BY <1>3, <2>1 DEF TypedDelta, Fields
  <2>6. QED
    BY <2>3, <2>4, <2>5
<1>5. new = [flags |-> new.flags, pos |-> new.pos, seq |-> new.seq, rate |-> new.rate,
             frame |-> new.frame]
  BY <1>3 DEF Fields
<1>6. new \in AllStates
  BY <1>4, <1>5 DEF AllStates
<1>7. QED
  BY <1>2, <1>6

\* Whatever of an update arrives, and whatever state it is applied to.
LEMMA AppliedTyped ==
    ASSUME NEW states \in [Edicts -> AllStates], NEW update, TypedUpdate(update),
           NEW got, got \subseteq DOMAIN update.packets
    PROVE  Applied(states, update.packets, got) \in [Edicts -> AllStates]
<1>1. ASSUME NEW e \in Edicts, \E j \in got : e \in DOMAIN update.packets[j]
      PROVE  ApplyDelta(states[e],
                update.packets[CHOOSE j \in got : e \in DOMAIN update.packets[j]][e])
                    \in AllStates
  <2>1. PICK j \in got : /\ e \in DOMAIN update.packets[j]
                         /\ j = CHOOSE k \in got : e \in DOMAIN update.packets[k]
    BY <1>1
  <2>2. TypedDelta(update.packets[j][e])
    BY <2>1 DEF TypedUpdate
  <2>3. ApplyDelta(states[e], update.packets[j][e]) \in AllStates
    BY <2>2, ApplyTyped
  <2>4. QED
    BY <2>1, <2>3
<1>2. QED
  BY <1>1 DEF Applied

LEMMA FragmentsTyped ==
    ASSUME frame' \in [Edicts -> States], baselines \in [Edicts -> AllStates]
    PROVE  /\ Len(Fragments) \in Nat /\ DOMAIN Fragments = 1..Len(Fragments)
           /\ \A j \in DOMAIN Fragments : \A e \in DOMAIN Fragments[j] :
                TypedDelta(Fragments[j][e])
<1> DEFINE delta == [e \in Edicts |-> EdictDelta(frame'[e], baselines[e], FALSE)]
           changed == {e \in Edicts : ~Empty(delta[e])}
           packet(e) == (Cardinality({x \in changed : x <= e}) - 1) \div PerPacket + 1
           count == IF changed = {} THEN 1
                    ELSE (Cardinality(changed) - 1) \div PerPacket + 1
           fragments == [j \in 1..count |->
                            [e \in {x \in changed : packet(x) = j} |-> delta[e]]]
<1>1. Fragments = fragments
  BY DEF Fragments
<1>2. count \in Nat
  <2>1. IsFiniteSet(Edicts) /\ changed \in SUBSET Edicts
    <3>1. 1 \in Int /\ NumEdicts \in Int
      BY ServerAssumption
    <3>2. IsFiniteSet(1..NumEdicts)
      BY <3>1, FS_Interval
    <3>3. QED
      BY <3>2 DEF Edicts
  <2> HIDE DEF changed
  <2>2. IsFiniteSet(changed) /\ Cardinality(changed) \in Nat
    BY <2>1, FS_Subset, FS_CardinalityType
  <2>3. changed # {} => Cardinality(changed) # 0
    BY <2>2, FS_EmptySet
  <2>4. changed # {} => (Cardinality(changed) - 1) \div PerPacket \in Nat
    <3>1. \A n \in Nat, m \in Nat \ {0} : n \div m \in Nat
      OBVIOUS
    <3>2. changed # {} => Cardinality(changed) - 1 \in Nat
      BY <2>2, <2>3
    <3>3. QED
      BY <3>1, <3>2, ServerAssumption
  <2>5. QED
    BY <2>4
<1> HIDE DEF count, packet
<1>3. Len(fragments) = count /\ DOMAIN fragments = 1..count
  BY <1>2
<1>4. ASSUME NEW j \in 1..count, NEW e \in DOMAIN fragments[j]
      PROVE  e \in Edicts /\ fragments[j][e] = EdictDelta(frame'[e], baselines[e], FALSE)
  OBVIOUS
<1> HIDE DEF fragments
<1>5. ASSUME NEW j \in 1..count, NEW e \in DOMAIN fragments[j]
      PROVE  TypedDelta(fragments[j][e])
  <2>1. frame'[e] \in AllStates /\ baselines[e] \in AllStates
    BY <1>4, StateFacts
  <2>2. QED
    BY <1>4, <2>1, DeltaTyped
<1>6. QED
  BY <1>1, <1>2, <1>3, <1>5

LEMMA TypedInit == Init => TypedInv
<1> SUFFICES ASSUME Init PROVE TypedInv
  OBVIOUS
<1>1. /\ updateId \in 0..(IdMod - 1) /\ baselineId = 0 /\ baselines = Nulls /\ frame = Nulls
      /\ sentDeltas = <<>> /\ toClient = {} /\ MaxSent \in Nat /\ 0 \in 0..(IdMod - 1)
  BY ServerAssumption DEF Init
<1>2. Nulls \in [Edicts -> States] /\ Nulls \in [Edicts -> AllStates]
  BY StateFacts
<1>3. IsSequence(sentDeltas) /\ Len(sentDeltas) = 0 /\ 1..Len(sentDeltas) = {}
  BY <1>1, EmptyHistory
<1>4. QED
  BY <1>1, <1>2, <1>3 DEF TypedInv

LEMMA TypedNext == TypedInv /\ [Next]_vars => TypedInv'
<1> SUFFICES ASSUME TypedInv, [Next]_vars PROVE TypedInv'
  OBVIOUS
<1>1. /\ updateId \in 0..(IdMod - 1) /\ baselineId \in 0..(IdMod - 1)
      /\ frame \in [Edicts -> States] /\ baselines \in [Edicts -> AllStates]
      /\ IsSequence(sentDeltas) /\ Len(sentDeltas) <= MaxSent
      /\ \A i \in 1..Len(sentDeltas) : TypedUpdate(sentDeltas[i])
      /\ \A update \in toClient : TypedUpdate(update)
      /\ MaxSent \in Nat /\ Len(sentDeltas) \in Nat /\ 0 \in 0..(IdMod - 1)
  BY Lengths, ServerAssumption DEF TypedInv
<1>2. ASSUME UNCHANGED <<updateId, frame, baselineId, baselines, sentDeltas>>,
             toClient' \subseteq toClient
      PROVE  TypedInv'
  BY <1>1, <1>2 DEF TypedInv
<1>3. ASSUME UNCHANGED <<updateId, frame, toClient>>,
             baselineId' = 0, baselines' = Nulls, sentDeltas' = <<>>
      PROVE  TypedInv'
  <2>1. Nulls \in [Edicts -> AllStates]
    BY StateFacts
  <2>2. IsSequence(sentDeltas') /\ Len(sentDeltas') = 0 /\ 1..Len(sentDeltas') = {}
    BY <1>3, EmptyHistory
  <2>3. QED
    BY <1>1, <1>3, <2>1, <2>2 DEF TypedInv
<1>4. ASSUME NEW type \in {"connect", "reset"}, ClientStart(type) PROVE TypedInv'
  BY <1>2, <1>4 DEF ClientStart, frameVars, clientVars
<1>5. ASSUME NEW update \in toClient, NEW got, ClientAck(update, got) PROVE TypedInv'
  BY <1>2, <1>5 DEF ClientAck, frameVars, clientVars
<1>6. CASE HandleConnect
  BY <1>2, <1>3, <1>6 DEF HandleConnect, Receive, frameVars, clientVars
<1>7. CASE HandleReset
  BY <1>2, <1>3, <1>7 DEF HandleReset, Receive, frameVars, clientVars
<1>8. ASSUME NEW ack \in toServer, HandleAck(ack) PROVE TypedInv'
  <2>1. UNCHANGED <<updateId, frame, toClient>>
    BY <1>8 DEF HandleAck, Receive, frameVars
  <2>2. CASE UNCHANGED <<baselineId, baselines, sentDeltas>>
    BY <1>2, <2>1, <2>2
  <2>3. ASSUME NEW i \in 1..Len(sentDeltas), sentDeltas[i].id = ack.id, Acknowledged(ack, i)
        PROVE  TypedInv'
    <3>1. PICK update : update = sentDeltas[i]
      OBVIOUS
    <3>2. TypedUpdate(update) /\ update.id = ack.id
      BY <1>1, <2>3, <3>1
    <3>3. Acked(ack.bits, update.packets) \subseteq DOMAIN update.packets
      BY DEF Acked, BitsRead
    <3>4. baselines' \in [Edicts -> AllStates]
      <4>1. baselines' = Applied(baselines, update.packets, Acked(ack.bits, update.packets))
        BY <2>3, <3>1 DEF Acknowledged
      <4>2. QED
        BY <1>1, <3>2, <3>3, <4>1, AppliedTyped
    <3>5. ack.id \in 0..(IdMod - 1)
      BY <3>2 DEF TypedUpdate
    <3>6. CASE UNCHANGED <<baselineId, sentDeltas>>
      BY <1>1, <2>1, <3>4, <3>6 DEF TypedInv
    <3>7. CASE baselineId' = ack.id /\ sentDeltas' = SubSeq(sentDeltas, i, Len(sentDeltas))
      <4>1. Rest(sentDeltas', sentDeltas, i - 1)
        BY <1>1, <3>7, FromOne
      <4>2. PICK d : d = i - 1
        OBVIOUS
      <4>3. /\ IsSequence(sentDeltas') /\ Len(sentDeltas') <= MaxSent
            /\ \A k \in 1..Len(sentDeltas') : k + d \in 1..Len(sentDeltas)
                                                /\ sentDeltas'[k] = sentDeltas[k + d]
        BY <1>1, <4>1, <4>2 DEF Rest
      <4>4. \A k \in 1..Len(sentDeltas') : TypedUpdate(sentDeltas'[k])
        BY <1>1, <4>3
      <4>5. QED
        BY <1>1, <2>1, <3>4, <3>5, <3>7, <4>3, <4>4 DEF TypedInv
    <3>8. QED
      BY <2>3, <3>6, <3>7 DEF Acknowledged
  <2>4. QED
    BY <1>1, <1>8, <2>2, <2>3, AckOfOne
<1>9. ASSUME NextUpdate, LoadFrame
      PROVE  updateId' \in 0..(IdMod - 1) /\ frame' \in [Edicts -> States]
  BY <1>1, <1>9, NextId DEF NextUpdate, LoadFrame
<1>10. CASE SkipUpdate
  <2>1. /\ NextUpdate /\ LoadFrame /\ UNCHANGED <<baselineId, baselines, sentDeltas>>
        /\ toClient' \subseteq toClient
    BY <1>10 DEF SkipUpdate, clientVars, StillUnderway
  <2>2. QED
    BY <1>1, <1>9, <2>1 DEF TypedInv
<1>11. CASE SendUpdate
  <2>1. PICK update : update = [id |-> updateId, base |-> baselineId, packets |-> Fragments]
    OBVIOUS
  <2>2. /\ NextUpdate /\ LoadFrame /\ UNCHANGED <<baselineId, baselines>>
        /\ toClient' \subseteq toClient \cup {update}
        /\ \/ sentDeltas' = History(Append(sentDeltas, update))
           \/ sentDeltas' = <<>>
    BY <1>11, <2>1 DEF SendUpdate, StillUnderway
  <2>3. updateId' \in 0..(IdMod - 1) /\ frame' \in [Edicts -> States]
    BY <1>9, <2>2
  <2>4. TypedUpdate(update)
    <3>1. /\ Len(Fragments) \in Nat /\ DOMAIN Fragments = 1..Len(Fragments)
          /\ \A j \in DOMAIN Fragments : \A e \in DOMAIN Fragments[j] :
                TypedDelta(Fragments[j][e])
      BY <1>1, <2>3, FragmentsTyped
    <3>2. "id" \in DOMAIN update /\ update.id = updateId /\ update.packets = Fragments
      BY <2>1
    <3>3. QED
      BY <1>1, <3>1, <3>2 DEF TypedUpdate
  <2>5. \A u \in toClient' : TypedUpdate(u)
    BY <1>1, <2>2, <2>4
  <2>6. CASE sentDeltas' = <<>>
    <3>1. IsSequence(sentDeltas') /\ Len(sentDeltas') = 0 /\ 1..Len(sentDeltas') = {}
      BY <2>6, EmptyHistory
    <3>2. QED
      BY <1>1, <2>2, <2>3, <2>5, <3>1 DEF TypedInv
  <2>7. CASE sentDeltas' = History(Append(sentDeltas, update))
    <3>1. PICK a : a = Append(sentDeltas, update)
      OBVIOUS
    <3>2. \A k \in 1..Len(a) : TypedUpdate(a[k])
      <4>1. /\ Len(a) = Len(sentDeltas) + 1 /\ a[Len(sentDeltas) + 1] = update
            /\ \A k \in 1..Len(sentDeltas) : a[k] = sentDeltas[k]
        BY <1>1, <3>1, Appended
      <4>2. \A k \in 1..Len(a) : k \in 1..Len(sentDeltas) \/ k = Len(sentDeltas) + 1
        BY <1>1, <4>1
      <4>3. QED
        BY <1>1, <2>4, <4>1, <4>2
    <3>3. PICK d \in {0, 1} : Rest(sentDeltas', a, d)
      BY <1>1, <2>7, <3>1, HistoryKept
    <3>4. IsSequence(sentDeltas') /\ Len(sentDeltas') <= MaxSent
      BY <1>1, <2>7, HistoryKept
    <3>5. Len(a) \in Nat
      BY <1>1, <3>1, Appended
    <3>6. \A k \in 1..Len(sentDeltas') : k + d \in 1..Len(a) /\ sentDeltas'[k] = a[k + d]
      BY <3>3, <3>5 DEF Rest
    <3>7. \A k \in 1..Len(sentDeltas') : TypedUpdate(sentDeltas'[k])
      BY <3>2, <3>6
    <3>8. QED
      BY <1>1, <2>2, <2>3, <2>5, <3>4, <3>7 DEF TypedInv
  <2>8. QED
    BY <2>2, <2>6, <2>7
<1>12. CASE UNCHANGED vars
  BY <1>2, <1>12 DEF vars, frameVars, clientVars
<1>13. QED
  BY <1>4, <1>5, <1>6, <1>7, <1>8, <1>10, <1>11, <1>12 DEF Next

\* The baselines stay states that deltas can lead to, whatever is applied to
\* them, and the history of a client stays bounded (broadcastEntityStates).
THEOREM ServerTyped == Spec => []TypeOK
<1>1. TypedInv => TypeOK
  BY DEF TypedInv, TypeOK
<1>2. QED
  BY <1>1, TypedInit, TypedNext, PTL DEF Spec

-----------------------------------------------------------------------------
(* Messages that are underway *)

Acks == {m \in toServer : m.type = "ack"}

\* The id of what is underway is none that is used next.
Recent(m) ==
    /\ "id" \in DOMAIN m /\ m.id \in 0..(IdMod - 1)
    /\ Age(updateId, m.id) <= Window + 1

UnderwayInv ==
    /\ \A u \in toClient : Recent(u)
    /\ \A a \in Acks : Recent(a)
    /\ \A u, v \in toClient : u.id = v.id => u = v
    /\ \A u \in toClient, a \in Acks : u.id # a.id
    /\ \A u \in toClient : \A i \in 1..Len(sentDeltas) :
            sentDeltas[i].id = u.id => sentDeltas[i] = u

Now == AgeInv /\ TypedInv

LEMMA NewId ==
    ASSUME updateId \in 0..(IdMod - 1), NEW m, Recent(m)
    PROVE  m.id # updateId
<1>1. IdMod \in Nat \ {0} /\ Window \in Nat /\ Window < IdMod - 1
  BY ServerAssumption
<1>2. PICK id : id = m.id
  OBVIOUS
<1>3. id \in 0..(IdMod - 1) /\ Age(updateId, id) <= Window + 1
  BY <1>2 DEF Recent
<1>4. id # updateId
  BY <1>1, <1>3 DEF Age
<1>5. QED
  BY <1>2, <1>4

LEMMA StillRecent ==
    ASSUME updateId \in 0..(IdMod - 1), NextUpdate, NEW messages,
           NEW m \in StillUnderway(messages), "id" \in DOMAIN m, m.id \in 0..(IdMod - 1)
    PROVE  Recent(m)'
<1>1. IdMod \in Nat \ {0} /\ Window \in Nat /\ Window < IdMod - 1
  BY ServerAssumption
<1>2. Age(updateId, m.id) <= Window /\ updateId' = (updateId + 1) % IdMod
  BY DEF StillUnderway, NextUpdate
<1>3. Age(updateId, m.id) \in 1..IdMod
  BY Older
<1>4. Age(updateId, m.id) < IdMod
  BY <1>1, <1>2, <1>3
<1>5. Age(updateId', m.id) = Age(updateId, m.id) + 1
  BY <1>2, <1>4, Older
<1>6. Age(updateId', m.id) <= Window + 1
  BY <1>1, <1>2, <1>3, <1>5
<1>7. QED
  BY <1>6 DEF Recent

\* The history after an update was sent.
LEMMA SentHistory ==
    ASSUME IdsSuffice, Now, UniqueIds', NEW update, ~isFree,
           sentDeltas' = History(Append(sentDeltas, update))
    PROVE  \E d \in {0, 1} :
            /\ Len(sentDeltas) \in Nat /\ Len(sentDeltas') = Len(sentDeltas) + 1 - d
            /\ Len(sentDeltas') \in Nat \ {0} /\ sentDeltas'[Len(sentDeltas')] = update
            /\ \A k \in 1..(Len(sentDeltas') - 1) :
                    /\ k + d \in 1..Len(sentDeltas) /\ sentDeltas'[k] = sentDeltas[k + d]
                    /\ sentDeltas'[k].id # update.id
<1>1. PICK s : s = sentDeltas'
  OBVIOUS
<1>2. PICK a : a = Append(sentDeltas, update)
  OBVIOUS
<1>3. /\ IsSequence(sentDeltas) /\ Len(sentDeltas) <= MaxSent
      /\ Len(sentDeltas) \in Nat /\ MaxSent \in Nat \ {0}
  BY Lengths, ServerAssumption DEF Now, AgeInv
<1>4. PICK d \in {0, 1} : Rest(s, a, d) /\ IsSequence(s)
  BY <1>1, <1>2, <1>3, HistoryKept
<1>5. /\ Len(a) = Len(sentDeltas) + 1 /\ a[Len(sentDeltas) + 1] = update
      /\ \A k \in 1..Len(sentDeltas) : a[k] = sentDeltas[k]
  BY <1>2, <1>3, Appended
<1>6. /\ Len(s) \in Nat /\ Len(s) = Len(sentDeltas) + 1 - d
      /\ \A k \in 1..Len(s) : s[k] = a[k + d]
      /\ DOMAIN s = 1..Len(s)
  BY <1>3, <1>4, <1>5, Lengths DEF Rest
<1>7. Len(s) \in Nat \ {0}
  <2>1. CASE d = 0
    BY <1>3, <1>6, <2>1
  <2>2. CASE d = 1
    <3>1. Len(sentDeltas) > 0
      <4>1. ASSUME Len(sentDeltas) = 0 PROVE FALSE
        <5>1. Len(a) = 1 /\ ~(Len(a) > MaxSent)
          BY <1>3, <1>5, <4>1
        <5>2. s = a
          BY <1>1, <1>2, <5>1 DEF History
        <5>3. Len(s) = 0
          BY <1>6, <2>2, <4>1
        <5>4. QED
          BY <5>1, <5>2, <5>3
      <4>2. QED
        BY <1>3, <4>1
    <3>2. QED
      BY <1>3, <1>6, <2>2, <3>1
  <2>3. QED
    BY <2>1, <2>2
<1>8. s[Len(s)] = update
  <2>1. Len(s) \in 1..Len(s) /\ Len(s) + d = Len(sentDeltas) + 1
    BY <1>3, <1>6, <1>7
  <2>2. QED
    BY <1>5, <1>6, <2>1
<1>9. ASSUME NEW k \in 1..(Len(s) - 1)
      PROVE  /\ k + d \in 1..Len(sentDeltas) /\ s[k] = sentDeltas[k + d]
             /\ s[k].id # update.id
  <2>1. k + d \in 1..Len(sentDeltas) /\ k \in 1..Len(s) /\ k # Len(s) /\ Len(s) \in 1..Len(s)
    BY <1>3, <1>6, <1>7
  <2>2. s[k] = sentDeltas[k + d]
    BY <1>5, <1>6, <2>1
  <2>3. s[k].id # s[Len(s)].id
    BY <1>1, <1>6, <2>1 DEF UniqueIds
  <2>4. QED
    BY <1>8, <2>1, <2>2, <2>3
<1>10. QED
  BY <1>1, <1>3, <1>6, <1>7, <1>8, <1>9

LEMMA UnderwayInit == Init => UnderwayInv
  BY DEF Init, UnderwayInv, Acks

LEMMA UnderwayNext ==
    ASSUME IdsSuffice
    PROVE  Now /\ UniqueIds' /\ UnderwayInv /\ [Next]_vars => UnderwayInv'
<1> SUFFICES ASSUME Now, UniqueIds', UnderwayInv, [Next]_vars PROVE UnderwayInv'
  OBVIOUS
<1>1. /\ \A u \in toClient : Recent(u)
      /\ \A a \in Acks : Recent(a)
      /\ \A u, v \in toClient : u.id = v.id => u = v
      /\ \A u \in toClient, a \in Acks : u.id # a.id
      /\ \A u \in toClient : \A i \in 1..Len(sentDeltas) :
            sentDeltas[i].id = u.id => sentDeltas[i] = u
      /\ updateId \in 0..(IdMod - 1) /\ IsSequence(sentDeltas) /\ Len(sentDeltas) \in Nat
  BY Lengths DEF UnderwayInv, Now, TypedInv
<1>2. ASSUME updateId' = updateId, toClient' \subseteq toClient, Acks' \subseteq Acks,
             \/ sentDeltas' = sentDeltas
             \/ sentDeltas' = <<>>
             \/ \E i \in 1..Len(sentDeltas) :
                    sentDeltas' = SubSeq(sentDeltas, i, Len(sentDeltas))
      PROVE  UnderwayInv'
  <2>1. \A m : Recent(m) => Recent(m)'
    BY <1>2 DEF Recent
  <2>2. \A k \in 1..Len(sentDeltas') : \E l \in 1..Len(sentDeltas) :
            sentDeltas'[k] = sentDeltas[l]
    <3>1. CASE sentDeltas' = sentDeltas
      BY <3>1
    <3>2. CASE sentDeltas' = <<>>
      BY <3>2, EmptyHistory
    <3>3. ASSUME NEW i \in 1..Len(sentDeltas),
                 sentDeltas' = SubSeq(sentDeltas, i, Len(sentDeltas))
          PROVE  \A k \in 1..Len(sentDeltas') : \E l \in 1..Len(sentDeltas) :
                    sentDeltas'[k] = sentDeltas[l]
      <4>1. Rest(sentDeltas', sentDeltas, i - 1)
        BY <1>1, <3>3, FromOne
      <4>2. PICK d : d = i - 1
        OBVIOUS
      <4>3. \A k \in 1..Len(sentDeltas') : k + d \in 1..Len(sentDeltas)
                                            /\ sentDeltas'[k] = sentDeltas[k + d]
        BY <1>1, <4>1, <4>2 DEF Rest
      <4>4. QED
        BY <4>3
    <3>4. QED
      BY <1>2, <3>1, <3>2, <3>3
  <2>3. QED
    BY <1>1, <1>2, <2>1, <2>2 DEF UnderwayInv
<1>3. ASSUME NEW type \in {"connect", "reset"}, ClientStart(type) PROVE UnderwayInv'
  <2>1. /\ UNCHANGED <<updateId, toClient, sentDeltas>>
        /\ toServer' = toServer \cup {[type |-> type]}
    BY <1>3 DEF ClientStart, frameVars, clientVars
  <2>2. Acks' = Acks
    BY <2>1 DEF Acks
  <2>3. QED
    BY <1>2, <2>1, <2>2
<1>4. ASSUME NEW update \in toClient, NEW got, ClientAck(update, got) PROVE UnderwayInv'
  <2>1. PICK ack : /\ ack.id = update.id /\ "id" \in DOMAIN ack
                   /\ toServer' = toServer \cup {ack}
    BY <1>4 DEF ClientAck
  <2>2. UNCHANGED <<updateId, sentDeltas>> /\ toClient' = toClient \ {update}
    BY <1>4 DEF ClientAck, frameVars, clientVars
  <2>3. Acks' \subseteq Acks \cup {ack}
    BY <2>1 DEF Acks
  <2>4. Recent(ack)
    BY <1>1, <2>1 DEF Recent
  <2>5. \A m : Recent(m) => Recent(m)'
    BY <2>2 DEF Recent
  <2>6. \A u \in toClient' : u.id # ack.id
    BY <1>1, <2>1, <2>2
  <2>7. QED
    BY <1>1, <2>2, <2>3, <2>4, <2>5, <2>6 DEF UnderwayInv
<1>5. ASSUME NEW message, Receive(message)
      PROVE  updateId' = updateId /\ toClient' = toClient /\ Acks' \subseteq Acks
  <2>1. UNCHANGED <<updateId, toClient>> /\ toServer' \subseteq toServer
    BY <1>5 DEF Receive, frameVars
  <2>2. QED
    BY <2>1 DEF Acks
<1>6. CASE HandleConnect
  BY <1>2, <1>5, <1>6 DEF HandleConnect, clientVars
<1>7. CASE HandleReset
  BY <1>2, <1>5, <1>7 DEF HandleReset, clientVars
<1>8. ASSUME NEW ack \in toServer, HandleAck(ack) PROVE UnderwayInv'
  <2>1. updateId' = updateId /\ toClient' = toClient /\ Acks' \subseteq Acks
    BY <1>5, <1>8 DEF HandleAck
  <2>2. \/ sentDeltas' = sentDeltas
        \/ \E i \in 1..Len(sentDeltas) : sentDeltas' = SubSeq(sentDeltas, i, Len(sentDeltas))
    BY <1>1, <1>8, AckOfOne DEF Acknowledged
  <2>3. QED
    BY <1>2, <2>1, <2>2
<1>9. ASSUME NextUpdate, toServer' = StillUnderway(toServer)
      PROVE  /\ \A m \in StillUnderway(toClient) : m \in toClient /\ Recent(m)'
             /\ \A a \in Acks' : a \in Acks /\ Recent(a)'
  <2>1. \A messages : StillUnderway(messages) \subseteq messages
    BY DEF StillUnderway
  <2>2. \A m \in toClient : "id" \in DOMAIN m /\ m.id \in 0..(IdMod - 1)
    BY <1>1 DEF Recent
  <2>3. \A m \in Acks : "id" \in DOMAIN m /\ m.id \in 0..(IdMod - 1)
    BY <1>1 DEF Recent
  <2>4. \A a \in Acks' : a \in Acks /\ a \in StillUnderway(toServer)
    BY <1>9, <2>1 DEF Acks
  <2>5. ASSUME NEW m \in StillUnderway(toClient) PROVE m \in toClient /\ Recent(m)'
    <3>1. m \in toClient
      BY <2>1
    <3>2. QED
      BY <1>1, <1>9, <2>2, <3>1, StillRecent
  <2>6. ASSUME NEW a \in Acks' PROVE a \in Acks /\ Recent(a)'
    <3>1. a \in Acks /\ a \in StillUnderway(toServer)
      BY <2>4
    <3>2. QED
      BY <1>1, <1>9, <2>3, <3>1, StillRecent
  <2>7. QED
    BY <2>5, <2>6
<1>10. CASE SkipUpdate
  <2>1. /\ NextUpdate /\ toServer' = StillUnderway(toServer)
        /\ toClient' = StillUnderway(toClient) /\ sentDeltas' = sentDeltas
    BY <1>10 DEF SkipUpdate, clientVars
  <2>2. QED
    BY <1>1, <1>9, <2>1 DEF UnderwayInv
<1>11. CASE SendUpdate
  <2>1. PICK update : update = [id |-> updateId, base |-> baselineId, packets |-> Fragments]
    OBVIOUS
  <2>2. /\ NextUpdate /\ toServer' = StillUnderway(toServer) /\ ~isFree
        /\ toClient' = StillUnderway(toClient) \cup {update}
        /\ \/ sentDeltas' = History(Append(sentDeltas, update))
           \/ sentDeltas' = <<>>
        /\ update.id = updateId /\ "id" \in DOMAIN update
    BY <1>11, <2>1 DEF SendUpdate
  <2>3. Recent(update)'
    <3>1. Age(updateId', updateId) = 1
      BY <1>1, <2>2, Older DEF NextUpdate
    <3>2. Window \in Nat
      BY ServerAssumption
    <3>3. QED
      BY <1>1, <2>2, <3>1, <3>2 DEF Recent
  <2>4. /\ \A m \in StillUnderway(toClient) : m \in toClient /\ Recent(m)' /\ m.id # updateId
        /\ \A a \in Acks' : a \in Acks /\ Recent(a)' /\ a.id # updateId
    BY <1>1, <1>9, <2>2, NewId
  <2>5. \A u \in toClient' : \A i \in 1..Len(sentDeltas') :
            sentDeltas'[i].id = u.id => sentDeltas'[i] = u
    <3>1. CASE sentDeltas' = <<>>
      BY <3>1, EmptyHistory
    <3>2. CASE sentDeltas' = History(Append(sentDeltas, update))
      <4>1. PICK d \in {0, 1} :
            /\ Len(sentDeltas) \in Nat /\ Len(sentDeltas') = Len(sentDeltas) + 1 - d
            /\ Len(sentDeltas') \in Nat \ {0} /\ sentDeltas'[Len(sentDeltas')] = update
            /\ \A k \in 1..(Len(sentDeltas') - 1) :
                    /\ k + d \in 1..Len(sentDeltas) /\ sentDeltas'[k] = sentDeltas[k + d]
                    /\ sentDeltas'[k].id # update.id
        BY <2>2, <3>2, SentHistory
      <4>2. \A i \in 1..Len(sentDeltas') : i \in 1..(Len(sentDeltas') - 1)
                                            \/ i = Len(sentDeltas')
        BY <4>1
      <4>3. \A i \in 1..Len(sentDeltas') :
                \/ sentDeltas'[i] = update
                \/ /\ sentDeltas'[i].id # update.id
                   /\ \E l \in 1..Len(sentDeltas) : sentDeltas'[i] = sentDeltas[l]
        BY <4>1, <4>2
      <4>4. \A u \in toClient' : u = update \/ (u \in toClient /\ u.id # update.id)
        BY <2>2, <2>4
      <4>5. QED
        BY <1>1, <4>3, <4>4
    <3>3. QED
      BY <2>2, <3>1, <3>2
  <2>6. QED
    BY <1>1, <2>2, <2>3, <2>4, <2>5 DEF UnderwayInv
<1>12. CASE UNCHANGED vars
  <2>1. UNCHANGED <<updateId, toClient, toServer, sentDeltas>>
    BY <1>12 DEF vars, frameVars, clientVars
  <2>2. Acks' = Acks
    BY <2>1 DEF Acks
  <2>3. QED
    BY <1>2, <2>1, <2>2
<1>13. QED
  BY <1>3, <1>4, <1>6, <1>7, <1>8, <1>10, <1>11, <1>12 DEF Next

-----------------------------------------------------------------------------
(* The baseline *)

\* The updates of the history, and what they were made from: the baseline, if its
\* update is still there, is the oldest; and only of it one can have been made.
Lineage(s, id) ==
    /\ \A i \in 1..Len(s) : s[i].id # 0 /\ s[i].base # s[i].id
    /\ \A i \in 1..Len(s) : s[i].id = id => i = 1
    /\ \A i, k \in 1..Len(s) : k < i /\ s[i].base = s[k].id => k = 1 /\ s[k].id = id

\* What the server will make of an acknowledgement of deltas from the baseline is
\* what the client has made of them.
Answers ==
    \A a \in Acks : \A i \in 1..Len(sentDeltas) :
        /\ sentDeltas[i].id = a.id /\ sentDeltas[i].base = baselineId
        /\ a.id \in DOMAIN known
        /\ BitsRead(a.bits, sentDeltas[i].packets) = DOMAIN sentDeltas[i].packets
        => known[a.id] = Applied(baselines, sentDeltas[i].packets,
                                 Acked(a.bits, sentDeltas[i].packets))

Agreement ==
    /\ baselineId \in DOMAIN known => known[baselineId] = baselines
    /\ \A u \in toClient : u.id # baselineId \/ u.id = 0
    /\ Lineage(sentDeltas, baselineId)
    /\ Answers

BaselineInv ==
    /\ 0 \in DOMAIN known /\ known[0] = Nulls
    /\ ~isFree /\ ~astray => Agreement

ServerInv == Now /\ UniqueIds /\ UnderwayInv /\ BaselineInv

LEMMA NoLineage == \A id : Lineage(<<>>, id)
  BY EmptyHistory DEF Lineage

LEMMA BaselineInit == Init => BaselineInv
  BY DEF Init, BaselineInv, NoStates

\* A client that begins, or that begins again.
LEMMA BeginsAgreed ==
    ASSUME 0 \in DOMAIN known', known'[0] = Nulls,
           baselineId' = 0, baselines' = Nulls, sentDeltas' = <<>>
    PROVE  BaselineInv'
<1>1. Len(sentDeltas') = 0 /\ 1..Len(sentDeltas') = {} /\ Lineage(sentDeltas', baselineId')
  BY EmptyHistory, NoLineage
<1>2. Agreement'
  BY <1>1 DEF Agreement, Answers
<1>3. QED
  BY <1>2 DEF BaselineInv

\* The client begins again: an acknowledgement that is underway is of states it
\* no longer has.
LEMMA StartKeeps ==
    ASSUME ServerInv, NEW type \in {"connect", "reset"}, ClientStart(type)
    PROVE  BaselineInv'
<1>1. /\ UNCHANGED <<isFree, astray, baselineId, baselines, sentDeltas, toClient>>
      /\ toServer' = toServer \cup {[type |-> type]} /\ known' = NoStates
  BY DEF ClientStart, clientVars
<1>2. Acks' = Acks
  BY <1>1 DEF Acks
<1>3. DOMAIN known' = {0} /\ known'[0] = Nulls
  BY <1>1 DEF NoStates
<1>4. CASE isFree \/ astray
  BY <1>1, <1>3, <1>4 DEF BaselineInv
<1>5. CASE ~isFree /\ ~astray
  <2>1. Agreement /\ known[0] = Nulls /\ 0 \in DOMAIN known
    BY <1>5 DEF ServerInv, BaselineInv
  <2>2. \A i \in 1..Len(sentDeltas) : sentDeltas[i].id # 0
    BY <2>1 DEF Agreement, Lineage
  <2>3. Answers'
    BY <1>1, <1>2, <1>3, <2>2 DEF Answers
  <2>4. Agreement'
    BY <1>1, <1>3, <2>1, <2>3 DEF Agreement
  <2>5. QED
    BY <1>3, <2>4 DEF BaselineInv
<1>6. QED
  BY <1>4, <1>5

\* The bits tell the packets that the client got, if the server reads them all.
LEMMA BitsTell ==
    ASSUME NEW packets, Len(packets) \in Nat, DOMAIN packets = 1..Len(packets),
           NEW got, got \subseteq DOMAIN packets,
           NEW last \in got \cup {Len(packets)}, \A j \in got : j <= last,
           NEW bits, bits = [j \in 1..last |-> j \in got],
           BitsRead(bits, packets) = DOMAIN packets
    PROVE  Acked(bits, packets) = got
<1>1. last \in Nat /\ Len(bits) = last
  <2>1. last \in Nat
    OBVIOUS
  <2>2. \A n \in Nat : Len([j \in 1..n |-> j \in got]) = n
    OBVIOUS
  <2>3. QED
    BY <2>1, <2>2
<1>2. Acked(bits, packets) = {j \in DOMAIN packets : j <= last /\ bits[j]}
  BY <1>1 DEF Acked
<1>3. ASSUME NEW j \in DOMAIN packets, j <= last PROVE bits[j] = (j \in got)
  <2>1. j \in 1..last
    <3>1. \A n \in Nat, k \in Nat : \A l \in 1..n : l <= k => l \in 1..k
      OBVIOUS
    <3>2. last \in Nat /\ j \in 1..Len(packets)
      BY <1>1
    <3>3. QED
      BY <1>3, <3>1, <3>2, Zenon
  <2>2. QED
    BY <2>1, Zenon
<1>4. \A j \in got : j <= last /\ j \in DOMAIN packets
  OBVIOUS
<1>5. QED
  BY <1>2, <1>3, <1>4

\* The client makes of an update from the baseline what the server will make of
\* the answer.
LEMMA AnswerKeeps ==
    ASSUME ServerInv, NEW update \in toClient,
           NEW got \in SUBSET DOMAIN update.packets, ClientAck(update, got)
    PROVE  BaselineInv'
<1> DEFINE states == Applied(known[update.base], update.packets, got)
<1>1. PICK last \in got \cup {Len(update.packets)} :
        /\ \A j \in got : j <= last
        /\ toServer' = toServer \cup {[type |-> "ack", id |-> update.id,
                                       bits |-> [j \in 1..last |-> j \in got]]}
  BY DEF ClientAck
<1>2. PICK ack : ack = [type |-> "ack", id |-> update.id,
                        bits |-> [j \in 1..last |-> j \in got]]
  OBVIOUS
<1>3. /\ ack.type = "ack" /\ ack.id = update.id
      /\ ack.bits = [j \in 1..last |-> j \in got]
  BY <1>2
<1>4. /\ UNCHANGED <<isFree, astray, baselineId, baselines, sentDeltas>>
      /\ toClient' = toClient \ {update} /\ update.base \in DOMAIN known
  BY DEF ClientAck, clientVars
<1>5. PICK kept : /\ kept \in {DOMAIN known, {0, update.base}}
                  /\ known' = [id \in kept \cup {update.id} |->
                        IF id = update.id /\ id # 0 THEN states ELSE known[id]]
  BY DEF ClientAck
<1> HIDE DEF states
<1>6. 0 \in DOMAIN known /\ known[0] = Nulls
  BY DEF ServerInv, BaselineInv
<1>7. /\ 0 \in DOMAIN known' /\ known'[0] = Nulls
      /\ \A id \in DOMAIN known' : id # update.id \/ id = 0 =>
            id \in DOMAIN known /\ known'[id] = known[id]
      /\ update.id # 0 => known'[update.id] = states
  <2>1. 0 \in kept /\ kept \subseteq DOMAIN known
    BY <1>4, <1>5, <1>6
  <2>2. QED
    BY <1>5, <1>6, <2>1
<1>8. CASE isFree \/ astray
  BY <1>4, <1>7, <1>8 DEF BaselineInv
<1>9. CASE ~isFree /\ ~astray
  <2>1. Agreement
    BY <1>9 DEF ServerInv, BaselineInv
  <2>2. \A i \in 1..Len(sentDeltas) : sentDeltas[i].id # 0
    BY <2>1 DEF Agreement, Lineage
  <2>3. baselineId \in DOMAIN known' => known'[baselineId] = baselines
    BY <1>7, <2>1 DEF Agreement
  <2>4. Acks' = Acks \cup {ack}
    BY <1>1, <1>2, <1>3 DEF Acks
  <2>5. ASSUME NEW i \in 1..Len(sentDeltas), sentDeltas[i].id = ack.id,
               sentDeltas[i].base = baselineId,
               BitsRead(ack.bits, sentDeltas[i].packets) = DOMAIN sentDeltas[i].packets
        PROVE  known'[ack.id] = Applied(baselines, sentDeltas[i].packets,
                                        Acked(ack.bits, sentDeltas[i].packets))
    <3>1. sentDeltas[i] = update
      BY <1>3, <2>5 DEF ServerInv, UnderwayInv
    <3>2. Len(update.packets) \in Nat /\ DOMAIN update.packets = 1..Len(update.packets)
      BY DEF ServerInv, Now, TypedInv, TypedUpdate
    <3>3. Acked(ack.bits, update.packets) = got
      <4>1. PICK packets : packets = update.packets
        OBVIOUS
      <4>2. PICK bits : bits = ack.bits
        OBVIOUS
      <4>3. BitsRead(bits, packets) = DOMAIN packets
        BY <2>5, <3>1, <4>1, <4>2
      <4>4. Acked(bits, packets) = got
        BY <1>1, <1>3, <3>2, <4>1, <4>2, <4>3, BitsTell
      <4>5. QED
        BY <4>1, <4>2, <4>4
    <3>4. known[update.base] = baselines
      BY <1>4, <2>1, <2>5, <3>1 DEF Agreement
    <3>5. update.id # 0
      BY <2>2, <3>1
    <3>6. known'[ack.id] = Applied(baselines, update.packets, got)
      BY <1>3, <1>7, <3>4, <3>5 DEF states
    <3>7. QED
      BY <3>1, <3>3, <3>6
  <2>6. Answers'
    <3>1. \A a \in Acks : a.id # update.id
      BY DEF ServerInv, UnderwayInv
    <3>2. ASSUME NEW a \in Acks, NEW i \in 1..Len(sentDeltas),
                 sentDeltas[i].id = a.id, sentDeltas[i].base = baselineId,
                 a.id \in DOMAIN known',
                 BitsRead(a.bits, sentDeltas[i].packets) = DOMAIN sentDeltas[i].packets
          PROVE  known'[a.id] = Applied(baselines, sentDeltas[i].packets,
                                        Acked(a.bits, sentDeltas[i].packets))
      <4>1. a.id \in DOMAIN known /\ known'[a.id] = known[a.id]
        BY <1>7, <3>1, <3>2
      <4>2. QED
        BY <2>1, <3>2, <4>1 DEF Agreement, Answers
    <3>3. QED
      BY <1>4, <2>4, <2>5, <3>2 DEF Answers
  <2>7. Agreement'
    BY <1>4, <2>1, <2>3, <2>6 DEF Agreement
  <2>8. QED
    BY <1>7, <2>7 DEF BaselineInv
<1>10. QED
  BY <1>8, <1>9

\* What does not change the agreement.
LEMMA SameKeeps ==
    ASSUME ServerInv, toClient' \subseteq toClient, Acks' \subseteq Acks,
           UNCHANGED <<known, isFree, astray, baselineId, baselines, sentDeltas>>
    PROVE  BaselineInv'
<1>1. CASE isFree \/ astray
  BY <1>1 DEF ServerInv, BaselineInv
<1>2. CASE ~isFree /\ ~astray
  <2>1. Agreement /\ 0 \in DOMAIN known /\ known[0] = Nulls
    BY <1>2 DEF ServerInv, BaselineInv
  <2>2. Answers'
    BY <2>1 DEF Agreement, Answers
  <2>3. Agreement'
    BY <2>1, <2>2 DEF Agreement
  <2>4. QED
    BY <2>1, <2>3 DEF BaselineInv
<1>3. QED
  BY <1>1, <1>2

\* The update that is acknowledged becomes the oldest, and none of the later ones
\* was made from it.
LEMMA LineageKept ==
    ASSUME NEW s, IsSequence(s), NEW id, Lineage(s, id), NEW i \in 1..Len(s),
           \A k, l \in 1..Len(s) : s[k].id = s[l].id => k = l,
           s[i].base = id,
           NEW t, t = SubSeq(s, i, Len(s))
    PROVE  /\ Lineage(t, s[i].id)
           /\ \A k \in 1..Len(t) : t[k].base # s[i].id
<1>1. PICK d : d = i - 1
  OBVIOUS
<1>2. Rest(t, s, d)
  BY <1>1, FromOne
<1>3. /\ Len(s) \in Nat /\ d \in Nat /\ i = d + 1
      /\ Len(t) = Len(s) - d
      /\ \A k \in 1..Len(t) : t[k] = s[k + d] /\ k + d \in 1..Len(s)
  <2>1. Len(s) \in Nat
    BY Lengths
  <2>2. d \in Nat /\ i = d + 1
    BY <1>1, <2>1
  <2>3. Len(t) = Len(s) - d /\ \A k \in 1..Len(t) : t[k] = s[k + d]
    BY <1>2 DEF Rest
  <2>4. \A k \in 1..Len(t) : k + d \in 1..Len(s)
    BY <2>1, <2>2, <2>3
  <2>5. QED
    BY <2>1, <2>2, <2>3, <2>4
<1>4. /\ \A k \in 1..Len(s) : s[k].id # 0 /\ s[k].base # s[k].id
      /\ \A k \in 1..Len(s) : s[k].id = id => k = 1
      /\ \A k, l \in 1..Len(s) : l < k /\ s[k].base = s[l].id => l = 1 /\ s[l].id = id
  BY DEF Lineage
<1>5. s[i].id # id
  BY <1>4
<1>6. ASSUME NEW k \in 1..Len(t), NEW l \in 1..Len(t), l < k PROVE t[k].base # t[l].id
  <2>1. PICK m \in 1..Len(s) : m = k + d /\ t[k] = s[m]
    BY <1>3
  <2>2. PICK n \in 1..Len(s) : n = l + d /\ t[l] = s[n]
    BY <1>3
  <2>3. n < m
    BY <1>3, <1>6, <2>1, <2>2
  <2>4. ASSUME s[m].base = s[n].id PROVE FALSE
    <3>1. n = 1 /\ s[n].id = id
      BY <1>4, <2>3, <2>4
    <3>2. n = i
      BY <1>3, <2>2, <3>1
    <3>3. QED
      BY <1>5, <3>1, <3>2
  <2>5. QED
    BY <2>1, <2>2, <2>4
<1>7. ASSUME NEW k \in 1..Len(t) PROVE t[k].base # s[i].id
  <2>1. t[k] = s[k + d] /\ k + d \in 1..Len(s)
    BY <1>3
  <2>2. CASE k = 1
    <3>1. t[k] = s[i]
      BY <1>3, <2>1, <2>2
    <3>2. QED
      BY <1>4, <3>1
  <2>3. CASE k # 1
    <3>1. 1 \in 1..Len(t) /\ 1 < k
      BY <1>3, <2>3
    <3>2. t[1] = s[i]
      BY <1>3, <3>1
    <3>3. QED
      BY <1>6, <3>1, <3>2
  <2>4. QED
    BY <2>2, <2>3
<1>8. ASSUME NEW k \in 1..Len(t), t[k].id = s[i].id PROVE k = 1
  <2>1. PICK m \in 1..Len(s) : m = k + d /\ t[k] = s[m]
    BY <1>3
  <2>2. m = i
    BY <1>8, <2>1
  <2>3. QED
    BY <1>3, <2>1, <2>2
<1>9. \A k \in 1..Len(t) : t[k].id # 0 /\ t[k].base # t[k].id
  BY <1>3, <1>4
<1>10. QED
  BY <1>6, <1>7, <1>8, <1>9 DEF Lineage

LEMMA AckKeeps ==
    ASSUME ServerInv, NEW ack \in toServer, HandleAck(ack)
    PROVE  BaselineInv'
<1>1. /\ UNCHANGED <<isFree, toClient, known>>
      /\ toServer' \subseteq toServer /\ ack \in Acks
  BY DEF HandleAck, Receive, Acks
<1>2. Acks' \subseteq Acks
  BY <1>1 DEF Acks
<1>3. IsSequence(sentDeltas) /\ 0 \in DOMAIN known /\ known[0] = Nulls
  BY DEF ServerInv, Now, TypedInv, BaselineInv
<1>4. CASE UNCHANGED <<baselineId, baselines, sentDeltas, astray>>
  BY <1>1, <1>2, <1>4, SameKeeps
<1>5. ASSUME NEW i \in 1..Len(sentDeltas), sentDeltas[i].id = ack.id, Acknowledged(ack, i)
      PROVE  BaselineInv'
  <2> DEFINE packets == sentDeltas[i].packets
  <2>1. CASE astray'
    BY <1>1, <1>3, <2>1 DEF BaselineInv
  <2>2. CASE ~astray'
    <3>1. /\ ~isFree /\ ~astray /\ sentDeltas[i].base = baselineId
          /\ BitsRead(ack.bits, packets) = DOMAIN packets
          /\ baselineId' = ack.id
          /\ baselines' = Applied(baselines, packets, Acked(ack.bits, packets))
          /\ sentDeltas' = SubSeq(sentDeltas, i, Len(sentDeltas))
      BY <1>5, <2>2 DEF Acknowledged
    <3>2. Agreement
      BY <3>1 DEF ServerInv, BaselineInv
    <3>3. \A k, l \in 1..Len(sentDeltas) : sentDeltas[k].id = sentDeltas[l].id => k = l
      <4>1. DOMAIN sentDeltas = 1..Len(sentDeltas)
        BY <1>3, Lengths
      <4>2. QED
        BY <4>1 DEF ServerInv, UniqueIds
    <3>4. /\ Lineage(sentDeltas', baselineId')
          /\ \A k \in 1..Len(sentDeltas') : sentDeltas'[k].base # baselineId'
      <4>1. PICK t : t = sentDeltas'
        OBVIOUS
      <4>2. Lineage(sentDeltas, baselineId)
        BY <3>2 DEF Agreement
      <4>3. /\ Lineage(t, sentDeltas[i].id)
            /\ \A k \in 1..Len(t) : t[k].base # sentDeltas[i].id
        BY <1>3, <3>1, <3>3, <4>1, <4>2, LineageKept
      <4>4. QED
        BY <1>5, <3>1, <4>1, <4>3
    <3>5. ack.id \in DOMAIN known => known[ack.id] = baselines'
      BY <1>1, <1>5, <3>1, <3>2 DEF Agreement, Answers
    <3>6. \A u \in toClient : u.id # ack.id
      BY <1>1 DEF ServerInv, UnderwayInv
    <3>7. Answers'
      BY <3>4 DEF Answers
    <3>8. Agreement'
      BY <1>1, <3>1, <3>4, <3>5, <3>6, <3>7 DEF Agreement
    <3>9. QED
      BY <1>1, <1>3, <3>8 DEF BaselineInv
  <2>3. QED
    BY <2>1, <2>2
<1>6. QED
  BY <1>3, <1>4, <1>5, AckOfOne

\* An update is made from the baseline, under an id that is none of the history.
LEMMA SendKeeps ==
    ASSUME IdsSuffice, ServerInv, UniqueIds', SendUpdate
    PROVE  BaselineInv'
<1>1. PICK update : update = [id |-> updateId, base |-> baselineId, packets |-> Fragments]
  OBVIOUS
<1>2. update.id = updateId /\ update.base = baselineId
  BY <1>1
<1>3. /\ UNCHANGED <<baselineId, baselines, known>> /\ ~isFree /\ NextUpdate
      /\ toClient' = StillUnderway(toClient) \cup {update}
      /\ toServer' = StillUnderway(toServer)
      /\ \/ sentDeltas' = History(Append(sentDeltas, update)) /\ isFree' = isFree
         \/ isFree' = TRUE
      /\ ~astray' => ~astray /\ updateId # 0 /\ updateId # baselineId
  BY <1>1 DEF SendUpdate
<1>4. 0 \in DOMAIN known /\ known[0] = Nulls /\ updateId \in 0..(IdMod - 1)
  BY DEF ServerInv, Now, TypedInv, BaselineInv
<1>5. CASE isFree' \/ astray'
  BY <1>3, <1>4, <1>5 DEF BaselineInv
<1>6. CASE ~isFree' /\ ~astray'
  <2>1. /\ Agreement /\ updateId # 0 /\ updateId # baselineId
        /\ sentDeltas' = History(Append(sentDeltas, update))
    BY <1>3, <1>6 DEF ServerInv, BaselineInv
  <2>2. PICK s : s = sentDeltas'
    OBVIOUS
  <2>3. PICK d \in {0, 1} :
            /\ Len(sentDeltas) \in Nat /\ Len(s) = Len(sentDeltas) + 1 - d
            /\ Len(s) \in Nat \ {0} /\ s[Len(s)] = update
            /\ \A k \in 1..(Len(s) - 1) :
                    /\ k + d \in 1..Len(sentDeltas) /\ s[k] = sentDeltas[k + d]
                    /\ s[k].id # update.id
    BY <1>3, <2>1, <2>2, SentHistory DEF ServerInv
  <2>4. /\ \A k \in 1..Len(sentDeltas) : sentDeltas[k].id # 0
                                          /\ sentDeltas[k].base # sentDeltas[k].id
        /\ \A k \in 1..Len(sentDeltas) : sentDeltas[k].id = baselineId => k = 1
        /\ \A k, l \in 1..Len(sentDeltas) :
                l < k /\ sentDeltas[k].base = sentDeltas[l].id
                => l = 1 /\ sentDeltas[l].id = baselineId
    BY <2>1 DEF Agreement, Lineage
  <2>5. \A k \in 1..Len(s) : k \in 1..(Len(s) - 1) \/ k = Len(s)
    BY <2>3
  <2>6. ASSUME NEW k \in 1..Len(s)
        PROVE  s[k].id # 0 /\ s[k].base # s[k].id /\ (s[k].id = baselineId => k = 1)
    <3>1. CASE k = Len(s)
      BY <1>2, <2>1, <2>3, <3>1
    <3>2. CASE k \in 1..(Len(s) - 1)
      <4>1. PICK m \in 1..Len(sentDeltas) : m = k + d /\ s[k] = sentDeltas[m]
        BY <2>3, <3>2
      <4>2. s[k].id = baselineId => m = 1
        BY <2>4, <4>1
      <4>3. m = 1 => k = 1
        BY <2>3, <4>1
      <4>4. QED
        BY <2>4, <4>1, <4>2, <4>3
    <3>3. QED
      BY <2>5, <3>1, <3>2
  <2>7. ASSUME NEW i \in 1..Len(s), NEW k \in 1..Len(s), k < i, s[i].base = s[k].id
        PROVE  k = 1 /\ s[k].id = baselineId
    <3>1. PICK n \in 1..Len(sentDeltas) : n = k + d /\ s[k] = sentDeltas[n]
      <4>1. k \in 1..(Len(s) - 1)
        BY <2>3, <2>7
      <4>2. QED
        BY <2>3, <4>1
    <3>2. CASE i = Len(s)
      <4>1. s[k].id = baselineId
        BY <1>2, <2>3, <2>7, <3>2
      <4>2. QED
        BY <2>6, <4>1
    <3>3. CASE i \in 1..(Len(s) - 1)
      <4>1. PICK m \in 1..Len(sentDeltas) : m = i + d /\ s[i] = sentDeltas[m]
        BY <2>3, <3>3
      <4>2. n < m
        BY <2>3, <2>7, <3>1, <4>1
      <4>3. n = 1 /\ sentDeltas[n].id = baselineId
        BY <2>4, <2>7, <3>1, <4>1, <4>2
      <4>4. QED
        BY <2>6, <3>1, <4>3
    <3>4. QED
      BY <2>5, <3>2, <3>3
  <2>8. Lineage(sentDeltas', baselineId')
    BY <1>3, <2>2, <2>6, <2>7 DEF Lineage
  <2>9. /\ StillUnderway(toClient) \subseteq toClient
        /\ \A a \in Acks' : a \in Acks /\ a.id # updateId
    <3>1. \A messages : StillUnderway(messages) \subseteq messages
      BY DEF StillUnderway
    <3>2. Acks' \subseteq Acks
      BY <1>3, <3>1 DEF Acks
    <3>3. \A a \in Acks : a.id # updateId
      BY <1>4, NewId DEF ServerInv, UnderwayInv
    <3>4. QED
      BY <3>1, <3>2, <3>3
  <2>10. \A u \in toClient' : u.id # baselineId' \/ u.id = 0
    BY <1>2, <1>3, <2>1, <2>9 DEF Agreement
  <2>11. Answers'
    <3> SUFFICES ASSUME NEW a \in Acks', NEW i \in 1..Len(s),
                        s[i].id = a.id, s[i].base = baselineId, a.id \in DOMAIN known,
                        BitsRead(a.bits, s[i].packets) = DOMAIN s[i].packets
                 PROVE  known[a.id] = Applied(baselines, s[i].packets,
                                              Acked(a.bits, s[i].packets))
      BY <1>3, <2>2 DEF Answers
    <3>1. a \in Acks /\ a.id # updateId
      BY <2>9
    <3>2. i \in 1..(Len(s) - 1)
      BY <1>2, <2>3, <2>5, <3>1
    <3>3. PICK m \in 1..Len(sentDeltas) : s[i] = sentDeltas[m]
      BY <2>3, <3>2
    <3>4. QED
      BY <2>1, <3>1, <3>3 DEF Agreement, Answers
  <2>12. Agreement'
    BY <1>3, <2>1, <2>8, <2>10, <2>11 DEF Agreement
  <2>13. QED
    BY <1>3, <1>4, <2>12 DEF BaselineInv
<1>7. QED
  BY <1>5, <1>6

LEMMA BaselineNext ==
    ASSUME IdsSuffice
    PROVE  ServerInv /\ UniqueIds' /\ [Next]_vars => BaselineInv'
<1> SUFFICES ASSUME ServerInv, UniqueIds', [Next]_vars PROVE BaselineInv'
  OBVIOUS
<1>1. ASSUME NEW type \in {"connect", "reset"}, ClientStart(type) PROVE BaselineInv'
  BY <1>1, StartKeeps
<1>2. ASSUME NEW update \in toClient, NEW got \in SUBSET DOMAIN update.packets,
             ClientAck(update, got)
      PROVE  BaselineInv'
  BY <1>2, AnswerKeeps
<1>3. ASSUME NEW message, Receive(message)
      PROVE  Acks' \subseteq Acks /\ UNCHANGED <<toClient, known>>
  <2>1. toServer' \subseteq toServer /\ UNCHANGED <<toClient, known>>
    BY <1>3 DEF Receive
  <2>2. QED
    BY <2>1 DEF Acks
<1>4. 0 \in DOMAIN known /\ known[0] = Nulls
  BY DEF ServerInv, BaselineInv
<1>5. ASSUME Acks' \subseteq Acks, UNCHANGED <<toClient, known>>,
             \/ UNCHANGED clientVars
             \/ baselineId' = 0 /\ baselines' = Nulls /\ sentDeltas' = <<>>
      PROVE  BaselineInv'
  BY <1>4, <1>5, SameKeeps, BeginsAgreed DEF clientVars
<1>6. CASE HandleConnect
  BY <1>3, <1>5, <1>6 DEF HandleConnect
<1>7. CASE HandleReset
  BY <1>3, <1>5, <1>7 DEF HandleReset
<1>8. ASSUME NEW ack \in toServer, HandleAck(ack) PROVE BaselineInv'
  BY <1>8, AckKeeps
<1>9. CASE SkipUpdate
  <2>1. /\ UNCHANGED <<known, isFree, astray, baselineId, baselines, sentDeltas>>
        /\ toClient' \subseteq toClient /\ toServer' \subseteq toServer
    BY <1>9 DEF SkipUpdate, clientVars, StillUnderway
  <2>2. Acks' \subseteq Acks
    BY <2>1 DEF Acks
  <2>3. QED
    BY <2>1, <2>2, SameKeeps
<1>10. CASE SendUpdate
  BY <1>10, SendKeeps
<1>11. CASE UNCHANGED vars
  <2>1. /\ UNCHANGED <<known, isFree, astray, baselineId, baselines, sentDeltas>>
        /\ UNCHANGED <<toClient, toServer>>
    BY <1>11 DEF vars, clientVars
  <2>2. Acks' = Acks
    BY <2>1 DEF Acks
  <2>3. QED
    BY <2>1, <2>2, SameKeeps
<1>12. QED
  BY <1>1, <1>2, <1>6, <1>7, <1>8, <1>9, <1>10, <1>11 DEF Next

\* The states that the server makes deltas from are those that the client has of
\* the update of the baseline's id (baselineId, NetClient.h), if ids suffice:
\* messages can be lost, late, out of order and twice, an acknowledgement short,
\* and the client discard states; the exceptions are those of astray.
THEOREM ServerHasClientsStates == ASSUME IdsSuffice PROVE Spec => []BaselineAgrees
<1>1. Init => AgeInv /\ TypedInv /\ UnderwayInv /\ BaselineInv
  BY AgeInit, TypedInit, UnderwayInit, BaselineInit
<1>2. AgeInv /\ TypedInv /\ UnderwayInv /\ BaselineInv /\ [Next]_vars
        => (AgeInv /\ TypedInv /\ UnderwayInv /\ BaselineInv)'
  <2> SUFFICES ASSUME AgeInv, TypedInv, UnderwayInv, BaselineInv, [Next]_vars
               PROVE  AgeInv' /\ TypedInv' /\ UnderwayInv' /\ BaselineInv'
    OBVIOUS
  <2>1. AgeInv' /\ TypedInv'
    BY AgeNext, TypedNext
  <2>2. UniqueIds /\ UniqueIds'
    <3>1. UniqueIds
      BY AgesDiffer
    <3>2. UniqueIds'
      <4>1. (AgeInv => UniqueIds)'
        BY AgesDiffer, PTL
      <4>2. QED
        BY <2>1, <4>1
    <3>3. QED
      BY <3>1, <3>2
  <2>3. UnderwayInv'
    BY <2>2, UnderwayNext DEF Now
  <2>4. BaselineInv'
    BY <2>2, BaselineNext DEF ServerInv, Now
  <2>5. QED
    BY <2>1, <2>3, <2>4
<1>3. BaselineInv => BaselineAgrees
  BY DEF BaselineInv, Agreement, BaselineAgrees
<1>4. QED
  BY <1>1, <1>2, <1>3, PTL DEF Spec
=============================================================================
