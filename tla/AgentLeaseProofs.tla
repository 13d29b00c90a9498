-------------------------- MODULE AgentLeaseProofs --------------------------
(***************************************************************************)
(* The safety of the crate agent-lease and of its one caller: of a lease,  *)
(* for every set of parties, every ladder of priorities, every policy and  *)
(* every bound; of the viewer's board of leases and of the viewer's input  *)
(* path, for every set of agents and sessions and every policy with one    *)
(* person above agents of one rank.                                        *)
(*                                                                         *)
(* First the operations of LeaseOps, for whoever calls them: applied to a  *)
(* sound lease at an instant not before its grant, each answers with a     *)
(* sound lease, and one that takes the wheel from a driving holder, or     *)
(* gives it to a new one, reports the release of input.                    *)
(*                                                                         *)
(* Then Lease.  What has to be added to make an inductive invariant is the *)
(* limb: while somebody drives, only that party's input is down, and a     *)
(* handover that is under way still owes the sweep.                        *)
(*                                                                         *)
(* Then Board.  A board call is a chain of lease calls, each of which      *)
(* keeps its lease sound; what has to be added is what only the board      *)
(* promises: that it never leaves a handover open, that the only           *)
(* preemption is the person's, that the person is never in line, and that  *)
(* a person who used a session a moment ago drives it or is about to.      *)
(*                                                                         *)
(* Then Viewer.  A lease numbers its grants, so a call that has moved the  *)
(* wheel off an agent cannot hide it from settle; what has to be added is  *)
(* where a sweep is between the answer that owes it and the driver.        *)
(***************************************************************************)
EXTENDS Lease, Board, Viewer, SequenceTheorems, FiniteSetTheorems, NaturalsInduction, TLAPS

\* Vec::remove: taking a waiter out shifts the ones behind it forward by one.
LEMMA WithoutFacts ==
    ASSUME NEW S, NEW q \in Seq(S), NEW i \in 1..Len(q)
    PROVE  /\ Without(q, i) \in Seq(S)
           /\ Len(Without(q, i)) = Len(q) - 1
           /\ \A k \in 1..(Len(q) - 1) :
                  Without(q, i)[k] = IF k < i THEN q[k] ELSE q[k + 1]
  <1>len. Len(q) \in Nat /\ i \in Nat /\ i >= 1 /\ i <= Len(q)
    BY LenProperties
  <1>elt. \A k \in 1..Len(q) : q[k] \in S
    BY ElementOfSeq
  <1> DEFINE f == SubSeq(q, 1, i - 1)
             b == SubSeq(q, i + 1, Len(q))
  <1>1. /\ f \in Seq(S) /\ Len(f) = i - 1
        /\ \A k \in 1..(i - 1) : f[k] = q[k]
    <2>1. \A k \in 1..(i - 1) : q[k] \in S
      BY <1>len, <1>elt
    <2> QED  BY <1>len, <2>1, SubSeqProperties
  <1>2. /\ b \in Seq(S) /\ Len(b) = Len(q) - i
        /\ \A k \in 1..(Len(q) - i) : b[k] = q[i + k]
    <2>1. \A k \in (i + 1)..Len(q) : q[k] \in S
      BY <1>len, <1>elt
    <2> QED  BY <1>len, <2>1, SubSeqProperties
  <1>3. /\ f \o b \in Seq(S)
        /\ Len(f \o b) = Len(f) + Len(b)
        /\ \A k \in 1..(Len(f) + Len(b)) :
               (f \o b)[k] = IF k <= Len(f) THEN f[k] ELSE b[k - Len(f)]
    BY <1>1, <1>2, ConcatProperties
  <1>4. Without(q, i) = f \o b
    BY DEF Without
  <1> HIDE DEF f, b
  <1>5. Len(Without(q, i)) = Len(q) - 1
    <2>1. /\ Len(Without(q, i)) = Len(f) + Len(b)
          /\ Len(f) = i - 1 /\ Len(b) = Len(q) - i
      BY <1>1, <1>2, <1>3, <1>4
    <2> QED  BY <1>len, <2>1
  <1>6. ASSUME NEW k \in 1..(Len(q) - 1)
        PROVE  Without(q, i)[k] = IF k < i THEN q[k] ELSE q[k + 1]
    <2>1. CASE k < i
      BY <1>len, <1>1, <1>2, <1>3, <1>4, <2>1
    <2>2. CASE k >= i
      <3>1. k - (i - 1) \in 1..(Len(q) - i)
        BY <1>len, <2>2
      <3>2. b[k - (i - 1)] = q[k + 1]
        BY <1>len, <1>2, <3>1
      <3> QED  BY <1>len, <1>1, <1>2, <1>3, <1>4, <2>2, <3>2
    <2> QED  BY <1>len, <2>1, <2>2
  <1> QED
    BY <1>3, <1>4, <1>5, <1>6

\* Vec::insert: a waiter put in at i moves the ones from i on back by one.
LEMMA InsertedFacts ==
    ASSUME NEW q \in Seq(Waiter), NEW i \in 1..(Len(q) + 1), NEW w \in Waiter
    PROVE  /\ Inserted(q, i, w) \in Seq(Waiter)
           /\ Len(Inserted(q, i, w)) = Len(q) + 1
           /\ \A k \in 1..(Len(q) + 1) :
                  Inserted(q, i, w)[k] = IF k < i THEN q[k]
                                         ELSE IF k = i THEN w ELSE q[k - 1]
  <1>len. Len(q) \in Nat /\ i \in Nat /\ i >= 1 /\ i <= Len(q) + 1
    BY LenProperties
  <1>elt. \A k \in 1..Len(q) : q[k] \in Waiter
    BY ElementOfSeq
  <1> DEFINE f == SubSeq(q, 1, i - 1)
             m == f \o <<w>>
             b == SubSeq(q, i, Len(q))
  <1>1. /\ f \in Seq(Waiter) /\ Len(f) = i - 1
        /\ \A k \in 1..(i - 1) : f[k] = q[k]
    <2>1. \A k \in 1..(i - 1) : q[k] \in Waiter
      BY <1>len, <1>elt
    <2> QED  BY <1>len, <2>1, SubSeqProperties
  <1>2. /\ b \in Seq(Waiter) /\ Len(b) = Len(q) - i + 1
        /\ \A k \in 1..(Len(q) - i + 1) : b[k] = q[i + k - 1]
    <2>1. \A k \in i..Len(q) : q[k] \in Waiter
      BY <1>len, <1>elt
    <2> QED  BY <1>len, <2>1, SubSeqProperties
  <1>3. <<w>> \in Seq(Waiter) /\ Len(<<w>>) = 1 /\ <<w>>[1] = w
    OBVIOUS
  <1>4. /\ m \in Seq(Waiter)
        /\ Len(m) = Len(f) + 1
        /\ \A k \in 1..(Len(f) + 1) :
               m[k] = IF k <= Len(f) THEN f[k] ELSE <<w>>[k - Len(f)]
    BY <1>1, <1>3, ConcatProperties
  <1>5. /\ m \o b \in Seq(Waiter)
        /\ Len(m \o b) = Len(m) + Len(b)
        /\ \A k \in 1..(Len(m) + Len(b)) :
               (m \o b)[k] = IF k <= Len(m) THEN m[k] ELSE b[k - Len(m)]
    BY <1>2, <1>4, ConcatProperties
  <1>6. Inserted(q, i, w) = m \o b
    BY DEF Inserted
  <1> HIDE DEF f, m, b
  <1>7. ASSUME NEW k \in 1..(Len(f) + 1)
        PROVE  m[k] = IF k < i THEN q[k] ELSE w
    <2>0. k \in Nat /\ Len(f) = i - 1
      BY <1>len, <1>1
    <2>1. CASE k < i
      <3>1. k \in 1..(i - 1) /\ k <= Len(f) /\ k \in 1..Len(f)
        BY <1>len, <2>0, <2>1
      <3> QED  BY <1>1, <1>3, <1>4, <2>1, <3>1
    <2>2. CASE ~(k < i)
      <3>1. k = Len(f) + 1 /\ k = i
        BY <1>len, <2>0, <2>2
      <3> QED  BY <1>3, <1>4, <2>2, <3>1
    <2> QED  BY <2>1, <2>2
  <1> QED
    BY <1>len, <1>1, <1>2, <1>4, <1>5, <1>6, <1>7

\* A set of naturals that is not empty has a least element.
LEMMA SmallestOf ==
    ASSUME NEW S \in SUBSET Nat, S # {}
    PROVE  \E i \in S : \A j \in S : i <= j
  <1>1. PICK n \in S : TRUE
    OBVIOUS
  <1>2. PICK m \in S : \A y \in S : ~(<<y, m>> \in OpToRel(<, Nat))
    BY NatLessThanWellFounded, WFMin
  <1>3. ASSUME NEW j \in S  PROVE m <= j
    <2>1. <<j, m>> \in Nat \X Nat /\ ~(j < m)
      BY <1>2 DEF OpToRel
    <2> QED  BY <2>1
  <1> QED  BY <1>3

\* The slot queue_or_refuse picks for a newcomer is a place in the queue or
\* the one just behind it.
LEMMA SlotFacts ==
    ASSUME NEW q \in Seq(Waiter), NEW p \in Party
    PROVE  Slot(q, p) \in 1..(Len(q) + 1)
  <1> DEFINE lower == {i \in DOMAIN q : Priority[q[i].party] < Priority[p]}
  <1>1. Len(q) \in Nat /\ DOMAIN q = 1..Len(q)
    BY LenProperties
  <1>2. CASE lower = {}
    BY <1>1, <1>2 DEF Slot
  <1>3. CASE lower # {}
    <2>0. lower \in SUBSET Nat
      BY <1>1
    <2>1. \E i \in lower : \A j \in lower : i <= j
      BY <2>0, <1>3, SmallestOf
    <2>2. Slot(q, p) \in lower
      BY <1>3, <2>1 DEF Slot
    <2> QED  BY <1>1, <2>2
  <1> QED  BY <1>2, <1>3

\* The rank of an index among the kept ones grows by one at every kept index.
LEMMA RankFacts ==
    ASSUME NEW n \in Nat, NEW K \in SUBSET (1..n)
    PROVE  /\ IsFiniteSet(K) /\ Cardinality(K) \in Nat
           /\ Cardinality(K) <= n
           /\ \A i \in 0..n : RankIn(K, i) \in Nat
           /\ RankIn(K, 0) = 0
           /\ RankIn(K, n) = Cardinality(K)
           /\ \A i \in 1..n : RankIn(K, i) = IF i \in K THEN RankIn(K, i - 1) + 1
                                             ELSE RankIn(K, i - 1)
  <1>1. IsFiniteSet(1..n) /\ Cardinality(1..n) = n
    BY FS_Interval
  <1>2. IsFiniteSet(K) /\ Cardinality(K) <= n
    BY <1>1, FS_Subset
  <1>3. Cardinality(K) \in Nat
    BY <1>2, FS_CardinalityType
  <1>4. \A i \in 0..n : IsFiniteSet(K \cap 1..i)
    <2> TAKE i \in 0..n
    <2>1. (K \cap 1..i) \in SUBSET K
      OBVIOUS
    <2> QED  BY <1>2, <2>1, FS_Subset
  <1>5. \A i \in 0..n : RankIn(K, i) \in Nat
    BY <1>4, FS_CardinalityType DEF RankIn
  <1>6. RankIn(K, 0) = 0
    <2>1. K \cap 1..0 = {}
      OBVIOUS
    <2> QED  BY <2>1, FS_EmptySet DEF RankIn
  <1>7. RankIn(K, n) = Cardinality(K)
    <2>1. K \cap 1..n = K
      OBVIOUS
    <2> QED  BY <2>1 DEF RankIn
  <1>8. ASSUME NEW i \in 1..n
        PROVE  RankIn(K, i) = IF i \in K THEN RankIn(K, i - 1) + 1
                              ELSE RankIn(K, i - 1)
    <2>1. CASE i \in K
      <3>1. K \cap 1..i = (K \cap 1..(i - 1)) \cup {i}
        BY <2>1
      <3>2. i \notin K \cap 1..(i - 1)
        OBVIOUS
      <3>3. IsFiniteSet(K \cap 1..(i - 1))
        BY <1>4
      <3>4. Cardinality((K \cap 1..(i - 1)) \cup {i})
              = Cardinality(K \cap 1..(i - 1)) + 1
        BY <3>2, <3>3, FS_AddElement
      <3> QED  BY <2>1, <3>1, <3>4 DEF RankIn
    <2>2. CASE i \notin K
      <3>1. K \cap 1..i = K \cap 1..(i - 1)
        BY <2>2
      <3> QED  BY <2>2, <3>1 DEF RankIn
    <2> QED  BY <2>1, <2>2
  <1> QED
    BY <1>2, <1>3, <1>5, <1>6, <1>7, <1>8

\* Every rank up to the size of K is the rank of a member of K.
LEMMA RankReached ==
    ASSUME NEW n \in Nat, NEW K \in SUBSET (1..n), NEW k \in 1..Cardinality(K)
    PROVE  \E i \in K : RankIn(K, i) = k
  <1>1. Cardinality(K) \in Nat /\ k \in Nat /\ k >= 1 /\ k <= Cardinality(K)
    BY RankFacts
  <1> DEFINE S == {i \in 0..n : RankIn(K, i) >= k}
  <1>2. n \in S
    BY <1>1, RankFacts
  <1>3. S \in SUBSET Nat /\ S # {}
    BY <1>2
  <1>4. PICK i \in S : \A j \in S : i <= j
    BY <1>3, SmallestOf
  <1>5. i # 0
    BY <1>1, RankFacts
  <1>6. i \in 1..n /\ i - 1 \in 0..n /\ i - 1 \notin S
    BY <1>4, <1>5
  <1>7. RankIn(K, i - 1) \in Nat /\ RankIn(K, i - 1) < k
    <2>1. RankIn(K, i - 1) \in Nat
      BY <1>6, RankFacts
    <2> QED  BY <1>1, <1>6, <2>1
  <1>8. RankIn(K, i) = IF i \in K THEN RankIn(K, i - 1) + 1
                       ELSE RankIn(K, i - 1)
    BY <1>6, RankFacts
  <1> QED
    BY <1>1, <1>4, <1>7, <1>8

\* r is made of elements of q at indices in K, each used at most once.
Selection(q, K, r) ==
    \E pick \in [1..Cardinality(K) -> K] :
        /\ \A k \in 1..Cardinality(K) : r[k] = q[pick[k]]
        /\ \A j, k \in 1..Cardinality(K) : pick[j] = pick[k] => j = k

\* Retained keeps a duplicate-free selection of the elements of q.
LEMMA RetainedFacts ==
    ASSUME NEW S, NEW q \in Seq(S), NEW K \in SUBSET DOMAIN q
    PROVE  /\ Retained(q, K) \in Seq(S)
           /\ Len(Retained(q, K)) = Cardinality(K)
           /\ Cardinality(K) \in Nat
           /\ Cardinality(K) <= Len(q)
           /\ Cardinality(K) = 0 <=> K = {}
           /\ Selection(q, K, Retained(q, K))
  <1>1. Len(q) \in Nat /\ DOMAIN q = 1..Len(q)
    BY LenProperties
  <1>2. K \in SUBSET (1..Len(q))
    BY <1>1
  <1>3. /\ IsFiniteSet(K) /\ Cardinality(K) \in Nat
        /\ Cardinality(K) <= Len(q)
    BY <1>1, <1>2, RankFacts
  <1>4. Cardinality(K) = 0 <=> K = {}
    BY <1>3, FS_EmptySet
  <1> DEFINE pick == [k \in 1..Cardinality(K) |->
                        CHOOSE i \in K : RankIn(K, i) = k]
  <1>5. \A k \in 1..Cardinality(K) : pick[k] \in K /\ RankIn(K, pick[k]) = k
    <2> TAKE k \in 1..Cardinality(K)
    <2>1. \E i \in K : RankIn(K, i) = k
      BY <1>1, <1>2, RankReached
    <2> QED  BY <2>1
  <1>6. pick \in [1..Cardinality(K) -> K]
    BY <1>5
  <1>7. \A j, k \in 1..Cardinality(K) : pick[j] = pick[k] => j = k
    BY <1>5
  <1>8. \A k \in 1..Cardinality(K) : Retained(q, K)[k] = q[pick[k]]
    BY DEF Retained
  <1>9. \A k \in 1..Cardinality(K) : q[pick[k]] \in S
    BY <1>1, <1>2, <1>5, ElementOfSeq
  <1>10. Retained(q, K) = [k \in 1..Cardinality(K) |-> q[pick[k]]]
    BY DEF Retained
  <1> HIDE DEF pick
  <1>11. Retained(q, K) \in [1..Cardinality(K) -> S]
    BY <1>9, <1>10
  <1>12. Retained(q, K) \in Seq(S) /\ Len(Retained(q, K)) = Cardinality(K)
    BY <1>3, <1>11
  <1>13. Selection(q, K, Retained(q, K))
    BY <1>6, <1>7, <1>8 DEF Selection
  <1> QED
    BY <1>3, <1>4, <1>12, <1>13

\* A queue in which no party stands twice.
Distinct(q) ==
    \A i, j \in DOMAIN q : q[i].party = q[j].party => i = j

\* Whether two queues hold the same parties is a matter of these sets.
PartiesOf(q) == {q[i].party : i \in DOMAIN q}

\* Inserting a newcomer keeps a queue free of duplicates and adds only it.
LEMMA InsertedSeats ==
    ASSUME NEW q \in Seq(Waiter), Distinct(q), NEW s \in 1..(Len(q) + 1),
           NEW w \in Waiter, w.party \notin PartiesOf(q)
    PROVE  LET x == Inserted(q, s, w)
           IN  /\ x \in Seq(Waiter) /\ Len(x) = Len(q) + 1 /\ x # << >>
               /\ Distinct(x)
               /\ \A i \in DOMAIN x : x[i].party \in PartiesOf(q) \cup {w.party}
  <1> DEFINE x == Inserted(q, s, w)
  <1>1. Len(q) \in Nat /\ DOMAIN q = 1..Len(q)
    BY LenProperties
  <1>a. x \in Seq(Waiter)
    BY InsertedFacts
  <1>b. Len(x) = Len(q) + 1
    BY InsertedFacts
  <1>c. \A k \in 1..(Len(q) + 1) :
            x[k] = IF k < s THEN q[k] ELSE IF k = s THEN w ELSE q[k - 1]
    BY InsertedFacts
  <1>2. /\ x \in Seq(Waiter) /\ Len(x) = Len(q) + 1
        /\ \A k \in 1..(Len(q) + 1) :
               x[k] = IF k < s THEN q[k] ELSE IF k = s THEN w ELSE q[k - 1]
    BY <1>a, <1>b, <1>c
  <1> HIDE DEF x
  <1>3. DOMAIN x = 1..(Len(q) + 1) /\ x # << >>
    BY <1>1, <1>2, LenProperties, EmptySeq
  <1>4. \A i, j \in 1..Len(q) : q[i].party = q[j].party => i = j
    BY <1>1 DEF Distinct
  <1>5. \A i \in 1..Len(q) : q[i].party # w.party
    BY <1>1 DEF PartiesOf
  <1> DEFINE old(k) == IF k < s THEN k ELSE k - 1
  <1>6. \A k \in 1..(Len(q) + 1) :
            \/ k = s /\ x[k] = w
            \/ k # s /\ old(k) \in 1..Len(q) /\ x[k] = q[old(k)]
    BY <1>1, <1>2
  <1>7. \A j, k \in 1..(Len(q) + 1) :
            j # s /\ k # s /\ old(j) = old(k) => j = k
    BY <1>1
  <1> HIDE DEF old
  <1>8. Distinct(x)
    <2> SUFFICES ASSUME NEW j \in 1..(Len(q) + 1), NEW k \in 1..(Len(q) + 1),
                        x[j].party = x[k].party
                 PROVE  j = k
      BY <1>3 DEF Distinct
    <2>1. CASE j = s \/ k = s
      BY <1>5, <1>6, <2>1
    <2>2. CASE j # s /\ k # s
      BY <1>4, <1>6, <1>7, <2>2
    <2> QED  BY <2>1, <2>2
  <1>9. \A i \in DOMAIN x : x[i].party \in PartiesOf(q) \cup {w.party}
    BY <1>1, <1>3, <1>6 DEF PartiesOf
  <1> QED
    BY <1>2, <1>3, <1>8, <1>9 DEF x

\* Taking a waiter out keeps a queue free of duplicates, and it is gone.
LEMMA WithoutSeats ==
    ASSUME NEW q \in Seq(Waiter), Distinct(q), NEW s \in DOMAIN q
    PROVE  LET x == Without(q, s)
           IN  /\ x \in Seq(Waiter) /\ Len(x) = Len(q) - 1
               /\ Distinct(x)
               /\ \A i \in DOMAIN x : x[i].party \in PartiesOf(q) \ {q[s].party}
  <1> DEFINE x == Without(q, s)
  <1>1. Len(q) \in Nat /\ DOMAIN q = 1..Len(q)
    BY LenProperties
  <1>2. /\ x \in Seq(Waiter) /\ Len(x) = Len(q) - 1
        /\ \A k \in 1..(Len(q) - 1) : x[k] = IF k < s THEN q[k] ELSE q[k + 1]
    BY <1>1, WithoutFacts
  <1> HIDE DEF x
  <1>3. DOMAIN x = 1..(Len(q) - 1)
    BY <1>1, <1>2, LenProperties
  <1>4. \A i, j \in 1..Len(q) : q[i].party = q[j].party => i = j
    BY <1>1 DEF Distinct
  <1> DEFINE old(k) == IF k < s THEN k ELSE k + 1
  <1>6. \A k \in 1..(Len(q) - 1) :
            old(k) \in 1..Len(q) /\ old(k) # s /\ x[k] = q[old(k)]
    BY <1>1, <1>2
  <1>7. \A j, k \in 1..(Len(q) - 1) : old(j) = old(k) => j = k
    BY <1>1
  <1> HIDE DEF old
  <1>8. Distinct(x)
    BY <1>3, <1>4, <1>6, <1>7 DEF Distinct
  <1>9. \A i \in DOMAIN x : x[i].party \in PartiesOf(q) \ {q[s].party}
    BY <1>1, <1>3, <1>4, <1>6 DEF PartiesOf
  <1> QED
    BY <1>2, <1>3, <1>8, <1>9 DEF x

----------------------------------------------------------------------------
(* The lease operators keep a lease sound. *)

\* Lease::new returns a sound lease.
LEMMA NewLeaseSound ==
    Sound(NewLease, 0)
  BY PartyAssumption, PolicyAssumption, EmptySeq
  DEF Sound, NewLease, NoHolder, NoPending, LeaseRecord, HolderRecord, Waiter,
      PendingRecord, Phase, PhaseSound, SeatsSound, PreemptSound, ForceSound,
      ContentionSound, GraceSound

\* A sound lease stays sound as the clock moves on.
LEMMA SoundLater ==
    ASSUME NEW l, NEW t \in Nat, Sound(l, t), NEW u \in Nat, t <= u
    PROVE  Sound(l, u)
  BY DEF Sound, LeaseRecord, HolderRecord

\* A grant makes a sound lease out of one with no preemption and no backoff,
\* whose line does not hold the new holder.
LEMMA GrantSound ==
    ASSUME NEW l \in LeaseRecord, NEW p \in Party, NEW t \in Nat,
           l.pending.party = None, l.forceUntil = None,
           \A i, j \in DOMAIN l.queue :
               l.queue[i].party = l.queue[j].party => i = j,
           \A i \in DOMAIN l.queue : l.queue[i].party # p,
           Len(l.queue) <= MaxQueueDepth
    PROVE  /\ Sound(Grant(l, p, t), t)
           /\ Grant(l, p, t).phase = "HandingOver"
  <1> DEFINE g == Grant(l, p, t)
  <1>1. /\ g \in LeaseRecord
        /\ g.phase = "HandingOver" /\ g.queue = l.queue
        /\ g.pending.party = None /\ g.forceUntil = None
        /\ g.holder.party = p /\ g.holder.granted = t /\ g.holder.intent = t
        /\ g.holder.connected
        /\ g.contendedSince = IF l.queue = << >> THEN None ELSE t
    <2> DEFINE h == [party |-> p, id |-> l.nextId, granted |-> t, intent |-> t,
                     renew |-> t, connected |-> TRUE, grace |-> None]
               c == IF l.queue = << >> THEN None ELSE t
    <2>1. h \in HolderRecord /\ c \in Nat \cup {None} /\ l.nextId + 1 \in Nat
      BY DEF HolderRecord, LeaseRecord
    <2>2. h.party = p /\ h.granted = t /\ h.intent = t /\ h.connected
      OBVIOUS
    <2>3. g = [l EXCEPT !.holder = h, !.nextId = l.nextId + 1,
                        !.contendedSince = c, !.phase = "HandingOver"]
      BY DEF Grant
    <2> HIDE DEF h, g
    <2>4. g \in LeaseRecord
      BY <2>1, <2>3 DEF LeaseRecord, Phase
    <2>5. /\ g.phase = "HandingOver" /\ g.queue = l.queue
          /\ g.pending = l.pending /\ g.forceUntil = l.forceUntil
          /\ g.holder = h /\ g.contendedSince = c
      BY <2>3 DEF LeaseRecord
    <2> QED  BY <2>2, <2>4, <2>5
  <1> HIDE DEF g
  <1>2. \A i \in DOMAIN l.queue : l.queue[i] \in Waiter
    BY LenProperties, ElementOfSeq DEF LeaseRecord
  <1>3. SeatsSound(g)
    BY <1>1, <1>2, PartyAssumption DEF SeatsSound, Waiter
  <1> QED
    BY <1>1, <1>3, PartyAssumption
    DEF Sound, PhaseSound, PreemptSound, ForceSound, ContentionSound,
        GraceSound, g

\* The queue without its head.
LEMMA TailFacts ==
    ASSUME NEW l, NEW t \in Nat, Sound(l, t), l.queue # << >>
    PROVE  /\ Head(l.queue) \in Waiter
           /\ Head(l.queue) = l.queue[1]
           /\ Tail(l.queue) \in Seq(Waiter)
           /\ Len(Tail(l.queue)) <= MaxQueueDepth
           /\ \A i, j \in DOMAIN Tail(l.queue) :
                  Tail(l.queue)[i].party = Tail(l.queue)[j].party => i = j
           /\ \A i \in DOMAIN Tail(l.queue) :
                  Tail(l.queue)[i].party # Head(l.queue).party
  <1> DEFINE q == l.queue
  <1>1. q \in Seq(Waiter) /\ Len(q) \in Nat \ {0} /\ DOMAIN q = 1..Len(q)
        /\ Len(q) <= MaxQueueDepth
    BY EmptySeq, LenProperties DEF Sound, LeaseRecord, ContentionSound
  <1>2. /\ Head(q) \in Waiter /\ Tail(q) \in Seq(Waiter)
        /\ Len(Tail(q)) = Len(q) - 1
        /\ \A i \in 1..Len(Tail(q)) : Tail(q)[i] = q[i + 1]
    BY <1>1, HeadTailProperties
  <1>3. DOMAIN Tail(q) = 1..(Len(q) - 1)
    BY <1>2, LenProperties
  <1>4. Head(q) = q[1]
    BY <1>1
  <1>5. \A i, j \in 1..Len(q) : q[i].party = q[j].party => i = j
    BY <1>1 DEF Sound, SeatsSound
  <1> HIDE DEF q
  <1>6. \A i \in 1..(Len(q) - 1) : Tail(q)[i] = q[i + 1] /\ i + 1 \in 1..Len(q)
    BY <1>1, <1>2
  <1>7. \A i, j \in DOMAIN Tail(q) :
            Tail(q)[i].party = Tail(q)[j].party => i = j
    <2> SUFFICES ASSUME NEW i \in 1..(Len(q) - 1), NEW j \in 1..(Len(q) - 1),
                        q[i + 1].party = q[j + 1].party
                 PROVE  i = j
      BY <1>3, <1>6
    <2>1. i + 1 = j + 1
      BY <1>5, <1>6
    <2> QED  BY <1>1, <2>1
  <1>8. \A i \in DOMAIN Tail(q) : Tail(q)[i].party # Head(q).party
    <2> SUFFICES ASSUME NEW i \in 1..(Len(q) - 1), q[i + 1].party = q[1].party
                 PROVE  FALSE
      BY <1>3, <1>4, <1>6
    <2>1. 1 \in 1..Len(q)
      BY <1>1
    <2>2. i + 1 = 1
      BY <1>5, <1>6, <2>1
    <2> QED  BY <1>1, <2>2
  <1>9. Len(Tail(q)) <= MaxQueueDepth
    BY <1>1, <1>2, PolicyAssumption
  <1> QED
    BY <1>2, <1>4, <1>7, <1>8, <1>9 DEF q

\* Once the holder is gone somebody else waits for the sweep, or nobody
\* holds; the limb is owed a release either way.
LEMMA SettleSound ==
    ASSUME NEW l, NEW t \in Nat, Sound(l, t), l.phase # "Unheld"
    PROVE  /\ Sound(Settle(l, t).lease, t)
           /\ Settle(l, t).lease.phase \in {"HandingOver", "Unheld"}
           /\ Settle(l, t).release
  <1> DEFINE v == [l EXCEPT !.holder = NoHolder, !.pending = NoPending]
  <1>1. l \in LeaseRecord /\ l.forceUntil = None
    BY DEF Sound, ForceSound
  <1>2. NoHolder \in HolderRecord /\ NoPending \in PendingRecord
    BY DEF NoHolder, NoPending, HolderRecord, PendingRecord
  <1>3. /\ v \in LeaseRecord /\ v.queue = l.queue /\ v.pending = NoPending
        /\ v.pending.party = None /\ v.forceUntil = None /\ v.holder = NoHolder
        /\ v.contendedSince = l.contendedSince
    BY <1>1, <1>2 DEF LeaseRecord, NoPending
  <1>4. l.pending.party \in Party \cup {None}
    BY <1>1 DEF LeaseRecord, PendingRecord
  <1> HIDE DEF v
  <1>5. CASE l.pending.party # None
    <2>1. Settle(l, t) = Done(Grant(v, l.pending.party, t), "Granted", TRUE)
      BY <1>5 DEF Settle, v
    <2>2. \A i, j \in DOMAIN v.queue :
              v.queue[i].party = v.queue[j].party => i = j
      BY <1>3 DEF Sound, SeatsSound
    <2>3. \A i \in DOMAIN v.queue : v.queue[i].party # l.pending.party
      BY <1>3 DEF Sound, SeatsSound
    <2>4. Len(v.queue) <= MaxQueueDepth
      BY <1>3 DEF Sound, ContentionSound
    <2>5. /\ Sound(Grant(v, l.pending.party, t), t)
          /\ Grant(v, l.pending.party, t).phase = "HandingOver"
      BY <1>3, <1>4, <1>5, <2>2, <2>3, <2>4, GrantSound
    <2> QED  BY <2>1, <2>5 DEF Done
  <1>6. CASE l.pending.party = None /\ l.queue # << >>
    <2> DEFINE w == [v EXCEPT !.queue = Tail(l.queue)]
               p == Head(l.queue).party
    <2>1. Settle(l, t) = Done(Grant(w, p, t), "Granted", TRUE)
      BY <1>6 DEF Settle, v
    <2>2. /\ Head(l.queue) \in Waiter /\ Tail(l.queue) \in Seq(Waiter)
          /\ Len(Tail(l.queue)) <= MaxQueueDepth
          /\ \A i, j \in DOMAIN Tail(l.queue) :
                 Tail(l.queue)[i].party = Tail(l.queue)[j].party => i = j
          /\ \A i \in DOMAIN Tail(l.queue) : Tail(l.queue)[i].party # p
      BY <1>6, TailFacts
    <2>3. p \in Party
      BY <2>2 DEF Waiter
    <2>4. /\ w \in LeaseRecord /\ w.queue = Tail(l.queue)
          /\ w.pending.party = None /\ w.forceUntil = None
      BY <1>3, <2>2 DEF LeaseRecord
    <2> HIDE DEF w, p
    <2>a. /\ Len(w.queue) <= MaxQueueDepth
          /\ \A i, j \in DOMAIN w.queue :
                 w.queue[i].party = w.queue[j].party => i = j
          /\ \A i \in DOMAIN w.queue : w.queue[i].party # p
      BY <2>2, <2>4
    <2>5. Sound(Grant(w, p, t), t) /\ Grant(w, p, t).phase = "HandingOver"
      BY <2>3, <2>4, <2>a, GrantSound
    <2> QED  BY <2>1, <2>5 DEF Done
  <1>7. CASE l.pending.party = None /\ l.queue = << >>
    <2> DEFINE u == [v EXCEPT !.phase = "Unheld"]
    <2>1. Settle(l, t) = Done(u, "Unheld", TRUE)
      BY <1>7 DEF Settle, v
    <2>2. /\ u \in LeaseRecord /\ u.phase = "Unheld" /\ u.queue = << >>
          /\ u.pending = NoPending /\ u.forceUntil = None
          /\ u.holder = NoHolder /\ u.contendedSince = l.contendedSince
      BY <1>3, <1>7 DEF LeaseRecord, Phase
    <2>3. l.contendedSince = None /\ Len(l.queue) <= MaxQueueDepth
      BY <1>7 DEF Sound, ContentionSound
    <2> HIDE DEF u
    <2>4. SeatsSound(u)
      BY <2>2 DEF SeatsSound, NoPending
    <2>5. Sound(u, t)
      BY <1>7, <2>2, <2>3, <2>4, PartyAssumption
      DEF Sound, PhaseSound, PreemptSound, ForceSound, ContentionSound,
          GraceSound, NoPending, NoHolder
    <2> QED  BY <2>1, <2>2, <2>5 DEF Done
  <1> QED
    BY <1>5, <1>6, <1>7

\* A party that is in none of the three seats.
Stranger(l, p) ==
    /\ p # l.holder.party
    /\ p # l.pending.party
    /\ p \notin Waiting(l)

\* The three parts of a sound lease that the queue has a share in.
LEMMA SoundQueue ==
    ASSUME NEW l, NEW t \in Nat, Sound(l, t)
    PROVE  /\ l \in LeaseRecord /\ l.queue \in Seq(Waiter)
           /\ Distinct(l.queue) /\ PartiesOf(l.queue) = Waiting(l)
           /\ PartiesOf(l.queue) \cap {l.holder.party, l.pending.party} = {}
           /\ Len(l.queue) <= MaxQueueDepth
           /\ l.holder.party \in Party \cup {None}
           /\ l.pending.party \in Party \cup {None}
  <1>1. l \in LeaseRecord /\ l.queue \in Seq(Waiter) /\ l.holder \in HolderRecord
        /\ l.pending \in PendingRecord
    BY DEF Sound, LeaseRecord
  <1>2. l.holder.party \in Party \cup {None} /\ l.pending.party \in Party \cup {None}
    BY <1>1 DEF HolderRecord, PendingRecord
  <1> QED
    BY <1>1, <1>2
    DEF Sound, SeatsSound, ContentionSound, Distinct, PartiesOf, Waiting

\* A lease whose queue alone was replaced, by another of the same or fewer
\* strangers to the two seats, is sound as far as the seats go.
LEMMA RequeuedSound ==
    ASSUME NEW l, NEW t \in Nat, Sound(l, t), NEW m,
           m \in LeaseRecord, m.phase = l.phase, m.holder = l.holder,
           m.pending = l.pending, m.forceUntil \in {l.forceUntil, None},
           Distinct(m.queue),
           PartiesOf(m.queue) \cap {l.holder.party, l.pending.party} = {},
           Len(m.queue) <= MaxQueueDepth,
           m.contendedSince # None <=> m.queue # << >>,
           l.phase = "Unheld" => m.queue = << >>
    PROVE  Sound(m, t)
  <1>1. SeatsSound(m)
    BY DEF Sound, SeatsSound, Distinct, PartiesOf
  <1> QED
    BY <1>1
    DEF Sound, PhaseSound, PreemptSound, ForceSound, ContentionSound, GraceSound

\* Joining the line, or being turned away, disturbs nobody who is seated.
LEMMA QueueOrRefuseSound ==
    ASSUME NEW l, NEW t \in Nat, Sound(l, t), l.phase # "Unheld",
           NEW p \in Party, Stranger(l, p),
           NEW queue \in BOOLEAN, NEW error
    PROVE  LET r == QueueOrRefuse(l, p, queue, t, error)
           IN  /\ Sound(r.lease, t)
               /\ r.lease.phase = l.phase
               /\ r.lease.holder = l.holder
               /\ r.lease.pending = l.pending
               /\ r.lease.forceUntil = l.forceUntil
               /\ Waiting(r.lease) \subseteq
                      Waiting(l) \cup (IF queue THEN {p} ELSE {})
  <1> DEFINE w == [party |-> p, queued |-> t]
             q == Inserted(l.queue, Slot(l.queue, p), w)
             c == IF l.contendedSince = None THEN t ELSE l.contendedSince
             m == [l EXCEPT !.queue = q, !.contendedSince = c]
  <1>1. CASE ~queue \/ Len(l.queue) >= MaxQueueDepth
    <2>1. QueueOrRefuse(l, p, queue, t, error).lease = l
      BY <1>1 DEF QueueOrRefuse, Refused, Done
    <2> QED  BY <2>1
  <1>2. CASE queue /\ ~(Len(l.queue) >= MaxQueueDepth)
    <2>1. QueueOrRefuse(l, p, queue, t, error).lease = m
      BY <1>2 DEF QueueOrRefuse, Done
    <2>2. /\ l \in LeaseRecord /\ l.queue \in Seq(Waiter) /\ Distinct(l.queue)
          /\ PartiesOf(l.queue) = Waiting(l)
          /\ PartiesOf(l.queue) \cap {l.holder.party, l.pending.party} = {}
      BY SoundQueue
    <2>3. w \in Waiter /\ w.party = p /\ w.party \notin PartiesOf(l.queue)
      BY <2>2 DEF Waiter, Stranger
    <2>4. Slot(l.queue, p) \in 1..(Len(l.queue) + 1)
      BY <2>2, SlotFacts
    <2>5. /\ q \in Seq(Waiter) /\ Len(q) = Len(l.queue) + 1 /\ q # << >>
          /\ Distinct(q)
          /\ \A i \in DOMAIN q : q[i].party \in PartiesOf(l.queue) \cup {p}
      <3> HIDE DEF w
      <3> QED  BY <2>2, <2>3, <2>4, InsertedSeats
    <2>6. c \in Nat /\ c # None
      BY <2>2, PartyAssumption DEF LeaseRecord
    <2> HIDE DEF q, c
    <2>7. /\ m \in LeaseRecord /\ m.phase = l.phase /\ m.holder = l.holder
          /\ m.pending = l.pending /\ m.queue = q /\ m.contendedSince = c
          /\ m.forceUntil = l.forceUntil
      BY <2>2, <2>5, <2>6 DEF LeaseRecord
    <2> HIDE DEF m
    <2>8. PartiesOf(m.queue) \cap {l.holder.party, l.pending.party} = {}
      BY <2>2, <2>5, <2>7 DEF PartiesOf, Stranger
    <2>9. Len(m.queue) <= MaxQueueDepth
      <3>1. Len(l.queue) \in Nat
        BY <2>2, LenProperties
      <3> QED  BY <1>2, <2>5, <2>7, <3>1, PolicyAssumption
    <2>10. Sound(m, t)
      BY <2>5, <2>6, <2>7, <2>8, <2>9, RequeuedSound
    <2>11. Waiting(m) \subseteq Waiting(l) \cup {p}
      BY <2>2, <2>5, <2>7 DEF Waiting
    <2> QED  BY <1>2, <2>1, <2>7, <2>10, <2>11
  <1> QED  BY <1>1, <1>2

\* A lease whose holder was only heard from is as sound as it was.
LEMMA TouchedSound ==
    ASSUME NEW l, NEW t \in Nat, Sound(l, t),
           NEW h \in HolderRecord, h.party = l.holder.party,
           h.granted = l.holder.granted, h.connected = l.holder.connected,
           h.grace = l.holder.grace, h.granted <= h.intent
    PROVE  LET m == [l EXCEPT !.holder = h]
           IN  Sound(m, t) /\ m.phase = l.phase /\ m.holder.party = l.holder.party
  <1> DEFINE m == [l EXCEPT !.holder = h]
  <1>1. /\ m \in LeaseRecord /\ m.phase = l.phase /\ m.holder = h
        /\ m.pending = l.pending /\ m.queue = l.queue
        /\ m.forceUntil = l.forceUntil /\ m.contendedSince = l.contendedSince
    BY DEF Sound, LeaseRecord
  <1> HIDE DEF m
  <1>2. Sound(m, t)
    BY <1>1
    DEF Sound, PhaseSound, SeatsSound, PreemptSound, ForceSound,
        ContentionSound, GraceSound
  <1> QED  BY <1>1, <1>2 DEF m

\* Forgetting a backoff keeps a lease sound.
LEMMA ClearedSound ==
    ASSUME NEW l, NEW t \in Nat, Sound(l, t)
    PROVE  LET a == [l EXCEPT !.forceUntil = None]
           IN  /\ Sound(a, t) /\ a.phase = l.phase /\ a.holder = l.holder
               /\ a.pending = l.pending /\ a.queue = l.queue
               /\ a.forceUntil = None
  <1> DEFINE a == [l EXCEPT !.forceUntil = None]
  <1>1. /\ a \in LeaseRecord /\ a.phase = l.phase /\ a.holder = l.holder
        /\ a.pending = l.pending /\ a.queue = l.queue /\ a.forceUntil = None
        /\ a.contendedSince = l.contendedSince
    BY DEF Sound, LeaseRecord
  <1> HIDE DEF a
  <1>2. Sound(a, t)
    BY <1>1
    DEF Sound, PhaseSound, SeatsSound, PreemptSound, ForceSound,
        ContentionSound, GraceSound
  <1> QED  BY <1>1, <1>2 DEF a

\* The phases in which the holder has the limb to itself.
Driving(l) == l.phase \in {"Held", "HeldGrace", "PreemptPending"}

\* What a caller may count on from every call but confirm_release: the lease
\* it gets back is sound; nobody has come to drive who did not drive before;
\* and a handover that was not under way before the call owes the sweep.
Orderly(l, r, t) ==
    /\ Sound(r.lease, t)
    /\ Driving(r.lease) => Driving(l) /\ r.lease.holder.party = l.holder.party
    /\ r.release \in BOOLEAN
    /\ r.lease.phase = "HandingOver" => r.release \/ l.phase = "HandingOver"

\* Settling a lease is orderly.
LEMMA SettleOrderly ==
    ASSUME NEW l, NEW k, NEW t \in Nat, Sound(l, t), l.phase # "Unheld"
    PROVE  Orderly(k, Settle(l, t), t)
  <1>1. Settle(l, t).release = TRUE
    BY DEF Settle, Done
  <1> QED
    BY <1>1, SettleSound DEF Orderly, Driving

\* Taking the wheel from a holder that is away.
LEMMA TakeOverOrderly ==
    ASSUME NEW l, NEW t \in Nat, Sound(l, t), l.phase # "Unheld",
           NEW p \in Party, Stranger(l, p)
    PROVE  Orderly(l, TakeOver(l, p, t), t)
  <1> DEFINE v == [l EXCEPT !.holder = NoHolder, !.pending = NoPending]
  <1>1. l \in LeaseRecord /\ l.forceUntil = None /\ Len(l.queue) <= MaxQueueDepth
    BY DEF Sound, ForceSound, ContentionSound
  <1>2. NoHolder \in HolderRecord /\ NoPending \in PendingRecord
    BY DEF NoHolder, NoPending, HolderRecord, PendingRecord
  <1>3. /\ v \in LeaseRecord /\ v.queue = l.queue
        /\ v.pending.party = None /\ v.forceUntil = None
    BY <1>1, <1>2 DEF LeaseRecord, NoPending
  <1> HIDE DEF v
  <1>4. /\ \A i, j \in DOMAIN v.queue :
               v.queue[i].party = v.queue[j].party => i = j
        /\ \A i \in DOMAIN v.queue : v.queue[i].party # p
        /\ Len(v.queue) <= MaxQueueDepth
    BY <1>1, <1>3 DEF Sound, SeatsSound, Stranger, Waiting
  <1>5. Sound(Grant(v, p, t), t) /\ Grant(v, p, t).phase = "HandingOver"
    BY <1>3, <1>4, GrantSound
  <1>6. TakeOver(l, p, t) = Done(Grant(v, p, t), "Granted", TRUE)
    BY DEF TakeOver, v
  <1> QED  BY <1>5, <1>6 DEF Done, Orderly, Driving

\* Starting a preemption keeps a lease sound when the newcomer outranks the
\* holder and the floor under the grant is past or lifted.
LEMMA PreemptStartSound ==
    ASSUME NEW l, NEW t \in Nat, Sound(l, t),
           l.phase \in {"Held", "HeldGrace"},
           NEW p \in Party, Stranger(l, p),
           Priority[p] > Priority[l.holder.party],
           FloorLifted(p, l.holder.party) \/ Since(t, l.holder.granted) >= MinHold
    PROVE  LET m == [l EXCEPT !.pending = [party |-> p,
                                           deadline |-> t + PreemptGrace],
                              !.phase = "PreemptPending"]
           IN  /\ Sound(m, t) /\ m.phase = "PreemptPending"
               /\ m.holder = l.holder
  <1> DEFINE n == [party |-> p, deadline |-> t + PreemptGrace]
             m == [l EXCEPT !.pending = n, !.phase = "PreemptPending"]
  <1>1. n \in PendingRecord /\ n.party = p /\ n.deadline = t + PreemptGrace
    BY PolicyAssumption DEF PendingRecord
  <1>2. l \in LeaseRecord /\ l.holder \in HolderRecord
    BY DEF Sound, LeaseRecord
  <1> HIDE DEF n
  <1>3. /\ m \in LeaseRecord /\ m.phase = "PreemptPending"
        /\ m.holder = l.holder /\ m.pending = n /\ m.queue = l.queue
        /\ m.forceUntil = l.forceUntil /\ m.contendedSince = l.contendedSince
    BY <1>1, <1>2 DEF LeaseRecord, Phase
  <1> HIDE DEF m
  <1>4. l.holder.party # None /\ l.forceUntil = None
    BY DEF Sound, PhaseSound, ForceSound
  <1>5. SeatsSound(m)
    <2>1. \A i \in DOMAIN l.queue : l.queue[i].party # p
      BY DEF Stranger, Waiting
    <2> QED
      BY <1>1, <1>3, <2>1 DEF Sound, SeatsSound, Stranger
  <1>6. PreemptSound(m)
    <2>1. l.holder.granted \in Nat /\ l.holder.granted <= t
      BY <1>2 DEF Sound, HolderRecord
    <2>2. \/ FloorLifted(p, l.holder.party)
          \/ t + PreemptGrace >= l.holder.granted + MinHold + PreemptGrace
      BY <2>1, PolicyAssumption DEF Since
    <2> QED  BY <1>1, <1>3, <2>2 DEF PreemptSound
  <1>7. PhaseSound(m)
    BY <1>1, <1>3, <1>4, PartyAssumption DEF PhaseSound
  <1>8. Sound(m, t)
    BY <1>3, <1>4, <1>5, <1>6, <1>7
    DEF Sound, ForceSound, ContentionSound, GraceSound
  <1> QED  BY <1>3, <1>8 DEF m, n

\* Arbitrating between a stranger and the holder.
LEMMA ContestOrderly ==
    ASSUME NEW l, NEW t \in Nat, Sound(l, t), l.phase # "Unheld",
           NEW p \in Party, Stranger(l, p), NEW queue \in BOOLEAN
    PROVE  Orderly(l, Contest(l, p, queue, t), t)
  <1>0. l \in LeaseRecord /\ l.phase \in Phase /\ l.holder \in HolderRecord
        /\ l.holder.party \in Party
        /\ Priority[p] \in Nat /\ Priority[l.holder.party] \in Nat
    <2>1. l \in LeaseRecord /\ l.holder \in HolderRecord /\ l.phase \in Phase
      BY DEF Sound, LeaseRecord
    <2>2. l.holder.party \in Party
      BY <2>1 DEF Sound, PhaseSound, HolderRecord
    <2> QED  BY <2>1, <2>2, PartyAssumption
  <1>n. l.holder.party # None
    BY <1>0, PartyAssumption
  <1>q. ASSUME NEW error
        PROVE  Orderly(l, QueueOrRefuse(l, p, queue, t, error), t)
    <2>1. LET r == QueueOrRefuse(l, p, queue, t, error)
          IN  /\ Sound(r.lease, t) /\ r.lease.phase = l.phase
              /\ r.lease.holder = l.holder
      BY QueueOrRefuseSound
    <2>2. QueueOrRefuse(l, p, queue, t, error).release = FALSE
      BY DEF QueueOrRefuse, Refused, Done
    <2> QED  BY <2>1, <2>2 DEF Orderly, Driving
  <1>1. CASE \/ Priority[p] <= Priority[l.holder.party]
             \/ l.phase \in {"PreemptPending", "HandingOver"}
    <2>a. ~(/\ Priority[p] > Priority[l.holder.party]
            /\ l.phase \notin {"PreemptPending", "HandingOver"})
      BY <1>0, <1>1
    <2>1. Contest(l, p, queue, t) = QueueOrRefuse(l, p, queue, t, "Held")
      BY <1>n, <1>1, <2>a, Zenon DEF Contest
    <2> QED  BY <1>q, <2>1
  <1>2. CASE /\ Priority[p] > Priority[l.holder.party]
             /\ l.phase \notin {"PreemptPending", "HandingOver"}
             /\ ~FloorLifted(p, l.holder.party)
             /\ Since(t, l.holder.granted) < MinHold
    <2>1. Contest(l, p, queue, t)
            = QueueOrRefuse(l, p, queue, t, "MinHoldNotElapsed")
      BY <1>0, <1>n, <1>2 DEF Contest
    <2> QED  BY <1>q, <2>1
  <1>3. CASE /\ Priority[p] > Priority[l.holder.party]
             /\ l.phase \notin {"PreemptPending", "HandingOver"}
             /\ \/ FloorLifted(p, l.holder.party)
                \/ ~(Since(t, l.holder.granted) < MinHold)
    <2> DEFINE m == [l EXCEPT !.pending = [party |-> p,
                                           deadline |-> t + PreemptGrace],
                              !.phase = "PreemptPending"]
    <2>a. ~(\/ Priority[p] <= Priority[l.holder.party]
            \/ l.phase \in {"PreemptPending", "HandingOver"})
      BY <1>0, <1>3
    <2>1. Contest(l, p, queue, t)
            = IF ~l.holder.connected THEN TakeOver(l, p, t)
              ELSE Done(m, "PreemptionStarted", TRUE)
      BY <1>n, <1>3, <2>a, Zenon DEF Contest
    <2>2. CASE ~l.holder.connected
      BY <2>1, <2>2, TakeOverOrderly
    <2>3. CASE l.holder.connected
      <3>1. l.phase \in {"Held", "HeldGrace"}
        BY <1>0, <1>3 DEF Phase
      <3>2. \/ FloorLifted(p, l.holder.party)
            \/ Since(t, l.holder.granted) >= MinHold
        <4>1. Since(t, l.holder.granted) \in Int /\ MinHold \in Int
          BY <1>0, PolicyAssumption DEF HolderRecord, Since
        <4> QED  BY <1>3, <4>1
      <3>3. Sound(m, t) /\ m.phase = "PreemptPending" /\ m.holder = l.holder
        BY <1>3, <3>1, <3>2, PreemptStartSound
      <3> HIDE DEF m
      <3>4. Contest(l, p, queue, t) = Done(m, "PreemptionStarted", TRUE)
        BY <2>1, <2>3
      <3> QED  BY <3>1, <3>3, <3>4 DEF Done, Orderly, Driving
    <2> QED  BY <2>2, <2>3
  <1> QED
    BY <1>0, <1>1, <1>2, <1>3

\* Noting that a holder is alive, or that it used the limb.
LEMMA RenewSound ==
    ASSUME NEW l, NEW t \in Nat, Sound(l, t), NEW p \in Party
    PROVE  /\ Sound(Renew(l, p, t), t)
           /\ Renew(l, p, t).phase = l.phase
           /\ Renew(l, p, t).holder.party = l.holder.party
  <1> DEFINE h == [l.holder EXCEPT !.renew = t]
  <1>1. l.holder \in HolderRecord /\ l \in LeaseRecord
    BY DEF Sound, LeaseRecord
  <1>2. /\ h \in HolderRecord /\ h.party = l.holder.party
        /\ h.granted = l.holder.granted /\ h.connected = l.holder.connected
        /\ h.grace = l.holder.grace /\ h.granted <= h.intent
    BY <1>1 DEF HolderRecord, Sound
  <1>3. [l EXCEPT !.holder.renew = t] = [l EXCEPT !.holder = h]
    BY <1>1 DEF LeaseRecord
  <1> HIDE DEF h
  <1> QED
    BY <1>2, <1>3, TouchedSound DEF Renew

\* The same for the use of the limb.
LEMMA NoteIntentSound ==
    ASSUME NEW l, NEW t \in Nat, Sound(l, t), NEW p \in Party
    PROVE  /\ Sound(NoteIntent(l, p, t), t)
           /\ NoteIntent(l, p, t).phase = l.phase
           /\ NoteIntent(l, p, t).holder.party = l.holder.party
  <1> DEFINE h == [l.holder EXCEPT !.intent = t]
  <1>1. l.holder \in HolderRecord /\ l \in LeaseRecord
    BY DEF Sound, LeaseRecord
  <1>2. /\ h \in HolderRecord /\ h.party = l.holder.party
        /\ h.granted = l.holder.granted /\ h.connected = l.holder.connected
        /\ h.grace = l.holder.grace /\ h.granted <= h.intent
    BY <1>1 DEF HolderRecord, Sound
  <1>3. [l EXCEPT !.holder.intent = t] = [l EXCEPT !.holder = h]
    BY <1>1 DEF LeaseRecord
  <1> HIDE DEF h
  <1> QED
    BY <1>2, <1>3, TouchedSound DEF NoteIntent

\* The place of a waiter is a place in the queue.
LEMMA PositionFacts ==
    ASSUME NEW l, NEW p \in Waiting(l)
    PROVE  /\ Position(l, p) \in DOMAIN l.queue
           /\ l.queue[Position(l, p)].party = p
  BY DEF Position, Waiting

\* Asking again from the line renews the request and moves nobody.
LEMMA RefreshSound ==
    ASSUME NEW l, NEW t \in Nat, Sound(l, t), NEW i \in DOMAIN l.queue
    PROVE  LET m == [l EXCEPT !.queue[i].queued = t]
           IN  /\ Sound(m, t) /\ m.phase = l.phase /\ m.holder = l.holder
               /\ m.pending = l.pending /\ m.forceUntil = l.forceUntil
               /\ Waiting(m) = Waiting(l)
  <1> DEFINE w == [l.queue[i] EXCEPT !.queued = t]
             q == [l.queue EXCEPT ![i] = w]
             m == [l EXCEPT !.queue = q]
  <1>1. /\ l \in LeaseRecord /\ l.queue \in Seq(Waiter) /\ Distinct(l.queue)
        /\ PartiesOf(l.queue) \cap {l.holder.party, l.pending.party} = {}
        /\ Len(l.queue) <= MaxQueueDepth
    BY SoundQueue
  <1>2. /\ Len(l.queue) \in Nat /\ DOMAIN l.queue = 1..Len(l.queue)
        /\ l.queue[i] \in Waiter
    BY <1>1, LenProperties, ElementOfSeq
  <1>3. w \in Waiter /\ w.party = l.queue[i].party
    BY <1>2 DEF Waiter
  <1>4. [l EXCEPT !.queue[i].queued = t] = m
    BY <1>1 DEF LeaseRecord
  <1> HIDE DEF w
  <1>5. /\ q \in Seq(Waiter) /\ Len(q) = Len(l.queue)
        /\ \A j \in 1..Len(l.queue) : q[j] = IF j = i THEN w ELSE l.queue[j]
    BY <1>1, <1>2, <1>3, ExceptSeq
  <1> HIDE DEF q
  <1>6. DOMAIN q = DOMAIN l.queue /\ \A j \in DOMAIN q : q[j].party = l.queue[j].party
    BY <1>2, <1>3, <1>5, LenProperties
  <1>7. Distinct(q) /\ PartiesOf(q) = PartiesOf(l.queue)
    BY <1>1, <1>6 DEF Distinct, PartiesOf
  <1>8. q # << >> /\ l.queue # << >>
    BY <1>1, <1>2, <1>5, EmptySeq
  <1>9. /\ m \in LeaseRecord /\ m.phase = l.phase /\ m.holder = l.holder
        /\ m.pending = l.pending /\ m.queue = q /\ m.forceUntil = l.forceUntil
        /\ m.contendedSince = l.contendedSince
    BY <1>1, <1>5 DEF LeaseRecord
  <1> HIDE DEF m
  <1>10. l.contendedSince # None /\ l.phase # "Unheld"
    BY <1>8 DEF Sound, ContentionSound, PhaseSound
  <1>11. Sound(m, t)
    BY <1>1, <1>5, <1>7, <1>8, <1>9, <1>10, RequeuedSound
  <1>12. Waiting(m) = Waiting(l)
    BY <1>7, <1>9 DEF Waiting, PartiesOf
  <1> QED  BY <1>4, <1>9, <1>11, <1>12

\* Asking for the wheel is orderly, whoever asks and whatever the answer.
LEMMA AcquireOrderly ==
    ASSUME NEW l, NEW t \in Nat, Sound(l, t), NEW p \in Party,
           NEW queue \in BOOLEAN
    PROVE  Orderly(l, Acquire(l, p, queue, t), t)
  <1> DEFINE a == [l EXCEPT !.forceUntil = None]
             r == Acquire(l, p, queue, t)
  <1>1. /\ Sound(a, t) /\ a.phase = l.phase /\ a.holder = l.holder
        /\ a.pending = l.pending /\ a.queue = l.queue /\ a.forceUntil = None
    BY ClearedSound
  <1>2. CASE l.forceUntil # None /\ t < l.forceUntil
    <2>1. r = Done(l, "ForceReleased", FALSE)
      BY <1>2 DEF Acquire, Refused
    <2> QED  BY <2>1 DEF Done, Orderly, Driving
  <1>3. CASE ~(l.forceUntil # None /\ t < l.forceUntil)
    <2>1. CASE l.holder.party = p
      <3>1. r = Done(Renew(a, p, t), "Renewed", FALSE)
        BY <1>1, <1>3, <2>1 DEF Acquire, Renew
      <3> HIDE DEF a, r
      <3>2. /\ Sound(Renew(a, p, t), t) /\ Renew(a, p, t).phase = l.phase
            /\ Renew(a, p, t).holder.party = l.holder.party
        BY <1>1, RenewSound
      <3> QED  BY <3>1, <3>2 DEF Done, Orderly, Driving, r
    <2>2. CASE l.holder.party # p /\ l.pending.party = p
      <3>1. r = Done(a, "PreemptionStarted", FALSE)
        BY <1>3, <2>2 DEF Acquire
      <3> HIDE DEF a, r
      <3> QED  BY <1>1, <3>1 DEF Done, Orderly, Driving, r
    <2>3. CASE l.holder.party # p /\ l.pending.party # p /\ p \in Waiting(l)
      <3> DEFINE m == [a EXCEPT !.queue[Position(l, p)].queued = t]
      <3>1. r = Done(m, "Queued", FALSE)
        BY <1>3, <2>3 DEF Acquire
      <3>2. Position(l, p) \in DOMAIN a.queue
        BY <1>1, <2>3, PositionFacts
      <3> HIDE DEF a, r
      <3>3. Sound(m, t) /\ m.phase = l.phase /\ m.holder = l.holder
        BY <1>1, <3>2, RefreshSound
      <3> HIDE DEF m
      <3> QED  BY <3>1, <3>3 DEF Done, Orderly, Driving, r
    <2>4. CASE Stranger(l, p) /\ l.phase = "Unheld"
      <3>1. r = Done(Grant(a, p, t), "Granted", TRUE)
        BY <1>3, <2>4 DEF Acquire, Stranger
      <3> HIDE DEF a, r
      <3>2. /\ a \in LeaseRecord /\ a.pending.party = None
            /\ a.queue = << >> /\ Len(a.queue) <= MaxQueueDepth
        BY <1>1, <2>4 DEF Sound, PhaseSound, ContentionSound
      <3>3. Sound(Grant(a, p, t), t) /\ Grant(a, p, t).phase = "HandingOver"
        BY <1>1, <3>2, GrantSound
      <3> QED  BY <3>1, <3>3 DEF Done, Orderly, Driving, r
    <2>5. CASE Stranger(l, p) /\ l.phase # "Unheld"
      <3>1. r = Contest(a, p, queue, t)
        BY <1>3, <2>5 DEF Acquire, Stranger
      <3>2. Stranger(a, p)
        BY <1>1, <2>5 DEF Stranger, Waiting
      <3> HIDE DEF a, r
      <3>3. Orderly(a, Contest(a, p, queue, t), t)
        BY <1>1, <2>5, <3>2, ContestOrderly
      <3> QED  BY <1>1, <3>1, <3>3 DEF Orderly, Driving, r
    <2> QED  BY <2>1, <2>2, <2>3, <2>4, <2>5 DEF Stranger
  <1> QED  BY <1>2, <1>3

\* Letting go hands the wheel on; a release that is not the holder's own, or
\* carries the id of an earlier grant, is ignored.
LEMMA ReleaseOrderly ==
    ASSUME NEW l, NEW t \in Nat, Sound(l, t), NEW p \in Party, NEW id
    PROVE  Orderly(l, Release(l, p, id, t), t)
  <1>1. CASE l.holder.party = p /\ l.holder.id = id
    <2>1. l.phase # "Unheld"
      BY <1>1, PartyAssumption DEF Sound, PhaseSound
    <2> QED  BY <1>1, <2>1, SettleOrderly DEF Release
  <1>2. CASE ~(l.holder.party = p /\ l.holder.id = id)
    BY <1>2 DEF Release, Done, Orderly, Driving
  <1> QED  BY <1>1, <1>2

\* Moving a waiter to the head of the line keeps everyone's one seat.
LEMMA PromoteOrderly ==
    ASSUME NEW l, NEW t \in Nat, Sound(l, t), NEW p \in Party
    PROVE  LET m == Promote(l, p)
           IN  /\ Orderly(l, Done(m, "Unchanged", FALSE), t)
               /\ m.phase = l.phase /\ m.holder = l.holder
               /\ m.pending = l.pending /\ m.forceUntil = l.forceUntil
               /\ Waiting(m) \subseteq Waiting(l)
  <1>1. CASE p \notin Waiting(l)
    BY <1>1 DEF Promote, Done, Orderly, Driving
  <1>2. CASE p \in Waiting(l)
    <2> DEFINE i == Position(l, p)
               o == Without(l.queue, i)
               w == l.queue[i]
               q == Inserted(o, 1, w)
               m == [l EXCEPT !.queue = q]
    <2>1. /\ l \in LeaseRecord /\ l.queue \in Seq(Waiter) /\ Distinct(l.queue)
          /\ PartiesOf(l.queue) \cap {l.holder.party, l.pending.party} = {}
          /\ Len(l.queue) <= MaxQueueDepth
      BY SoundQueue
    <2>2. i \in DOMAIN l.queue /\ w.party = p
      BY <1>2, PositionFacts
    <2>3. /\ Len(l.queue) \in Nat /\ DOMAIN l.queue = 1..Len(l.queue)
          /\ w \in Waiter /\ l.queue # << >>
      BY <2>1, <2>2, LenProperties, ElementOfSeq, EmptySeq
    <2>4. Promote(l, p) = m
      BY <1>2 DEF Promote
    <2> HIDE DEF i
    <2>5. /\ o \in Seq(Waiter) /\ Len(o) = Len(l.queue) - 1 /\ Distinct(o)
          /\ \A j \in DOMAIN o : o[j].party \in PartiesOf(l.queue) \ {w.party}
      BY <2>1, <2>2, WithoutSeats
    <2> HIDE DEF o, w
    <2>6. /\ w.party \notin PartiesOf(o) /\ PartiesOf(o) \subseteq PartiesOf(l.queue)
          /\ 1 \in 1..(Len(o) + 1)
      BY <2>3, <2>5 DEF PartiesOf
    <2>7. /\ q \in Seq(Waiter) /\ Len(q) = Len(o) + 1 /\ q # << >> /\ Distinct(q)
          /\ \A j \in DOMAIN q : q[j].party \in PartiesOf(o) \cup {w.party}
      BY <2>3, <2>5, <2>6, InsertedSeats
    <2> HIDE DEF q
    <2>8. w.party \in PartiesOf(l.queue)
      BY <2>2 DEF PartiesOf, w
    <2>9. PartiesOf(q) \subseteq PartiesOf(l.queue)
      BY <2>6, <2>7, <2>8 DEF PartiesOf
    <2>10. /\ m \in LeaseRecord /\ m.phase = l.phase /\ m.holder = l.holder
           /\ m.pending = l.pending /\ m.queue = q
           /\ m.forceUntil = l.forceUntil
           /\ m.contendedSince = l.contendedSince
      BY <2>1, <2>7 DEF LeaseRecord
    <2> HIDE DEF m
    <2>11. l.contendedSince # None /\ l.phase # "Unheld"
      BY <2>3 DEF Sound, ContentionSound, PhaseSound
    <2>12. Len(q) <= MaxQueueDepth
      BY <2>1, <2>3, <2>5, <2>7
    <2>13. Sound(m, t)
      BY <2>1, <2>7, <2>9, <2>10, <2>11, <2>12, RequeuedSound
    <2>14. Waiting(m) \subseteq Waiting(l)
      BY <2>9, <2>10 DEF Waiting, PartiesOf
    <2> QED  BY <2>4, <2>10, <2>13, <2>14 DEF Done, Orderly, Driving
  <1> QED  BY <1>1, <1>2

\* Withdrawing gives up a place in line, or calls a preemption off and leaves
\* the wheel where it was.
LEMMA CancelWaitOrderly ==
    ASSUME NEW l, NEW t \in Nat, Sound(l, t), NEW p \in Party
    PROVE  LET m == CancelWait(l, p).lease
           IN  /\ Orderly(l, CancelWait(l, p), t)
               /\ m.holder = l.holder /\ m.forceUntil = l.forceUntil
               /\ Waiting(m) \subseteq Waiting(l)
               /\ l.pending.party # p => m.phase = l.phase /\ m.pending = l.pending
               /\ l.pending.party = p =>
                      /\ m.pending.party = None
                      /\ m.phase = IF l.holder.connected THEN "Held"
                                   ELSE "HeldGrace"
  <1>0. /\ l \in LeaseRecord /\ l.queue \in Seq(Waiter) /\ Distinct(l.queue)
        /\ PartiesOf(l.queue) \cap {l.holder.party, l.pending.party} = {}
        /\ Len(l.queue) <= MaxQueueDepth
    BY SoundQueue
  <1>1. CASE l.pending.party = p
    <2> DEFINE f == IF l.holder.connected THEN "Held" ELSE "HeldGrace"
               m == [l EXCEPT !.pending = NoPending, !.phase = f]
    <2>1. CancelWait(l, p) = Done(m, "PreemptionAbandoned", TRUE)
      BY <1>1 DEF CancelWait
    <2>2. l.phase = "PreemptPending" /\ l.holder.party # None /\ l.forceUntil = None
      BY <1>1, PartyAssumption DEF Sound, PhaseSound, ForceSound
    <2>3. /\ f \in {"Held", "HeldGrace"} /\ f \in Phase
          /\ f = "HeldGrace" => ~l.holder.connected
      BY DEF Phase
    <2>4. NoPending \in PendingRecord /\ NoPending.party = None
      BY DEF NoPending, PendingRecord
    <2>8. f = IF l.holder.connected THEN "Held" ELSE "HeldGrace"
      OBVIOUS
    <2> HIDE DEF f
    <2>5. /\ m \in LeaseRecord /\ m.phase = f /\ m.holder = l.holder
          /\ m.pending = NoPending /\ m.queue = l.queue
          /\ m.forceUntil = l.forceUntil
          /\ m.contendedSince = l.contendedSince
      BY <1>0, <2>3, <2>4 DEF LeaseRecord
    <2> HIDE DEF m
    <2>6. SeatsSound(m)
      <3>1. \A i \in DOMAIN l.queue : l.queue[i].party # None
        <4>1. \A i \in DOMAIN l.queue : l.queue[i] \in Waiter
          BY <1>0, LenProperties, ElementOfSeq
        <4> QED  BY <4>1, PartyAssumption DEF Waiter
      <3> QED  BY <2>4, <2>5, <3>1 DEF Sound, SeatsSound
    <2>7. Sound(m, t)
      BY <2>2, <2>3, <2>4, <2>5, <2>6
      DEF Sound, PhaseSound, PreemptSound, ForceSound, ContentionSound,
          GraceSound
    <2>9. Orderly(l, CancelWait(l, p), t) /\ CancelWait(l, p).lease = m
      BY <2>1, <2>2, <2>3, <2>5, <2>7 DEF Done, Orderly, Driving
    <2>10. Waiting(m) = Waiting(l)
      BY <2>5 DEF Waiting
    <2> QED  BY <1>1, <2>4, <2>5, <2>8, <2>9, <2>10
  <1>2. CASE l.pending.party # p /\ p \in Waiting(l)
    <2> DEFINE i == Position(l, p)
               q == Without(l.queue, i)
               c == IF q = << >> THEN None ELSE l.contendedSince
               m == [l EXCEPT !.queue = q, !.contendedSince = c]
    <2>1. CancelWait(l, p) = Done(m, "WaitCancelled", FALSE)
      BY <1>2 DEF CancelWait
    <2>2. i \in DOMAIN l.queue
      BY <1>2, PositionFacts
    <2>3. /\ Len(l.queue) \in Nat /\ l.queue # << >>
      BY <1>0, <2>2, LenProperties, EmptySeq
    <2> HIDE DEF i
    <2>4. /\ q \in Seq(Waiter) /\ Len(q) = Len(l.queue) - 1 /\ Distinct(q)
          /\ \A j \in DOMAIN q :
                 q[j].party \in PartiesOf(l.queue) \ {l.queue[i].party}
      BY <1>0, <2>2, WithoutSeats
    <2> HIDE DEF q
    <2>5. PartiesOf(q) \subseteq PartiesOf(l.queue)
      BY <2>4 DEF PartiesOf
    <2>6. l.contendedSince # None /\ l.phase # "Unheld"
      BY <2>3 DEF Sound, ContentionSound, PhaseSound
    <2>7. c \in Nat \cup {None} /\ (c # None <=> q # << >>)
      BY <1>0, <2>6 DEF LeaseRecord
    <2> HIDE DEF c
    <2>8. /\ m \in LeaseRecord /\ m.phase = l.phase /\ m.holder = l.holder
          /\ m.pending = l.pending /\ m.queue = q
          /\ m.forceUntil = l.forceUntil /\ m.contendedSince = c
      BY <1>0, <2>4, <2>7 DEF LeaseRecord
    <2> HIDE DEF m
    <2>9. Len(q) <= MaxQueueDepth
      BY <1>0, <2>3, <2>4, PolicyAssumption
    <2>10. Sound(m, t)
      BY <1>0, <2>4, <2>5, <2>6, <2>7, <2>8, <2>9, RequeuedSound
    <2>11. Orderly(l, CancelWait(l, p), t) /\ CancelWait(l, p).lease = m
      BY <2>1, <2>8, <2>10 DEF Done, Orderly, Driving
    <2>12. Waiting(m) \subseteq Waiting(l)
      BY <2>5, <2>8 DEF Waiting, PartiesOf
    <2> QED  BY <1>2, <2>8, <2>11, <2>12
  <1>3. CASE l.pending.party # p /\ p \notin Waiting(l)
    BY <1>3 DEF CancelWait, Done, Orderly, Driving
  <1> QED  BY <1>1, <1>2, <1>3

\* The panic chord leaves an unheld lease and its backoff.
LEMMA ForceReleaseOrderly ==
    ASSUME NEW l, NEW t \in Nat, Sound(l, t)
    PROVE  Orderly(l, ForceRelease(l, t), t)
  <1> DEFINE m == [l EXCEPT !.holder = NoHolder, !.pending = NoPending,
                            !.queue = << >>, !.contendedSince = None,
                            !.phase = "Unheld", !.forceUntil = t + ForceBackoff]
  <1>1. NoHolder \in HolderRecord /\ NoPending \in PendingRecord
        /\ t + ForceBackoff \in Nat /\ << >> \in Seq(Waiter) /\ Len(<< >>) = 0
    BY EmptySeq, PolicyAssumption
    DEF NoHolder, NoPending, HolderRecord, PendingRecord
  <1>2. /\ m \in LeaseRecord /\ m.holder = NoHolder /\ m.pending = NoPending
        /\ m.queue = << >> /\ m.contendedSince = None /\ m.phase = "Unheld"
    BY <1>1 DEF Sound, LeaseRecord, Phase
  <1>3. ForceRelease(l, t) = Done(m, "Unheld", TRUE)
    BY DEF ForceRelease
  <1> HIDE DEF m
  <1>4. Sound(m, t)
    BY <1>1, <1>2, PolicyAssumption
    DEF Sound, PhaseSound, SeatsSound, PreemptSound, ForceSound,
        ContentionSound, GraceSound, NoHolder, NoPending
  <1> QED  BY <1>2, <1>3, <1>4 DEF Done, Orderly, Driving

\* Confirming the sweep completes a handover and changes nothing else.
LEMMA ConfirmReleaseSound ==
    ASSUME NEW l, NEW t \in Nat, Sound(l, t)
    PROVE  LET m == ConfirmRelease(l, t).lease
           IN  Sound(m, t) /\ m.phase # "HandingOver"
  <1>1. CASE l.phase # "HandingOver"
    BY <1>1 DEF ConfirmRelease, Done
  <1>2. CASE l.phase = "HandingOver"
    <2> DEFINE h == [l.holder EXCEPT !.intent = t, !.renew = t]
               m == [l EXCEPT !.phase = "Held", !.holder = h]
    <2>1. l \in LeaseRecord /\ l.holder \in HolderRecord /\ l.holder.party # None
      BY <1>2 DEF Sound, LeaseRecord, PhaseSound
    <2>2. ConfirmRelease(l, t).lease = m
      BY <1>2, <2>1 DEF ConfirmRelease, Done, LeaseRecord
    <2>3. /\ h \in HolderRecord /\ h.party = l.holder.party
          /\ h.granted = l.holder.granted /\ h.connected = l.holder.connected
          /\ h.grace = l.holder.grace /\ h.intent = t
      BY <2>1 DEF HolderRecord
    <2> HIDE DEF h
    <2>4. /\ m \in LeaseRecord /\ m.phase = "Held" /\ m.holder = h
          /\ m.pending = l.pending /\ m.queue = l.queue
          /\ m.forceUntil = l.forceUntil
          /\ m.contendedSince = l.contendedSince
      BY <2>1, <2>3 DEF LeaseRecord, Phase
    <2> HIDE DEF m
    <2>5. Sound(m, t)
      BY <1>2, <2>1, <2>3, <2>4
      DEF Sound, PhaseSound, SeatsSound, PreemptSound, ForceSound,
          ContentionSound, GraceSound
    <2> QED  BY <2>2, <2>4, <2>5
  <1> QED  BY <1>1, <1>2

\* A transport that drops or comes back moves a holder between holding and
\* its grace, and nobody else.
LEMMA SetConnectedOrderly ==
    ASSUME NEW l, NEW t \in Nat, Sound(l, t), NEW p \in Party,
           NEW c \in BOOLEAN
    PROVE  Orderly(l, SetConnected(l, p, c, t), t)
  <1>1. CASE l.holder.party # p \/ l.holder.connected = c
    BY <1>1 DEF SetConnected, Done, Orderly, Driving
  <1>2. CASE ~(l.holder.party # p \/ l.holder.connected = c)
    <2> DEFINE g == IF c THEN None ELSE t + DisconnectGrace
               f == CASE l.phase = "Held" /\ ~c -> "HeldGrace"
                      [] l.phase = "HeldGrace" /\ c -> "Held"
                      [] OTHER -> l.phase
               h == [l.holder EXCEPT !.connected = c, !.grace = g]
               m == [l EXCEPT !.holder = h, !.phase = f]
    <2>1. l \in LeaseRecord /\ l.holder \in HolderRecord /\ l.phase \in Phase
          /\ l.holder.party # None /\ l.phase # "Unheld" /\ l.forceUntil = None
      BY <1>2, PartyAssumption DEF Sound, LeaseRecord, PhaseSound, ForceSound
    <2>2. g \in Nat \cup {None} /\ (~c => g # None)
      BY PolicyAssumption, PartyAssumption
    <2>3. /\ f \in Phase /\ (f = "HeldGrace" => ~c)
          /\ f = "PreemptPending" <=> l.phase = "PreemptPending"
          /\ f = "HandingOver" <=> l.phase = "HandingOver"
          /\ f # "Unheld"
      BY <2>1 DEF Phase
    <2>4. SetConnected(l, p, c, t) = Done(m, "Unchanged", TRUE)
      BY <1>2, <2>1 DEF SetConnected, LeaseRecord
    <2> HIDE DEF f, g
    <2>5. /\ h \in HolderRecord /\ h.party = l.holder.party
          /\ h.granted = l.holder.granted /\ h.connected = c /\ h.grace = g
          /\ h.intent = l.holder.intent
      BY <2>1, <2>2 DEF HolderRecord
    <2> HIDE DEF h
    <2>6. /\ m \in LeaseRecord /\ m.phase = f /\ m.holder = h
          /\ m.pending = l.pending /\ m.queue = l.queue
          /\ m.forceUntil = l.forceUntil
          /\ m.contendedSince = l.contendedSince
      BY <2>1, <2>3, <2>5 DEF LeaseRecord
    <2> HIDE DEF m
    <2>7. Sound(m, t)
      BY <2>1, <2>2, <2>3, <2>5, <2>6
      DEF Sound, PhaseSound, SeatsSound, PreemptSound, ForceSound,
          ContentionSound, GraceSound
    <2> QED
      BY <2>1, <2>3, <2>4, <2>5, <2>6, <2>7 DEF Done, Orderly, Driving, Phase
  <1> QED  BY <1>1, <1>2

\* A lease whose line is cut down to K, and whose backoff is f.
Swept(l, K, f) ==
    [l EXCEPT !.forceUntil = f, !.queue = Retained(l.queue, K),
              !.contendedSince = IF K = {} THEN None ELSE l.contendedSince]

\* Dropping the waiters that stopped asking, and a backoff that is over.
LEMMA SweptSound ==
    ASSUME NEW l, NEW t \in Nat, Sound(l, t),
           NEW K \in SUBSET DOMAIN l.queue, NEW f \in {l.forceUntil, None}
    PROVE  /\ Sound(Swept(l, K, f), t)
           /\ Swept(l, K, f).phase = l.phase
           /\ Swept(l, K, f).holder = l.holder
           /\ Swept(l, K, f).pending = l.pending
           /\ Swept(l, K, f).nextId = l.nextId
           /\ Swept(l, K, f).forceUntil = f
           /\ Swept(l, K, f).contendedSince \in {l.contendedSince, None}
           /\ Waiting(Swept(l, K, f)) \subseteq {l.queue[i].party : i \in K}
  <1> DEFINE q == Retained(l.queue, K)
             c == IF K = {} THEN None ELSE l.contendedSince
             m == [l EXCEPT !.forceUntil = f, !.queue = q, !.contendedSince = c]
  <1>1. /\ l \in LeaseRecord /\ l.queue \in Seq(Waiter) /\ Distinct(l.queue)
        /\ PartiesOf(l.queue) \cap {l.holder.party, l.pending.party} = {}
        /\ Len(l.queue) <= MaxQueueDepth
    BY SoundQueue
  <1>2. /\ q \in Seq(Waiter) /\ Len(q) = Cardinality(K) /\ Cardinality(K) \in Nat
        /\ Cardinality(K) <= Len(l.queue) /\ (Cardinality(K) = 0 <=> K = {})
        /\ Selection(l.queue, K, q)
    BY <1>1, RetainedFacts
  <1>3. PICK pick \in [1..Cardinality(K) -> K] :
            /\ \A k \in 1..Cardinality(K) : q[k] = l.queue[pick[k]]
            /\ \A j, k \in 1..Cardinality(K) : pick[j] = pick[k] => j = k
    BY <1>2 DEF Selection
  <1> HIDE DEF q
  <1>4. DOMAIN q = 1..Cardinality(K)
    BY <1>2, LenProperties
  <1>5. Distinct(q)
    BY <1>1, <1>3, <1>4 DEF Distinct
  <1>6. PartiesOf(q) \subseteq PartiesOf(l.queue)
    BY <1>3, <1>4 DEF PartiesOf
  <1>7. q = << >> <=> K = {}
    BY <1>2, EmptySeq
  <1>8. K # {} => l.queue # << >>
    BY <1>1, LenProperties, EmptySeq
  <1>9. /\ c \in Nat \cup {None} /\ (c # None <=> q # << >>)
        /\ l.phase = "Unheld" => q = << >>
    BY <1>1, <1>7, <1>8 DEF LeaseRecord, Sound, ContentionSound, PhaseSound
  <1>10. Len(q) <= MaxQueueDepth
    <2>1. Len(l.queue) \in Nat
      BY <1>1, LenProperties
    <2> QED  BY <1>1, <1>2, <2>1, PolicyAssumption
  <1>14. c \in {l.contendedSince, None}
    OBVIOUS
  <1> HIDE DEF c
  <1>11. /\ m \in LeaseRecord /\ m.phase = l.phase /\ m.holder = l.holder
         /\ m.pending = l.pending /\ m.queue = q /\ m.nextId = l.nextId
         /\ m.forceUntil = f /\ m.contendedSince = c
    BY <1>1, <1>2, <1>9 DEF LeaseRecord
  <1> HIDE DEF m
  <1>15. Waiting(m) \subseteq {l.queue[i].party : i \in K}
    BY <1>3, <1>4, <1>11 DEF Waiting
  <1>12. Sound(m, t)
    BY <1>1, <1>5, <1>6, <1>9, <1>10, <1>11, RequeuedSound
  <1>13. m = Swept(l, K, f)
    BY DEF m, q, c, Swept
  <1> QED  BY <1>11, <1>12, <1>13, <1>14, <1>15

\* The lease as tick has it before it looks at the holder.
SweptAt(l, t) ==
    Swept(l, FreshIndices(l.queue, t),
          IF l.forceUntil # None /\ t >= l.forceUntil THEN None
          ELSE l.forceUntil)

\* What tick does, and what its sweep leaves alone.
LEMMA TickFacts ==
    ASSUME NEW l, NEW t \in Nat, Sound(l, t)
    PROVE  /\ Tick(l, t) = IF HolderDue(SweptAt(l, t), t)
                           THEN Settle(SweptAt(l, t), t)
                           ELSE Done(SweptAt(l, t), "Unchanged", FALSE)
           /\ Sound(SweptAt(l, t), t)
           /\ SweptAt(l, t).phase = l.phase
           /\ SweptAt(l, t).holder = l.holder
           /\ SweptAt(l, t).pending = l.pending
           /\ SweptAt(l, t).nextId = l.nextId
           /\ SweptAt(l, t).forceUntil \in {l.forceUntil, None}
           /\ SweptAt(l, t).contendedSince \in {l.contendedSince, None}
           /\ Waiting(SweptAt(l, t)) \subseteq Waiting(l)
  <1> DEFINE K == FreshIndices(l.queue, t)
             f == IF l.forceUntil # None /\ t >= l.forceUntil THEN None
                  ELSE l.forceUntil
  <1>1. Tick(l, t) = IF HolderDue(SweptAt(l, t), t)
                     THEN Settle(SweptAt(l, t), t)
                     ELSE Done(SweptAt(l, t), "Unchanged", FALSE)
    BY DEF Tick, Swept, SweptAt
  <1>2. K \in SUBSET DOMAIN l.queue /\ f \in {l.forceUntil, None}
    BY DEF FreshIndices
  <1>3. SweptAt(l, t) = Swept(l, K, f)
    BY DEF SweptAt
  <1> HIDE DEF K, f
  <1>4. {l.queue[i].party : i \in K} \subseteq Waiting(l)
    BY <1>2 DEF Waiting
  <1>5. /\ Sound(Swept(l, K, f), t)
        /\ Swept(l, K, f).phase = l.phase
        /\ Swept(l, K, f).holder = l.holder
        /\ Swept(l, K, f).pending = l.pending
        /\ Swept(l, K, f).nextId = l.nextId
        /\ Swept(l, K, f).forceUntil = f
        /\ Swept(l, K, f).contendedSince \in {l.contendedSince, None}
        /\ Waiting(Swept(l, K, f)) \subseteq {l.queue[i].party : i \in K}
    BY <1>2, SweptSound
  <1> QED  BY <1>1, <1>2, <1>3, <1>4, <1>5

\* The clock is orderly: it takes the wheel through Settle or not at all.
LEMMA TickOrderly ==
    ASSUME NEW l, NEW t \in Nat, Sound(l, t)
    PROVE  Orderly(l, Tick(l, t), t)
  <1> DEFINE m == SweptAt(l, t)
  <1>1. /\ Tick(l, t) = IF HolderDue(m, t) THEN Settle(m, t)
                        ELSE Done(m, "Unchanged", FALSE)
        /\ Sound(m, t) /\ m.phase = l.phase /\ m.holder = l.holder
    BY TickFacts
  <1> HIDE DEF m
  <1>2. CASE HolderDue(m, t)
    <2>1. m.phase # "Unheld"
      BY <1>2 DEF HolderDue
    <2> QED  BY <1>1, <1>2, <2>1, SettleOrderly
  <1>3. CASE ~HolderDue(m, t)
    BY <1>1, <1>3 DEF Done, Orderly, Driving
  <1> QED  BY <1>2, <1>3

----------------------------------------------------------------------------
(* When the clock takes the wheel. *)

\* The deadline of a contended holder, if there is one, is an instant, no
\* sooner than the floor; a sweep can only do away with it.
LEMMA ContendedFacts ==
    ASSUME NEW l, NEW t \in Nat, Sound(l, t), l.holder.party # None
    PROVE  /\ ContendedDeadline(l) # None =>
                  /\ ContendedDeadline(l) \in Nat
                  /\ ContendedDeadline(l) >= l.holder.granted + MinHold
           /\ ContendedDeadline(SweptAt(l, t)) \in
                  {ContendedDeadline(l), None}
  <1>1. /\ l.holder.intent \in Nat /\ l.holder.granted \in Nat
        /\ l.contendedSince \in Nat \cup {None}
    BY DEF Sound, LeaseRecord, HolderRecord
  <1>2. MinHold \in Nat /\ ContendedIdle \in Nat
    BY PolicyAssumption
  <1>3. ContendedDeadline(l) # None =>
            /\ ContendedDeadline(l) \in Nat
            /\ ContendedDeadline(l) >= l.holder.granted + MinHold
    BY <1>1, <1>2 DEF ContendedDeadline, Latest
  <1> DEFINE m == SweptAt(l, t)
  <1>4. /\ m.holder = l.holder /\ m.contendedSince \in {l.contendedSince, None}
    BY TickFacts
  <1> HIDE DEF m
  <1>5. l.contendedSince # None => l.queue # << >>
    BY DEF Sound, ContentionSound
  <1>6. ContendedDeadline(m) \in {ContendedDeadline(l), None}
    BY <1>4, <1>5 DEF ContendedDeadline
  <1> QED  BY <1>3, <1>6 DEF m

\* The forecast: what status counts down to is no later than the instant at
\* which tick finds the holder due.
LEMMA ForecastFacts ==
    ASSUME NEW l, NEW t \in Nat, Sound(l, t),
           ChangesAt(l) = None \/ t < ChangesAt(l)
    PROVE  ~HolderDue(SweptAt(l, t), t)
  <1> DEFINE m == SweptAt(l, t)
  <1>1. m.phase = l.phase /\ m.holder = l.holder /\ m.pending = l.pending
    BY TickFacts
  <1>2. /\ l.holder.party # None =>
               ContendedDeadline(m) \in {ContendedDeadline(l), None}
        /\ l.holder.party # None /\ ContendedDeadline(l) # None =>
               ContendedDeadline(l) \in Nat
    BY ContendedFacts
  <1> SUFFICES ~HolderDue(m, t)
    OBVIOUS
  <1> HIDE DEF m
  <1>3. /\ l.holder.intent \in Nat /\ l.holder.renew \in Nat
        /\ l.holder.grace \in Nat \cup {None} /\ l.pending.deadline \in Nat
        /\ l.phase \in Phase
    BY DEF Sound, LeaseRecord, HolderRecord, PendingRecord
  <1>4. CASE l.phase = "PreemptPending"
    BY <1>1, <1>3, <1>4, PartyAssumption DEF HolderDue, ChangesAt
  <1>5. CASE l.phase = "HeldGrace"
    <2>1. l.holder.party # None /\ l.holder.grace # None
      BY <1>5 DEF Sound, PhaseSound, GraceSound
    <2> QED  BY <1>1, <1>3, <1>5, <2>1 DEF HolderDue, ChangesAt
  <1>6. CASE l.phase = "Held"
    <2> DEFINE expiry == LastActivity(l.holder) + LeaseTtl
               idle == l.holder.intent + IdleLimit(l.holder)
               by == {expiry, idle} \cup ({ContendedDeadline(l)} \ {None})
    <2>1. l.holder.party # None
      BY <1>6 DEF Sound, PhaseSound
    <2>2. /\ LastActivity(l.holder) \in Nat /\ LeaseTtl \in Nat \ {0}
          /\ IdleLimit(l.holder) \in Nat \ {0}
      BY <1>3, PolicyAssumption DEF LastActivity, Latest, IdleLimit
    <2>3. by \in SUBSET Nat /\ by # {}
      BY <1>2, <1>3, <2>1, <2>2
    <2>4. ChangesAt(l) = CHOOSE x \in by : \A y \in by : x <= y
      BY <1>6, <2>1 DEF ChangesAt
    <2> HIDE DEF by
    <2>5. ChangesAt(l) \in by /\ \A y \in by : ChangesAt(l) <= y
      BY <2>3, <2>4, SmallestOf
    <2>6. ChangesAt(l) \in Nat /\ t < ChangesAt(l)
      BY <2>3, <2>5, PartyAssumption
    <2>7. \A y \in by : t < y
      BY <2>3, <2>5, <2>6
    <2>8. /\ t < expiry /\ t < idle
          /\ ContendedDeadline(l) # None => t < ContendedDeadline(l)
      BY <2>7 DEF by
    <2>9. /\ ~(Since(t, LastActivity(l.holder)) >= LeaseTtl)
          /\ ~(Since(t, l.holder.intent) >= IdleLimit(l.holder))
      BY <1>3, <2>2, <2>8 DEF Since
    <2>10. ~(ContendedDeadline(m) # None /\ t >= ContendedDeadline(m))
      BY <1>2, <2>1, <2>8
    <2> QED  BY <1>1, <1>6, <2>9, <2>10 DEF HolderDue
  <1>7. CASE l.phase \in {"Unheld", "HandingOver"}
    BY <1>1, <1>7 DEF HolderDue
  <1> QED  BY <1>3, <1>4, <1>5, <1>6, <1>7 DEF Phase

\* The floor: a connected holder the clock finds due has had the wheel for
\* MinHold, or loses it to the person whose preemption has run out.
LEMMA DueFacts ==
    ASSUME NEW l, NEW t \in Nat, Sound(l, t), l.holder.connected,
           HolderDue(SweptAt(l, t), t)
    PROVE  /\ l.holder.party # None
           /\ \/ t >= l.holder.granted + MinHold
              \/ /\ l.pending.party # None
                 /\ FloorLifted(l.pending.party, l.holder.party)
  <1> DEFINE m == SweptAt(l, t)
  <1>1. m.phase = l.phase /\ m.holder = l.holder /\ m.pending = l.pending
    BY TickFacts
  <1>2. /\ l.holder.party # None =>
               ContendedDeadline(m) \in {ContendedDeadline(l), None}
        /\ l.holder.party # None /\ ContendedDeadline(l) # None =>
               /\ ContendedDeadline(l) \in Nat
               /\ ContendedDeadline(l) >= l.holder.granted + MinHold
    BY ContendedFacts
  <1>3. HolderDue(m, t)
    OBVIOUS
  <1> HIDE DEF m
  <1>4. /\ l.holder.intent \in Nat /\ l.holder.renew \in Nat
        /\ l.holder.granted \in Nat /\ l.holder.granted <= l.holder.intent
        /\ l.pending.deadline \in Nat
        /\ l.phase \in Phase
    BY DEF Sound, LeaseRecord, HolderRecord, PendingRecord
  <1>5. /\ MinHold \in Nat /\ PreemptGrace \in Nat /\ LeaseTtl \in Nat
        /\ MinHold <= LeaseTtl
        /\ IdleLimit(l.holder) \in Nat /\ MinHold <= IdleLimit(l.holder)
    BY PolicyAssumption, FloorAssumption DEF IdleLimit
  <1>6. l.phase # "Unheld" => l.holder.party # None
    BY DEF Sound, PhaseSound
  <1>7. CASE l.phase = "PreemptPending"
    <2>1. /\ l.pending.party # None
          /\ \/ FloorLifted(l.pending.party, l.holder.party)
             \/ l.pending.deadline >= l.holder.granted + MinHold + PreemptGrace
      BY <1>7 DEF Sound, PhaseSound, PreemptSound
    <2>2. t >= l.pending.deadline
      BY <1>1, <1>3, <1>7 DEF HolderDue
    <2> QED  BY <1>4, <1>5, <1>6, <1>7, <2>1, <2>2
  <1>8. CASE l.phase = "HeldGrace"
    BY <1>8 DEF Sound, GraceSound
  <1>9. CASE l.phase = "Held"
    <2>1. /\ LastActivity(l.holder) \in Nat
          /\ LastActivity(l.holder) >= l.holder.intent
      BY <1>4 DEF LastActivity, Latest
    <2>2. \/ Since(t, LastActivity(l.holder)) >= LeaseTtl
          \/ Since(t, l.holder.intent) >= IdleLimit(l.holder)
          \/ ContendedDeadline(m) # None /\ t >= ContendedDeadline(m)
      BY <1>1, <1>3, <1>9 DEF HolderDue
    <2>3. CASE Since(t, LastActivity(l.holder)) >= LeaseTtl
      BY <1>4, <1>5, <1>6, <1>9, <2>1, <2>3, PolicyAssumption DEF Since
    <2>4. CASE Since(t, l.holder.intent) >= IdleLimit(l.holder)
      <3>1. IdleLimit(l.holder) # 0
        BY PolicyAssumption DEF IdleLimit
      <3> QED  BY <1>4, <1>5, <1>6, <1>9, <2>4, <3>1 DEF Since
    <2>5. CASE ContendedDeadline(m) # None /\ t >= ContendedDeadline(m)
      BY <1>2, <1>4, <1>5, <1>6, <1>9, <2>5
    <2> QED  BY <2>2, <2>3, <2>4, <2>5
  <1>10. CASE l.phase \in {"Unheld", "HandingOver"}
    BY <1>1, <1>3, <1>10 DEF HolderDue
  <1> QED  BY <1>4, <1>7, <1>8, <1>9, <1>10 DEF Phase

-----------------------------------------------------------------------------
(* One lease, its callers and the limb. *)

\* Only the party that drives can have input down while it drives.
LimbAgrees == Driving(lease) => pressed \subseteq {lease.holder.party}

Inv ==
    /\ Sound(lease, now)
    /\ now \in Nat
    /\ owed \in BOOLEAN
    /\ pressed \subseteq Party
    /\ LimbAgrees
    /\ HandoverIsOwed

\* A lease that has just been made, with nothing down on the limb.
LEMMA InitInv == Init => Inv
  <1> SUFFICES ASSUME Init  PROVE Inv
    OBVIOUS
  <1>1. Sound(lease, now) /\ now \in Nat
    BY NewLeaseSound DEF Init
  <1>2. lease.phase = "Unheld"
    BY DEF Init, NewLease
  <1> QED
    BY <1>1, <1>2 DEF Init, Inv, LimbAgrees, HandoverIsOwed, Driving

\* Whatever orderly answer the caller takes, the invariant holds after it.
LEMMA TakeInv ==
    ASSUME Inv, NEW r, Orderly(lease, r, now), Take(r)
    PROVE  Inv'
  <1>1. /\ lease' = r.lease /\ owed' = (owed \/ r.release)
        /\ now' = now /\ pressed' = pressed
    BY DEF Take
  <1>2. Sound(lease', now') /\ now' \in Nat /\ owed' \in BOOLEAN
        /\ pressed' \subseteq Party
    BY <1>1 DEF Inv, Orderly
  <1>3. LimbAgrees'
    BY <1>1 DEF Inv, Orderly, LimbAgrees, Driving
  <1>4. HandoverIsOwed'
    BY <1>1 DEF Inv, Orderly, HandoverIsOwed
  <1> QED
    BY <1>2, <1>3, <1>4 DEF Inv

\* Every step of the lease, of its callers and of the limb keeps it.
LEMMA StepInv == Inv /\ [Next]_vars => Inv'
  <1> SUFFICES ASSUME Inv, [Next]_vars  PROVE Inv'
    OBVIOUS
  <1>0. Sound(lease, now) /\ now \in Nat
    BY DEF Inv
  <1>1. CASE Advance
    <2>1. Sound(lease, now + 1)
      BY <1>0, now <= now + 1, SoundLater
    <2> QED  BY <1>1, <2>1 DEF Advance, Ticking, Inv, LimbAgrees, HandoverIsOwed, Driving
  <1>2. CASE \E p \in Party, queue \in BOOLEAN : Ask(p, queue)
    <2>1. PICK p \in Party, queue \in BOOLEAN : Ask(p, queue)
      BY <1>2
    <2> QED  BY <1>0, <2>1, AcquireOrderly, TakeInv DEF Ask
  <1>3. CASE \E p \in Party, id \in 1..MaxId : LetGo(p, id)
    <2>1. PICK p \in Party, id \in 1..MaxId : LetGo(p, id)
      BY <1>3
    <2> QED  BY <1>0, <2>1, ReleaseOrderly, TakeInv DEF LetGo
  <1>4. CASE \E p \in Party : PutFirst(p)
    <2>1. PICK p \in Party : PutFirst(p)
      BY <1>4
    <2> QED  BY <1>0, <2>1, PromoteOrderly, TakeInv DEF PutFirst
  <1>5. CASE \E p \in Party : Withdraw(p)
    <2>1. PICK p \in Party : Withdraw(p)
      BY <1>5
    <2> QED  BY <1>0, <2>1, CancelWaitOrderly, TakeInv DEF Withdraw
  <1>6. CASE Panic
    BY <1>0, <1>6, ForceReleaseOrderly, TakeInv DEF Panic
  <1>7. CASE \E p \in Party, c \in BOOLEAN : Transport(p, c)
    <2>1. PICK p \in Party, c \in BOOLEAN : Transport(p, c)
      BY <1>7
    <2> QED  BY <1>0, <2>1, SetConnectedOrderly, TakeInv DEF Transport
  <1>8. CASE \E p \in Party : KeepAlive(p)
    <2>1. PICK p \in Party : KeepAlive(p)
      BY <1>8
    <2>2. /\ Sound(Renew(lease, p, now), now)
          /\ Renew(lease, p, now).phase = lease.phase
          /\ Renew(lease, p, now).holder.party = lease.holder.party
      BY <1>0, RenewSound
    <2>3. Orderly(lease, Done(Renew(lease, p, now), "Unchanged", FALSE), now)
      BY <2>2 DEF Orderly, Driving, Done
    <2> QED  BY <2>1, <2>3, TakeInv DEF KeepAlive
  <1>9. CASE Clock
    BY <1>0, <1>9, TickOrderly, TakeInv DEF Clock
  <1>10. CASE \E p \in Party : Press(p)
    <2>1. PICK p \in Party : Press(p)
      BY <1>10
    <2>2. /\ Sound(lease', now) /\ lease'.phase = lease.phase
          /\ lease'.holder.party = lease.holder.party
      BY <1>0, <2>1, NoteIntentSound DEF Press
    <2>3. /\ now' = now /\ owed' = owed /\ pressed' = pressed \cup {p}
          /\ lease.holder.party = p /\ lease.phase = "Held"
      BY <2>1 DEF Press, MayDispatch
    <2> QED  BY <2>2, <2>3 DEF Inv, LimbAgrees, HandoverIsOwed, Driving
  <1>11. CASE \E p \in Party : LiftOwn(p)
    BY <1>11 DEF LiftOwn, Inv, LimbAgrees, HandoverIsOwed, Driving
  <1>12. CASE Honour
    <2>1. Sound(lease', now) /\ lease'.phase # "HandingOver"
      BY <1>0, <1>12, ConfirmReleaseSound DEF Honour
    <2> QED  BY <1>12, <2>1 DEF Honour, Inv, LimbAgrees, HandoverIsOwed
  <1>13. CASE UNCHANGED vars
    BY <1>13 DEF vars, Inv, LimbAgrees, HandoverIsOwed, Driving
  <1> QED
    BY <1>1, <1>2, <1>3, <1>4, <1>5, <1>6, <1>7, <1>8, <1>9, <1>10, <1>11,
       <1>12, <1>13 DEF Next

\* The invariant holds in every reachable state.
THEOREM Invariance == Spec => []Inv
  BY InitInv, StepInv, PTL DEF Spec

\* Type correctness: no sequence of calls takes the lease out of its type,
\* the queue being the part that could (Vec insert, remove and retain).
THEOREM TypeCorrect == Spec => []TypeOK
  <1>1. Inv => TypeOK
    BY DEF Inv, Sound, TypeOK
  <1> QED  BY <1>1, Invariance, PTL

\* R11: whoever may dispatch finds nothing held down by anybody else, by any
\* route the wheel can take from one party to another.
THEOREM NothingInherited == Spec => []NoInheritedInput
  <1>1. Inv => NoInheritedInput
    BY DEF Inv, LimbAgrees, Driving, NoInheritedInput
  <1> QED  BY <1>1, Invariance, PTL

\* A holder that waits for the sweep has one coming.
THEOREM NoStalledHandover == Spec => []HandoverIsOwed
  <1>1. Inv => HandoverIsOwed
    BY DEF Inv
  <1> QED  BY <1>1, Invariance, PTL

\* The states the state machine of lease.rs calls unreachable are.
THEOREM PhasesAgree == Spec => []PhaseAgrees
  <1>1. Inv => PhaseAgrees
    BY DEF Inv, Sound, PhaseAgrees
  <1> QED  BY <1>1, Invariance, PTL

\* No party ever has two of the holder's seat, the preemptor's and a place in
\* the queue, nor two places in the queue.
THEOREM OneSeat == Spec => []OneSeatEach
  <1>1. Inv => OneSeatEach
    BY DEF Inv, Sound, OneSeatEach
  <1> QED  BY <1>1, Invariance, PTL

\* Every preemption is upward and respects min_hold_ms, or is a person's over
\* an agent.
THEOREM PreemptionsEarned == Spec => []PreemptionIsEarned
  <1>1. Inv => PreemptionIsEarned
    BY DEF Inv, Sound, PreemptionIsEarned
  <1> QED  BY <1>1, Invariance, PTL

\* During a backoff the lease has no holder, no preemptor and no queue, so a
\* call finds nothing to act on; asking is refused outright.
LEMMA BackoffSteps ==
    ASSUME Inv, [Next]_vars, lease.forceUntil # None, now < lease.forceUntil
    PROVE  /\ lease'.phase = "Unheld"
           /\ lease'.forceUntil \in {lease.forceUntil, now + ForceBackoff}
  <1>1. /\ lease \in LeaseRecord /\ lease.phase = "Unheld"
        /\ lease.holder.party = None /\ lease.pending.party = None
        /\ lease.queue = << >> /\ Waiting(lease) = {}
    BY DEF Inv, Sound, ForceSound, PhaseSound, Waiting
  <1>2. \A p \in Party : p # None
    BY PartyAssumption
  <1>3. CASE Advance \/ UNCHANGED vars \/ \E p \in Party : LiftOwn(p)
    BY <1>1, <1>3 DEF Advance, Ticking, vars, LiftOwn
  <1>4. CASE \E p \in Party, queue \in BOOLEAN : Ask(p, queue)
    BY <1>1, <1>4 DEF Ask, Take, Acquire, Refused, Done
  <1>5. CASE \E p \in Party, id \in 1..MaxId : LetGo(p, id)
    BY <1>1, <1>2, <1>5 DEF LetGo, Take, Release, Done
  <1>6. CASE \E p \in Party : PutFirst(p)
    BY <1>1, <1>6 DEF PutFirst, Take, Promote, Done
  <1>7. CASE \E p \in Party : Withdraw(p)
    BY <1>1, <1>2, <1>7 DEF Withdraw, Take, CancelWait, Done
  <1>8. CASE Panic
    BY <1>1, <1>8 DEF Panic, Take, ForceRelease, Done, LeaseRecord
  <1>9. CASE \E p \in Party, c \in BOOLEAN : Transport(p, c)
    BY <1>1, <1>2, <1>9 DEF Transport, Take, SetConnected, Done
  <1>10. CASE \E p \in Party : KeepAlive(p)
    BY <1>1, <1>2, <1>10 DEF KeepAlive, Take, Renew, Done
  <1>11. CASE Clock
    BY <1>1, <1>11 DEF Clock, Take, Tick, HolderDue, Done, LeaseRecord, Inv
  <1>12. CASE \E p \in Party : Press(p)
    BY <1>1, <1>12 DEF Press, MayDispatch
  <1>13. CASE Honour
    BY <1>1, <1>13 DEF Honour, ConfirmRelease, Done
  <1> QED
    BY <1>3, <1>4, <1>5, <1>6, <1>7, <1>8, <1>9, <1>10, <1>11, <1>12, <1>13
    DEF Next

\* The panic chord holds until its backoff is over, whatever anybody calls.
THEOREM PanicIsHeld == Spec => PanicHolds
  <1>1. Inv /\ [Next]_vars =>
            [lease.forceUntil # None /\ now < lease.forceUntil =>
               /\ lease'.phase = "Unheld"
               /\ lease'.forceUntil \in {lease.forceUntil,
                                         now + ForceBackoff}]_vars
    BY BackoffSteps
  <1> QED  BY <1>1, Invariance, PTL DEF Spec, PanicHolds

\* The contention clock runs exactly while somebody is in line, and the line
\* is within its cap.
THEOREM ContentionAgreed == Spec => []ContentionAgrees
  <1>1. Inv => ContentionAgrees
    BY DEF Inv, Sound, ContentionAgrees
  <1> QED  BY <1>1, Invariance, PTL

\* A holder that is away has a deadline to come back by.
THEOREM GraceBounded == Spec => []GraceHasDeadline
  <1>1. Inv => GraceHasDeadline
    BY DEF Inv, Sound, GraceHasDeadline
  <1> QED  BY <1>1, Invariance, PTL

\* The forecast of status is never too late, whatever the lease has been
\* through: it counts down to the earliest of the instants tick acts on.
THEOREM ForecastKept == Spec => []NoneSoonerThanForecast
  <1>1. Inv => NoneSoonerThanForecast
    <2> SUFFICES ASSUME Inv, NEW t \in now..(now + LeaseTtl),
                        ChangesAt(lease) = None \/ t < ChangesAt(lease)
                 PROVE  Tick(lease, t).lease.holder.id = lease.holder.id
      BY DEF NoneSoonerThanForecast
    <2>1. t \in Nat /\ now \in Nat /\ now <= t
      BY PolicyAssumption DEF Inv
    <2>2. Sound(lease, t)
      BY <2>1, SoundLater DEF Inv
    <2>3. ~HolderDue(SweptAt(lease, t), t)
      BY <2>1, <2>2, ForecastFacts
    <2>4. /\ Tick(lease, t) = Done(SweptAt(lease, t), "Unchanged", FALSE)
          /\ SweptAt(lease, t).holder = lease.holder
      BY <2>1, <2>2, <2>3, TickFacts
    <2> QED  BY <2>4 DEF Done
  <1> QED  BY <1>1, Invariance, PTL

\* A request takes the wheel from nobody who is connected: all it can do is
\* wait, be refused, or start a preemption.
LEMMA AskKeepsHolder ==
    ASSUME NEW l, NEW t \in Nat, Sound(l, t), NEW p \in Party,
           NEW queue \in BOOLEAN, l.holder.party # None, l.holder.connected
    PROVE  Acquire(l, p, queue, t).lease.holder.id = l.holder.id
  <1> DEFINE a == [l EXCEPT !.forceUntil = None]
             renewed == [a EXCEPT !.holder.renew = t]
             refreshed == [a EXCEPT !.queue[Position(l, p)].queued = t]
  <1>1. /\ l \in LeaseRecord /\ l.holder \in HolderRecord
        /\ l.phase # "Unheld"
    BY DEF Sound, LeaseRecord, PhaseSound
  <1>2. /\ a \in LeaseRecord /\ a.holder = l.holder
    BY <1>1 DEF LeaseRecord
  <1>3. renewed.holder.id = l.holder.id
    BY <1>1 DEF LeaseRecord, HolderRecord
  <1>4. refreshed.holder = l.holder
    BY <1>1 DEF LeaseRecord
  <1>5. \A e : QueueOrRefuse(a, p, queue, t, e).lease.holder = l.holder
    BY <1>2 DEF QueueOrRefuse, Refused, Done, LeaseRecord
  <1>6. Contest(a, p, queue, t).lease.holder = l.holder
    BY <1>2, <1>5 DEF Contest, Done, LeaseRecord
  <1> HIDE DEF a
  <1> QED  BY <1>1, <1>2, <1>3, <1>4, <1>6 DEF Acquire, Refused, Done, a

\* The floor under a grant, for every policy whose timers are longer than it:
\* only a person who takes the wheel from an agent, the holder itself, a
\* panic or a lost connection ends a grant younger than MinHold.
THEOREM FloorIsKept == Spec => FloorHolds
  <1>1. Inv /\ [Next]_vars =>
          [/\ Clock \/ \E p \in Party, queue \in BOOLEAN : Ask(p, queue)
           /\ lease.holder.party # None
           /\ lease.holder.connected
           /\ lease'.holder.id # lease.holder.id
           => \/ now >= lease.holder.granted + MinHold
              \/ FloorLifted(lease'.holder.party, lease.holder.party)]_vars
    <2> SUFFICES ASSUME Inv,
                        Clock \/ \E p \in Party, queue \in BOOLEAN : Ask(p, queue),
                        lease.holder.party # None,
                        lease.holder.connected,
                        lease'.holder.id # lease.holder.id
                 PROVE  \/ now >= lease.holder.granted + MinHold
                        \/ FloorLifted(lease'.holder.party, lease.holder.party)
      OBVIOUS
    <2>0. Sound(lease, now) /\ now \in Nat
      BY DEF Inv
    <2>1. CASE \E p \in Party, queue \in BOOLEAN : Ask(p, queue)
      <3>1. PICK p \in Party, queue \in BOOLEAN : Ask(p, queue)
        BY <2>1
      <3>2. lease' = Acquire(lease, p, queue, now).lease
        BY <3>1 DEF Ask, Take
      <3> QED  BY <2>0, <3>2, AskKeepsHolder
    <2>2. CASE Clock
      <3> DEFINE m == SweptAt(lease, now)
      <3>1. /\ Tick(lease, now) = IF HolderDue(m, now) THEN Settle(m, now)
                                  ELSE Done(m, "Unchanged", FALSE)
            /\ m.holder = lease.holder /\ m.pending = lease.pending
            /\ m \in LeaseRecord
        BY <2>0, TickFacts DEF Sound
      <3>2. lease' = Tick(lease, now).lease
        BY <2>2 DEF Clock, Take
      <3>3. HolderDue(m, now)
        BY <3>1, <3>2 DEF Done
      <3>4. \/ now >= lease.holder.granted + MinHold
            \/ /\ lease.pending.party # None
               /\ FloorLifted(lease.pending.party, lease.holder.party)
        BY <2>0, <3>3, DueFacts
      <3> HIDE DEF m
      <3>5. ASSUME lease.pending.party # None
            PROVE  lease'.holder.party = lease.pending.party
        BY <3>1, <3>2, <3>3, <3>5 DEF Settle, Grant, Done, LeaseRecord
      <3> QED  BY <3>4, <3>5
    <2> QED  BY <2>1, <2>2
  <1> QED  BY <1>1, Invariance, PTL DEF Spec, FloorHolds

\* An answer the caller takes is a step of the lock: it leaves the wheel where
\* it is, puts it down, or gives it back to the holder that had it.
LEMMA TakeIsLockStep ==
    ASSUME Inv, NEW r, Orderly(lease, r, now), Take(r)
    PROVE  [Wheel!Next]_(Wheel!vars)
  <1>1. lease' = r.lease /\ pressed' = pressed
    BY DEF Take
  <1>2. CASE r.lease.phase # "Held"
    <2>1. Driver' = None
      BY <1>1, <1>2 DEF Driver
    <2> QED  BY <1>1, <2>1 DEF Wheel!Next, Wheel!Lose, Wheel!vars
  <1>3. CASE r.lease.phase = "Held"
    <2>1. /\ lease.holder.party = r.lease.holder.party
          /\ pressed \subseteq {lease.holder.party}
          /\ Driver' = lease.holder.party
      BY <1>1, <1>3 DEF Inv, Orderly, Driving, LimbAgrees, Driver
    <2>2. lease.holder.party \in Party
      BY <1>3, <2>1 DEF Orderly, Sound, PhaseSound, LeaseRecord, HolderRecord
    <2>3. CASE lease.phase = "Held"
      BY <1>1, <2>1, <2>3 DEF Driver, Wheel!vars
    <2>4. CASE lease.phase # "Held"
      <3>1. Driver = None
        BY <2>4 DEF Driver
      <3> QED  BY <1>1, <2>1, <2>2, <3>1 DEF Wheel!Next, Wheel!Take
    <2> QED  BY <2>3, <2>4
  <1> QED  BY <1>2, <1>3

\* The initial state of the lease is the lock's, and every step of the lease,
\* of its callers, of the clock and of the limb is a step of the lock or
\* leaves it alone.
THEOREM LeaseIsALock == Spec => ImplementsLock
  <1>1. Init => Wheel!Init
    BY DEF Init, NewLease, Driver, Wheel!Init
  <1>2. Inv /\ [Next]_vars => [Wheel!Next]_(Wheel!vars)
    <2> SUFFICES ASSUME Inv, [Next]_vars  PROVE [Wheel!Next]_(Wheel!vars)
      OBVIOUS
    <2>0. Sound(lease, now) /\ now \in Nat
      BY DEF Inv
    <2>1. CASE Advance
      BY <2>1 DEF Advance, Ticking, Wheel!vars, Driver
    <2>2. CASE \E p \in Party, queue \in BOOLEAN : Ask(p, queue)
      BY <2>0, <2>2, AcquireOrderly, TakeIsLockStep DEF Ask
    <2>3. CASE \E p \in Party, id \in 1..MaxId : LetGo(p, id)
      BY <2>0, <2>3, ReleaseOrderly, TakeIsLockStep DEF LetGo
    <2>4. CASE \E p \in Party : PutFirst(p)
      BY <2>0, <2>4, PromoteOrderly, TakeIsLockStep DEF PutFirst
    <2>5. CASE \E p \in Party : Withdraw(p)
      BY <2>0, <2>5, CancelWaitOrderly, TakeIsLockStep DEF Withdraw
    <2>6. CASE Panic
      BY <2>0, <2>6, ForceReleaseOrderly, TakeIsLockStep DEF Panic
    <2>7. CASE \E p \in Party, c \in BOOLEAN : Transport(p, c)
      BY <2>0, <2>7, SetConnectedOrderly, TakeIsLockStep DEF Transport
    <2>8. CASE \E p \in Party : KeepAlive(p)
      <3>1. PICK p \in Party : KeepAlive(p)
        BY <2>8
      <3>2. /\ Renew(lease, p, now).phase = lease.phase
            /\ Renew(lease, p, now).holder.party = lease.holder.party
        BY <2>0, RenewSound
      <3>3. lease' = Renew(lease, p, now) /\ pressed' = pressed
        BY <3>1 DEF KeepAlive, Take, Done
      <3> QED  BY <3>2, <3>3 DEF Wheel!vars, Driver
    <2>9. CASE Clock
      BY <2>0, <2>9, TickOrderly, TakeIsLockStep DEF Clock
    <2>10. CASE \E p \in Party : Press(p)
      <3>1. PICK p \in Party : Press(p)
        BY <2>10
      <3>2. lease'.phase = lease.phase /\ lease'.holder.party = lease.holder.party
        BY <2>0, <3>1, NoteIntentSound DEF Press
      <3>3. /\ pressed' = pressed \cup {p} /\ Driver = p /\ Driver' = p
            /\ p # None
        BY <3>1, <3>2, PartyAssumption DEF Press, MayDispatch, Driver
      <3> QED  BY <3>3 DEF Wheel!Next, Wheel!Press
    <2>11. CASE \E p \in Party : LiftOwn(p)
      BY <2>11 DEF LiftOwn, Wheel!Next, Wheel!Lift, Driver
    <2>12. CASE Honour
      <3>1. pressed' = {} /\ lease' = ConfirmRelease(lease, now).lease
        BY <2>12 DEF Honour
      <3>2. CASE lease.phase # "HandingOver"
        <4>1. Driver' = Driver
          BY <3>1, <3>2 DEF ConfirmRelease, Done, Driver
        <4> QED  BY <3>1, <4>1 DEF Wheel!Next, Wheel!Lift
      <3>3. CASE lease.phase = "HandingOver"
        <4>1. lease.holder.party \in Party /\ lease \in LeaseRecord
              /\ lease.holder \in HolderRecord
          BY <2>0, <3>3 DEF Sound, PhaseSound, LeaseRecord, HolderRecord
        <4>2. Driver = None /\ Driver' = lease.holder.party
          BY <3>1, <3>3, <4>1, PartyAssumption
          DEF ConfirmRelease, Done, Driver, LeaseRecord, HolderRecord
        <4> QED  BY <3>1, <4>1, <4>2 DEF Wheel!Next, Wheel!Take
      <3> QED  BY <3>2, <3>3
    <2>13. CASE UNCHANGED vars
      BY <2>13 DEF vars, Wheel!vars, Driver
    <2> QED
      BY <2>1, <2>2, <2>3, <2>4, <2>5, <2>6, <2>7, <2>8, <2>9, <2>10, <2>11,
         <2>12, <2>13 DEF Next
  <1> QED  BY <1>1, <1>2, Invariance, PTL DEF Spec, ImplementsLock, Wheel!Spec

-----------------------------------------------------------------------------
(* The board. *)

\* A lease of the board, in the middle of a call or after it.
Steady(l, t) ==
    /\ Sound(l, t)
    /\ l.forceUntil = None
    /\ l.holder.party # None => l.holder.connected
    /\ l.phase # "HeldGrace"
    /\ l.pending.party \in {None, Person}
    /\ Person \notin Waiting(l)

\* A person who used the session at u is not idle at t.
Recent(t, u) == u # None /\ t < u + PersonIdle

\* The person drives and was last heard of no sooner than u, or is taking
\* the wheel.
Keeps(l, u) ==
    \/ l.pending.party = Person
    \/ l.holder.party = Person /\ l.holder.intent >= u

PersonIn(l) == Person \in {l.holder.party, l.pending.party}

\* From l to m at t, a call of the clock's or of an agent's: m is steady, nobody
\* but N has come into line, and a person has neither lost the session while
\* using it nor got it who was not there.
Moved(l, m, t, N) ==
    /\ Steady(m, t)
    /\ Waiting(m) \subseteq Waiting(l) \cup N
    /\ \A u \in Nat : Recent(t, u) /\ u <= t /\ Keeps(l, u) => Keeps(m, u)
    /\ PersonIn(m) => PersonIn(l)

\* Moves follow one another.
LEMMA MovedTwice ==
    ASSUME NEW l, NEW m, NEW n, NEW t \in Nat, NEW N, NEW M,
           Moved(l, m, t, N), Moved(m, n, t, M)
    PROVE  Moved(l, n, t, N \cup M)
  BY DEF Moved

\* The parties of a steady lease.
LEMMA SteadyParties ==
    ASSUME NEW l, NEW t \in Nat, Steady(l, t)
    PROVE  /\ l \in LeaseRecord /\ l.holder \in HolderRecord
           /\ l.holder.party \in Party \cup {None}
           /\ l.holder.intent \in Nat
           /\ Waiting(l) \subseteq Agents
           /\ Person # None /\ Person \in Party
           /\ l.phase = "PreemptPending" <=> l.pending.party = Person
           /\ l.phase = "Unheld" <=> l.holder.party = None
           /\ PersonHolds(l) <=> PersonIn(l)
  <1>1. /\ l \in LeaseRecord /\ l.holder \in HolderRecord
        /\ l.holder.party \in Party \cup {None} /\ l.holder.intent \in Nat
    BY DEF Steady, Sound, LeaseRecord, HolderRecord
  <1>2. Person # None /\ Person \in Party
    BY PartyAssumption, PersonAssumption
  <1>3. Waiting(l) \subseteq Party
    <2>1. \A i \in DOMAIN l.queue : l.queue[i] \in Waiter
      BY <1>1, LenProperties, ElementOfSeq DEF LeaseRecord
    <2> QED  BY <2>1 DEF Waiting, Waiter
  <1>4. PersonHolds(l) <=> PersonIn(l)
    BY <1>1, <1>2, PersonAssumption DEF PersonHolds, PersonIn, Agents, Steady
  <1> QED
    BY <1>1, <1>2, <1>3, <1>4 DEF Steady, Sound, PhaseSound, Agents

\* The wheel changes hands: it goes to the person if they were taking it, to
\* an agent in line or to nobody if not.
LEMMA SettleFacts ==
    ASSUME NEW l, NEW t \in Nat, Steady(l, t), l.phase # "Unheld"
    PROVE  LET m == Settle(l, t).lease
           IN  /\ Steady(m, t)
               /\ Waiting(m) \subseteq Waiting(l)
               /\ m.pending.party = None
               /\ l.pending.party = Person =>
                      m.holder.party = Person /\ m.holder.intent = t
               /\ l.pending.party # Person => m.holder.party # Person
  <1> DEFINE m == Settle(l, t).lease
             v == [l EXCEPT !.holder = NoHolder, !.pending = NoPending]
  <1>0. /\ l \in LeaseRecord /\ Waiting(l) \subseteq Agents
        /\ Person # None /\ l.forceUntil = None
    BY SteadyParties DEF Steady
  <1>1. Sound(m, t) /\ m.phase # "HeldGrace"
    BY SettleSound DEF Steady
  <1>2. /\ v \in LeaseRecord /\ v.queue = l.queue /\ v.pending = NoPending
        /\ v.forceUntil = None /\ v.holder = NoHolder
    <2>1. NoHolder \in HolderRecord /\ NoPending \in PendingRecord
      BY DEF NoHolder, NoPending, HolderRecord, PendingRecord
    <2> QED  BY <1>0, <2>1 DEF LeaseRecord
  <1>3. ASSUME NEW w \in LeaseRecord, NEW p
        PROVE  /\ Grant(w, p, t).holder.party = p
               /\ Grant(w, p, t).holder.intent = t
               /\ Grant(w, p, t).holder.connected
               /\ Grant(w, p, t).pending = w.pending
               /\ Grant(w, p, t).queue = w.queue
               /\ Grant(w, p, t).forceUntil = w.forceUntil
    BY DEF Grant, LeaseRecord
  <1>4. NoPending.party = None /\ NoHolder.party = None
    BY DEF NoPending, NoHolder
  <1>5. CASE l.pending.party # None
    <2>1. m = Grant(v, l.pending.party, t)
      BY <1>5 DEF Settle, Done
    <2> HIDE DEF m, v
    <2>2. /\ m.holder.party = l.pending.party /\ m.holder.intent = t
          /\ m.holder.connected /\ m.pending.party = None
          /\ m.queue = l.queue /\ m.forceUntil = None
      BY <1>2, <1>3, <1>4, <2>1
    <2>3. Waiting(m) = Waiting(l)
      BY <2>2 DEF Waiting
    <2> QED  BY <1>1, <1>5, <2>2, <2>3 DEF Steady, m
  <1>6. CASE l.pending.party = None /\ l.queue # << >>
    <2> DEFINE w == [v EXCEPT !.queue = Tail(l.queue)]
    <2>1. m = Grant(w, Head(l.queue).party, t)
      BY <1>6 DEF Settle, Done
    <2>2. l.queue \in Seq(Waiter) /\ Tail(l.queue) \in Seq(Waiter)
          /\ Head(l.queue) = l.queue[1] /\ 1 \in DOMAIN l.queue
          /\ \A i \in DOMAIN Tail(l.queue) :
                 i + 1 \in DOMAIN l.queue /\ Tail(l.queue)[i] = l.queue[i + 1]
      BY <1>0, <1>6, LenProperties, EmptySeq, HeadTailProperties
      DEF LeaseRecord
    <2>3. /\ w \in LeaseRecord /\ w.queue = Tail(l.queue)
          /\ w.pending = NoPending /\ w.forceUntil = None
      BY <1>2, <2>2 DEF LeaseRecord
    <2> HIDE DEF m, w
    <2>4. /\ m.holder.party = Head(l.queue).party
          /\ m.holder.connected /\ m.pending.party = None
          /\ m.queue = Tail(l.queue) /\ m.forceUntil = None
      BY <1>3, <1>4, <2>1, <2>3
    <2>5. Waiting(m) \subseteq Waiting(l)
      BY <2>2, <2>4 DEF Waiting
    <2>6. Head(l.queue).party \in Waiting(l)
      BY <2>2 DEF Waiting
    <2> QED
      BY <1>0, <1>1, <1>6, <2>4, <2>5, <2>6 DEF Steady, Agents, m
  <1>7. CASE l.pending.party = None /\ l.queue = << >>
    <2>1. m = [v EXCEPT !.phase = "Unheld"]
      BY <1>7 DEF Settle, Done
    <2> HIDE DEF m, v
    <2>2. /\ m.holder.party = None /\ m.pending.party = None
          /\ m.queue = << >> /\ m.forceUntil = None
      BY <1>2, <1>4, <1>7, <2>1 DEF LeaseRecord
    <2>3. Waiting(m) = {}
      BY <2>2 DEF Waiting
    <2> QED  BY <1>0, <1>1, <1>7, <2>2, <2>3 DEF Steady, m
  <1> QED  BY <1>5, <1>6, <1>7

\* Settling because of anything but the person's own wish is a move: the wheel
\* does not leave a person who is using it.
LEMMA SettleMoves ==
    ASSUME NEW l, NEW t \in Nat, Steady(l, t), l.phase # "Unheld",
           \A u \in Nat : Recent(t, u) /\ u <= t /\ Keeps(l, u) =>
                              l.pending.party = Person
    PROVE  Moved(l, Settle(l, t).lease, t, {})
  <1> DEFINE m == Settle(l, t).lease
  <1>1. /\ Steady(m, t) /\ Waiting(m) \subseteq Waiting(l)
        /\ m.pending.party = None
        /\ l.pending.party = Person =>
               m.holder.party = Person /\ m.holder.intent = t
        /\ l.pending.party # Person => m.holder.party # Person
    BY SettleFacts
  <1>2. Person # None
    BY SteadyParties
  <1> HIDE DEF m
  <1>3. PersonIn(m) => PersonIn(l)
    BY <1>1, <1>2 DEF PersonIn
  <1>4. \A u \in Nat : Recent(t, u) /\ u <= t /\ Keeps(l, u) => Keeps(m, u)
    BY <1>1 DEF Keeps
  <1> QED  BY <1>1, <1>3, <1>4 DEF Moved, m

\* The clock: a person who used the session a moment ago is not due.
LEMMA TickMoves ==
    ASSUME NEW l, NEW t \in Nat, Steady(l, t)
    PROVE  Moved(l, Tick(l, t).lease, t, {})
  <1> DEFINE m == SweptAt(l, t)
  <1>1. Sound(l, t) /\ l.forceUntil = None /\ l \in LeaseRecord
    BY SteadyParties DEF Steady
  <1>2. /\ Tick(l, t) = IF HolderDue(m, t) THEN Settle(m, t)
                        ELSE Done(m, "Unchanged", FALSE)
        /\ Sound(m, t) /\ m.phase = l.phase /\ m.holder = l.holder
        /\ m.pending = l.pending /\ m.forceUntil \in {l.forceUntil, None}
        /\ Waiting(m) \subseteq Waiting(l)
    BY <1>1, TickFacts
  <1> HIDE DEF m
  <1>3. Steady(m, t)
    BY <1>1, <1>2 DEF Steady
  <1>4. Moved(l, m, t, {})
    BY <1>2, <1>3 DEF Moved, Keeps, PersonIn
  <1>5. CASE ~HolderDue(m, t)
    BY <1>2, <1>4, <1>5 DEF Done
  <1>6. CASE HolderDue(m, t)
    <2>1. m.phase # "Unheld"
      BY <1>6 DEF HolderDue
    <2>2. ASSUME NEW u \in Nat, Recent(t, u), u <= t, Keeps(m, u),
                 m.pending.party # Person
          PROVE  FALSE
      <3>1. m.holder.party = Person /\ m.holder.intent >= u
        BY <2>2 DEF Keeps
      <3>2. /\ m.holder \in HolderRecord /\ m.holder.intent \in Nat
            /\ m.holder.renew \in Nat /\ m.phase \in Phase
        BY <1>3, SteadyParties DEF HolderRecord, LeaseRecord
      <3>3. m.phase \in {"Held", "HandingOver"}
        BY <1>3, <2>1, <2>2, <3>2, SteadyParties DEF Steady, Phase
      <3>4. /\ PersonIdle \in Nat \ {0} /\ LeaseTtl \in Nat \ {0}
            /\ PersonIdle <= LeaseTtl /\ t < u + PersonIdle
            /\ IsPerson(Person)
        BY <2>2, PolicyAssumption, PersonAssumption DEF Recent
      <3>5. /\ LastActivity(m.holder) \in Nat
            /\ LastActivity(m.holder) >= m.holder.intent
        BY <3>2 DEF LastActivity, Latest
      <3>6. /\ ~(Since(t, LastActivity(m.holder)) >= LeaseTtl)
            /\ ~(Since(t, m.holder.intent) >= IdleLimit(m.holder))
        BY <3>1, <3>2, <3>4, <3>5 DEF Since, IdleLimit
      <3>7. ContendedDeadline(m) = None
        BY <3>1, <3>4 DEF ContendedDeadline
      <3> QED  BY <1>6, <3>3, <3>6, <3>7 DEF HolderDue
    <2>3. Moved(m, Settle(m, t).lease, t, {})
      BY <1>3, <2>1, <2>2, SettleMoves
    <2>4. Moved(l, Settle(m, t).lease, t, {} \cup {})
      BY <1>4, <2>3, MovedTwice
    <2> QED  BY <1>2, <1>6, <2>4
  <1> QED  BY <1>5, <1>6

\* Confirming the sweep is a move, and leaves no handover open.
LEMMA ConfirmMoves ==
    ASSUME NEW l, NEW t \in Nat, Steady(l, t)
    PROVE  LET m == ConfirmRelease(l, t).lease
           IN  /\ Moved(l, m, t, {})
               /\ m.phase # "HandingOver"
               /\ m.holder.party = l.holder.party
               /\ m.pending = l.pending
  <1> DEFINE m == ConfirmRelease(l, t).lease
  <1>1. Sound(m, t) /\ m.phase # "HandingOver"
    BY ConfirmReleaseSound DEF Steady
  <1>2. l \in LeaseRecord /\ l.holder \in HolderRecord /\ l.holder.intent \in Nat
    BY SteadyParties
  <1>3. CASE l.phase # "HandingOver"
    BY <1>3 DEF ConfirmRelease, Done, Moved
  <1>4. CASE l.phase = "HandingOver"
    <2>1. l.holder.party # None
      BY <1>4, SteadyParties
    <2>2. m = [l EXCEPT !.phase = "Held",
                        !.holder = [@ EXCEPT !.intent = t, !.renew = t]]
      BY <1>4, <2>1 DEF ConfirmRelease, Done
    <2> HIDE DEF m
    <2>3. /\ m.phase = "Held" /\ m.pending = l.pending /\ m.queue = l.queue
          /\ m.forceUntil = l.forceUntil
          /\ m.holder = [l.holder EXCEPT !.intent = t, !.renew = t]
      BY <1>2, <2>2 DEF LeaseRecord
    <2>4. /\ m.holder.party = l.holder.party /\ m.holder.intent = t
          /\ m.holder.connected = l.holder.connected
      BY <1>2, <2>3 DEF HolderRecord
    <2>5. Waiting(m) = Waiting(l)
      BY <2>3 DEF Waiting
    <2>6. Steady(m, t)
      BY <1>1, <2>3, <2>4, <2>5 DEF Steady, m
    <2> QED
      BY <1>1, <2>3, <2>4, <2>5, <2>6 DEF Moved, Keeps, PersonIn, m
  <1> QED  BY <1>3, <1>4

\* Noting the use of the limb by an agent moves nothing; by the person, it is
\* what keeps the wheel with them.
LEMMA NoteIntentMoves ==
    ASSUME NEW l, NEW t \in Nat, Steady(l, t), NEW p \in Party
    PROVE  LET m == NoteIntent(l, p, t)
           IN  /\ Moved(l, m, t, {})
               /\ m.phase = l.phase
               /\ m.holder.party = l.holder.party
               /\ m.pending = l.pending
               /\ l.holder.party = p => m.holder.intent = t
  <1> DEFINE m == NoteIntent(l, p, t)
  <1>1. Sound(m, t) /\ m.phase = l.phase /\ m.holder.party = l.holder.party
    BY NoteIntentSound DEF Steady
  <1>2. l \in LeaseRecord /\ l.holder \in HolderRecord /\ l.holder.intent \in Nat
    BY SteadyParties
  <1>3. CASE l.holder.party # p
    BY <1>3 DEF NoteIntent, Moved
  <1>4. CASE l.holder.party = p
    <2>1. m = [l EXCEPT !.holder.intent = t]
      BY <1>4 DEF NoteIntent
    <2> HIDE DEF m
    <2>2. /\ m.pending = l.pending /\ m.queue = l.queue
          /\ m.forceUntil = l.forceUntil /\ m.holder.intent = t
          /\ m.holder.connected = l.holder.connected
      BY <1>2, <2>1 DEF LeaseRecord, HolderRecord
    <2>3. Waiting(m) = Waiting(l)
      BY <2>2 DEF Waiting
    <2>4. Steady(m, t)
      BY <1>1, <2>2, <2>3 DEF Steady, m
    <2> QED  BY <1>1, <2>2, <2>3, <2>4 DEF Moved, Keeps, PersonIn, m
  <1> QED  BY <1>3, <1>4

\* Proof of life from a holder.
LEMMA RenewMoves ==
    ASSUME NEW l, NEW t \in Nat, Steady(l, t), NEW p \in Party
    PROVE  LET m == Renew(l, p, t)
           IN  /\ Moved(l, m, t, {})
               /\ m.holder.party = l.holder.party
               /\ m.pending = l.pending
  <1> DEFINE m == Renew(l, p, t)
  <1>1. Sound(m, t) /\ m.phase = l.phase /\ m.holder.party = l.holder.party
    BY RenewSound DEF Steady
  <1>2. l \in LeaseRecord /\ l.holder \in HolderRecord
    BY SteadyParties
  <1>3. CASE l.holder.party # p
    BY <1>3 DEF Renew, Moved
  <1>4. CASE l.holder.party = p
    <2>1. m = [l EXCEPT !.holder.renew = t]
      BY <1>4 DEF Renew
    <2> HIDE DEF m
    <2>2. /\ m.pending = l.pending /\ m.queue = l.queue
          /\ m.forceUntil = l.forceUntil /\ m.holder.intent = l.holder.intent
          /\ m.holder.connected = l.holder.connected
      BY <1>2, <2>1 DEF LeaseRecord, HolderRecord
    <2>3. Waiting(m) = Waiting(l)
      BY <2>2 DEF Waiting
    <2>4. Steady(m, t)
      BY <1>1, <2>2, <2>3 DEF Steady, m
    <2> QED  BY <1>1, <2>2, <2>3, <2>4 DEF Moved, Keeps, PersonIn, m
  <1> QED  BY <1>3, <1>4

\* The seats and ranks of the board's parties.
LEMMA Ranks ==
    ASSUME NEW p \in Agents, NEW q \in Party
    PROVE  /\ p \in Party /\ p # Person /\ p # None /\ ~IsPerson(p)
           /\ Priority[p] <= Priority[q]
           /\ ~(Priority[Person] <= Priority[p])
           /\ FloorLifted(Person, p)
  <1>1. p \in Party /\ p # Person /\ p # None /\ ~IsPerson(p)
    BY PartyAssumption, PersonAssumption DEF Agents
  <1>2. Priority[p] \in Nat /\ Priority[q] \in Nat /\ Priority[Person] \in Nat
    BY <1>1, PartyAssumption, PersonAssumption
  <1>3. Priority[p] < Priority[Person]
    BY PersonAssumption
  <1>4. ASSUME q \in Agents  PROVE Priority[p] <= Priority[q]
    BY <1>2, <1>4, PersonAssumption
  <1>5. ASSUME q = Person  PROVE Priority[p] <= Priority[q]
    BY <1>2, <1>3, <1>5
  <1>6. FloorLifted(Person, p)
    <2>1. Kind[p] \in HolderKind
      BY <1>1, PartyAssumption
    <2> QED  BY <1>1, <2>1, PersonAssumption DEF FloorLifted, IsPerson, HolderKind
  <1> QED  BY <1>1, <1>2, <1>3, <1>4, <1>5, <1>6 DEF Agents

\* acquire finds no backoff on the board, so it starts from the lease itself.
LEMMA AcquireStarts ==
    ASSUME NEW l, NEW t \in Nat, Steady(l, t), NEW p \in Party,
           NEW queue \in BOOLEAN
    PROVE  /\ l.holder.party = p =>
                  Acquire(l, p, queue, t) = Done(Renew(l, p, t), "Renewed", FALSE)
           /\ l.holder.party # p /\ l.pending.party = p =>
                  Acquire(l, p, queue, t) = Done(l, "PreemptionStarted", FALSE)
           /\ l.holder.party # p /\ l.pending.party # p /\ p \in Waiting(l) =>
                  Acquire(l, p, queue, t) =
                      Done([l EXCEPT !.queue[Position(l, p)].queued = t],
                           "Queued", FALSE)
           /\ Stranger(l, p) /\ l.phase = "Unheld" =>
                  Acquire(l, p, queue, t) = Done(Grant(l, p, t), "Granted", TRUE)
           /\ Stranger(l, p) /\ l.phase # "Unheld" =>
                  Acquire(l, p, queue, t) = Contest(l, p, queue, t)
  <1>1. l \in LeaseRecord /\ l.forceUntil = None
    BY SteadyParties DEF Steady
  <1>2. [l EXCEPT !.forceUntil = None] = l
    BY <1>1 DEF LeaseRecord
  <1> QED
    BY <1>1, <1>2 DEF Acquire, Renew, Stranger

\* An agent that asks is granted a free session, waits or is refused; it
\* starts no preemption, since it outranks nobody.
LEMMA AgentAcquireMoves ==
    ASSUME NEW l, NEW t \in Nat, Steady(l, t), NEW p \in Agents,
           NEW queue \in BOOLEAN
    PROVE  LET r == Acquire(l, p, queue, t)
           IN  /\ Moved(l, r.lease, t, IF queue THEN {p} ELSE {})
               /\ r.outcome \in Refusal => r.lease.phase = l.phase
  <1> DEFINE r == Acquire(l, p, queue, t)
             m == r.lease
             N == IF queue THEN {p} ELSE {}
  <1>0. /\ p \in Party /\ p # Person /\ p # None
        /\ \A q \in Party : Priority[p] <= Priority[q]
    BY Ranks, PersonAssumption
  <1>1. /\ l \in LeaseRecord /\ Sound(l, t) /\ Person # None
        /\ l.holder.party \in Party \cup {None}
        /\ l.phase = "Unheld" <=> l.holder.party = None
        /\ l.phase = "PreemptPending" <=> l.pending.party = Person
        /\ l.pending.party \in {None, Person}
    BY SteadyParties DEF Steady
  <1>2. Sound(m, t)
    BY <1>0, <1>1, AcquireOrderly DEF Orderly
  <1> SUFFICES Moved(l, m, t, N) /\ (r.outcome \in Refusal => m.phase = l.phase)
    OBVIOUS
  <1> HIDE DEF r
  <1>3. CASE l.holder.party = p
    <2>1. r = Done(Renew(l, p, t), "Renewed", FALSE)
      BY <1>0, <1>3, AcquireStarts DEF r
    <2>2. m = Renew(l, p, t) /\ r.outcome = "Renewed"
      BY <2>1 DEF Done
    <2>3. Moved(l, m, t, {})
      BY <1>0, <2>2, RenewMoves
    <2> QED  BY <2>2, <2>3 DEF Moved, Refusal
  <1>4. CASE l.holder.party # p /\ p \in Waiting(l)
    <2> DEFINE i == Position(l, p)
               n == [l EXCEPT !.queue[i].queued = t]
    <2>0. l.pending.party # p
      BY <1>0, <1>1
    <2>1. r = Done(n, "Queued", FALSE)
      BY <1>0, <1>4, <2>0, AcquireStarts, ZenonT(60) DEF r
    <2>2. i \in DOMAIN l.queue
      BY <1>4, PositionFacts
    <2> HIDE DEF i
    <2>3. /\ n.phase = l.phase /\ n.holder = l.holder
          /\ n.pending = l.pending /\ n.forceUntil = l.forceUntil
          /\ Waiting(n) = Waiting(l)
      BY <1>1, <2>2, RefreshSound
    <2> HIDE DEF n
    <2>4. m = n /\ r.outcome = "Queued"
      BY <2>1 DEF Done
    <2> QED
      BY <1>2, <2>3, <2>4 DEF Steady, Moved, Keeps, PersonIn, Refusal
  <1>5. CASE Stranger(l, p) /\ l.phase = "Unheld"
    <2>1. r = Done(Grant(l, p, t), "Granted", TRUE)
      BY <1>0, <1>5, AcquireStarts DEF r
    <2>a. m = Grant(l, p, t) /\ r.outcome = "Granted"
      BY <2>1 DEF Done
    <2> HIDE DEF m
    <2>2. /\ m.holder.party = p /\ m.holder.connected
          /\ m.pending = l.pending /\ m.queue = l.queue
          /\ m.forceUntil = l.forceUntil /\ m.phase = "HandingOver"
      BY <1>1, <2>a DEF Grant, LeaseRecord
    <2>3. Waiting(m) = Waiting(l)
      BY <2>2 DEF Waiting
    <2>4. Steady(m, t)
      BY <1>2, <2>2, <2>3 DEF Steady
    <2>5. ~PersonIn(l) /\ ~PersonIn(m)
      BY <1>0, <1>1, <1>5, <2>2 DEF PersonIn
    <2> QED  BY <2>a, <2>3, <2>4, <2>5 DEF Moved, Keeps, PersonIn, Refusal
  <1>6. CASE Stranger(l, p) /\ l.phase # "Unheld"
    <2>1. r = Contest(l, p, queue, t)
      BY <1>0, <1>6, AcquireStarts DEF r
    <2>a. l.holder.party # None /\ Priority[p] <= Priority[l.holder.party]
      BY <1>0, <1>1, <1>6
    <2>b. Priority[p] \in Nat /\ Priority[l.holder.party] \in Nat
      BY <1>0, <1>1, <2>a, PartyAssumption
    <2>c. ~(Priority[p] > Priority[l.holder.party])
      BY <2>a, <2>b
    <2>2. Contest(l, p, queue, t) = QueueOrRefuse(l, p, queue, t, "Held")
      BY <2>a, <2>c, Zenon DEF Contest
    <2>3. /\ m.phase = l.phase /\ m.holder = l.holder
          /\ m.pending = l.pending /\ m.forceUntil = l.forceUntil
          /\ Waiting(m) \subseteq Waiting(l) \cup N
      BY <1>0, <1>1, <1>6, <2>1, <2>2, QueueOrRefuseSound
    <2> HIDE DEF m
    <2> QED  BY <1>0, <1>2, <2>3 DEF Steady, Moved, Keeps, PersonIn
  <1> QED
    BY <1>0, <1>1, <1>3, <1>4, <1>5, <1>6 DEF Stranger

\* A person who gives input has the wheel or is on the way to it, whoever
\* holds it and however long they have.
LEMMA PersonAcquires ==
    ASSUME NEW l, NEW t \in Nat, Steady(l, t), l.phase # "HandingOver"
    PROVE  LET r == Acquire(l, Person, FALSE, t)
           IN  /\ Steady(r.lease, t)
               /\ Waiting(r.lease) \subseteq Waiting(l)
               /\ PersonIn(r.lease)
               /\ r.outcome \notin Refusal
  <1> DEFINE r == Acquire(l, Person, FALSE, t)
             m == r.lease
  <1>1. /\ l \in LeaseRecord /\ Sound(l, t) /\ Person # None /\ Person \in Party
        /\ l.holder.party \in Party \cup {None}
        /\ l.phase = "Unheld" <=> l.holder.party = None
        /\ l.phase = "PreemptPending" <=> l.pending.party = Person
        /\ l.pending.party \in {None, Person} /\ Person \notin Waiting(l)
        /\ l.holder.party # None => l.holder.connected
    BY SteadyParties DEF Steady
  <1>2. Sound(m, t)
    BY <1>1, AcquireOrderly DEF Orderly
  <1> HIDE DEF r
  <1>3. CASE l.holder.party = Person
    <2>1. r = Done(Renew(l, Person, t), "Renewed", FALSE)
      BY <1>1, <1>3, AcquireStarts DEF r
    <2>2. m = Renew(l, Person, t) /\ r.outcome = "Renewed"
      BY <2>1 DEF Done
    <2>3. /\ Moved(l, m, t, {}) /\ m.holder.party = Person
      BY <1>1, <1>3, <2>2, RenewMoves
    <2> QED  BY <2>2, <2>3 DEF Moved, PersonIn, Refusal, r
  <1>4. CASE l.holder.party # Person /\ l.pending.party = Person
    <2>1. r = Done(l, "PreemptionStarted", FALSE)
      BY <1>1, <1>4, AcquireStarts DEF r
    <2>2. r.lease = l /\ r.outcome = "PreemptionStarted"
      BY <2>1 DEF Done
    <2> QED  BY <1>4, <2>2 DEF PersonIn, Refusal, r
  <1>5. CASE Stranger(l, Person) /\ l.phase = "Unheld"
    <2>1. r = Done(Grant(l, Person, t), "Granted", TRUE)
      BY <1>1, <1>5, AcquireStarts DEF r
    <2>2. m = Grant(l, Person, t) /\ r.outcome = "Granted"
      BY <2>1 DEF Done
    <2> HIDE DEF m
    <2>3. /\ m.holder.party = Person /\ m.holder.connected
          /\ m.pending = l.pending /\ m.queue = l.queue
          /\ m.forceUntil = l.forceUntil /\ m.phase = "HandingOver"
      BY <1>1, <2>2 DEF Grant, LeaseRecord
    <2>4. Waiting(m) = Waiting(l)
      BY <2>3 DEF Waiting
    <2>5. Steady(m, t)
      BY <1>2, <2>3, <2>4 DEF Steady
    <2> QED  BY <2>2, <2>3, <2>4, <2>5 DEF PersonIn, Refusal, r, m
  <1>6. CASE Stranger(l, Person) /\ l.phase # "Unheld"
    <2>1. l.holder.party \in Agents /\ l.phase \notin {"PreemptPending", "HandingOver"}
      BY <1>1, <1>6 DEF Stranger, Agents
    <2>2. /\ ~(Priority[Person] <= Priority[l.holder.party])
          /\ FloorLifted(Person, l.holder.party)
          /\ l.holder.party # None
      BY <1>1, <2>1, Ranks
    <2>3. r = Contest(l, Person, FALSE, t)
      BY <1>1, <1>6, AcquireStarts DEF r
    <2> DEFINE n == [l EXCEPT !.pending = [party |-> Person,
                                           deadline |-> t + PreemptGrace],
                              !.phase = "PreemptPending"]
    <2>4. r = Done(n, "PreemptionStarted", TRUE)
      BY <1>1, <2>1, <2>2, <2>3 DEF Contest
    <2>6. /\ n.holder = l.holder /\ n.pending.party = Person
          /\ n.queue = l.queue /\ n.forceUntil = l.forceUntil
          /\ n.phase = "PreemptPending"
      BY <1>1 DEF LeaseRecord
    <2> HIDE DEF n
    <2>5. m = n /\ r.outcome = "PreemptionStarted"
      BY <2>4 DEF Done
    <2> HIDE DEF m
    <2>7. Waiting(m) = Waiting(l)
      BY <2>5, <2>6 DEF Waiting
    <2>8. Steady(m, t)
      BY <1>2, <2>5, <2>6, <2>7 DEF Steady
    <2> QED  BY <2>5, <2>6, <2>7, <2>8 DEF PersonIn, Refusal, r, m
  <1> QED
    BY <1>1, <1>3, <1>4, <1>5, <1>6 DEF Stranger

\* An agent that withdraws only leaves the line; a person who does calls
\* their own preemption off.
LEMMA CancelMoves ==
    ASSUME NEW l, NEW t \in Nat, Steady(l, t), NEW p \in Party
    PROVE  LET m == CancelWait(l, p).lease
           IN  /\ Steady(m, t) /\ Waiting(m) \subseteq Waiting(l)
               /\ m.phase = "HandingOver" => l.phase = "HandingOver"
               /\ p # Person => Moved(l, m, t, {})
  <1> DEFINE m == CancelWait(l, p).lease
  <1>1. /\ Sound(m, t) /\ m.holder = l.holder /\ m.forceUntil = l.forceUntil
        /\ Waiting(m) \subseteq Waiting(l)
        /\ l.pending.party # p => m.phase = l.phase /\ m.pending = l.pending
        /\ l.pending.party = p =>
               /\ m.pending.party = None
               /\ m.phase = IF l.holder.connected THEN "Held" ELSE "HeldGrace"
    BY CancelWaitOrderly DEF Steady, Orderly
  <1>2. /\ p # None /\ l.pending.party \in {None, Person}
        /\ l.phase = "PreemptPending" <=> l.pending.party = Person
        /\ l.phase = "Unheld" <=> l.holder.party = None
    BY SteadyParties, PartyAssumption DEF Steady
  <1> HIDE DEF m
  <1>3. l.pending.party = p => l.holder.connected
    BY <1>2 DEF Steady
  <1>4. Steady(m, t)
    BY <1>1, <1>2, <1>3 DEF Steady
  <1>5. p # Person => Moved(l, m, t, {})
    BY <1>1, <1>2, <1>4 DEF Moved, Keeps, PersonIn
  <1> QED  BY <1>1, <1>3, <1>4, <1>5 DEF m

\* Letting go hands the wheel on; by an agent, never from a person.
LEMMA ReleaseMoves ==
    ASSUME NEW l, NEW t \in Nat, Steady(l, t), NEW p \in Party,
           l.holder.party = p
    PROVE  LET m == Release(l, p, l.holder.id, t).lease
           IN  /\ Steady(m, t) /\ Waiting(m) \subseteq Waiting(l)
               /\ p # Person => Moved(l, m, t, {})
  <1>1. Release(l, p, l.holder.id, t) = Settle(l, t)
    BY DEF Release
  <1>2. l.phase # "Unheld"
    BY SteadyParties, PartyAssumption
  <1>3. /\ Steady(Settle(l, t).lease, t)
        /\ Waiting(Settle(l, t).lease) \subseteq Waiting(l)
    BY <1>2, SettleFacts
  <1>4. p # Person => Moved(l, Settle(l, t).lease, t, {})
    BY <1>2, SettleMoves DEF Keeps
  <1> QED  BY <1>1, <1>3, <1>4

\* A promotion reorders the line.
LEMMA PromoteMoves ==
    ASSUME NEW l, NEW t \in Nat, Steady(l, t), NEW p \in Party
    PROVE  /\ Moved(l, Promote(l, p), t, {})
           /\ Promote(l, p).phase = l.phase
  <1> DEFINE m == Promote(l, p)
  <1>1. /\ Sound(m, t) /\ m.phase = l.phase /\ m.holder = l.holder
        /\ m.pending = l.pending /\ m.forceUntil = l.forceUntil
        /\ Waiting(m) \subseteq Waiting(l)
    BY PromoteOrderly DEF Steady, Orderly, Done
  <1> HIDE DEF m
  <1> QED  BY <1>1 DEF Steady, Moved, Keeps, PersonIn, m

\* Dropping requests takes agents out of line and nothing else.
LEMMA DroppedMoves ==
    ASSUME NEW l, NEW t \in Nat, Steady(l, t), NEW A \in SUBSET Agents
    PROVE  /\ Moved(l, Dropped(l, A), t, {})
           /\ Dropped(l, A).phase = l.phase
  <1> DEFINE K == {i \in DOMAIN l.queue : l.queue[i].party \notin A}
             m == Swept(l, K, l.forceUntil)
  <1>1. Sound(l, t) /\ l \in LeaseRecord /\ Person \notin A /\ None \notin A
    BY SteadyParties, PartyAssumption DEF Steady, Agents
  <1>2. l.pending.party \notin A
    BY <1>1 DEF Steady
  <1>3. Dropped(l, A) = m
    BY <1>1, <1>2 DEF Dropped, Swept, LeaseRecord
  <1>4. K \in SUBSET DOMAIN l.queue
    OBVIOUS
  <1> HIDE DEF K
  <1>5. /\ Sound(m, t) /\ m.phase = l.phase /\ m.holder = l.holder
        /\ m.pending = l.pending /\ m.forceUntil = l.forceUntil
        /\ Waiting(m) \subseteq {l.queue[i].party : i \in K}
    BY <1>1, <1>4, SweptSound, ZenonT(60)
  <1>6. {l.queue[i].party : i \in K} \subseteq Waiting(l)
    BY <1>4 DEF Waiting
  <1> HIDE DEF m
  <1> QED  BY <1>3, <1>5, <1>6 DEF Steady, Moved, Keeps, PersonIn

----------------------------------------------------------------------------
(* The calls of board.rs, each a chain of lease calls. *)

\* What a call passes along has a lease and a refusal.
IsCall(c) == {"lease", "refusal"} \subseteq DOMAIN c

\* A transition replaces the lease and leaves the refusal alone.
LEMMA ThenFacts ==
    ASSUME NEW c, IsCall(c), NEW r
    PROVE  /\ IsCall(Then(c, r))
           /\ Then(c, r).lease = r.lease
           /\ Then(c, r).refusal = c.refusal
  BY DEF IsCall, Then

\* After a confirmation no handover is open.
LEMMA ConfirmIntoMoves ==
    ASSUME NEW c, IsCall(c), NEW t \in Nat, Steady(c.lease, t)
    PROVE  LET d == ConfirmInto(c, t)
           IN  /\ IsCall(d) /\ d.refusal = c.refusal
               /\ Moved(c.lease, d.lease, t, {})
               /\ d.lease.phase # "HandingOver"
               /\ d.lease.holder.party = c.lease.holder.party
               /\ d.lease.pending = c.lease.pending
  <1>1. CASE c.lease.phase = "HandingOver"
    <2>1. ConfirmInto(c, t) = Then(c, ConfirmRelease(c.lease, t))
      BY <1>1 DEF ConfirmInto
    <2> QED  BY <2>1, ThenFacts, ConfirmMoves
  <1>2. CASE c.lease.phase # "HandingOver"
    <2>1. ConfirmInto(c, t) = c
      BY <1>2 DEF ConfirmInto
    <2>2. Moved(c.lease, c.lease, t, {})
      BY DEF Moved
    <2> QED  BY <1>2, <2>1, <2>2
  <1> QED  BY <1>1, <1>2

\* Every call ticks first, and confirms what the tick granted.
LEMMA TickedMoves ==
    ASSUME NEW l, NEW t \in Nat, Steady(l, t)
    PROVE  LET c == Ticked(l, t)
           IN  /\ IsCall(c) /\ c.refusal = None
               /\ Moved(l, c.lease, t, {})
               /\ Steady(c.lease, t)
               /\ c.lease.phase # "HandingOver"
  <1> DEFINE b == Begin(l)
             d == Then(b, Tick(l, t))
  <1>1. IsCall(b) /\ b.lease = l /\ b.refusal = None
    BY DEF IsCall, Begin
  <1>2. Ticked(l, t) = ConfirmInto(d, t)
    BY <1>1 DEF Ticked, TickInto
  <1> HIDE DEF b
  <1>3. IsCall(d) /\ d.lease = Tick(l, t).lease /\ d.refusal = None
    BY <1>1, ThenFacts
  <1> HIDE DEF d
  <1>4. Moved(l, d.lease, t, {})
    BY <1>3, TickMoves
  <1>5. Steady(d.lease, t)
    BY <1>4 DEF Moved
  <1>6. /\ IsCall(ConfirmInto(d, t)) /\ ConfirmInto(d, t).refusal = None
        /\ Moved(d.lease, ConfirmInto(d, t).lease, t, {})
        /\ ConfirmInto(d, t).lease.phase # "HandingOver"
    BY <1>3, <1>5, ConfirmIntoMoves
  <1>7. Moved(l, ConfirmInto(d, t).lease, t, {} \cup {})
    BY <1>4, <1>6, MovedTwice
  <1> QED  BY <1>2, <1>6, <1>7 DEF Moved

\* An agent asks, and what it is granted is confirmed.
LEMMA AcquireIntoMoves ==
    ASSUME NEW c, IsCall(c), NEW t \in Nat, Steady(c.lease, t),
           c.lease.phase # "HandingOver", NEW p \in Agents, NEW queue \in BOOLEAN
    PROVE  LET d == AcquireInto(c, p, queue, t)
           IN  /\ IsCall(d)
               /\ Moved(c.lease, d.lease, t, IF queue THEN {p} ELSE {})
               /\ d.lease.phase # "HandingOver"
  <1> DEFINE r == Acquire(c.lease, p, queue, t)
             N == IF queue THEN {p} ELSE {}
  <1>1. /\ Moved(c.lease, r.lease, t, N)
        /\ r.outcome \in Refusal => r.lease.phase = c.lease.phase
    BY AgentAcquireMoves
  <1>2. Steady(r.lease, t)
    BY <1>1 DEF Moved
  <1>3. AcquireInto(c, p, queue, t) =
            IF r.outcome \in Refusal THEN Try(c, r)
            ELSE ConfirmInto(Then(c, r), t)
    BY DEF AcquireInto
  <1> HIDE DEF r, N
  <1>4. CASE r.outcome \in Refusal
    <2>1. IsCall(Try(c, r)) /\ Try(c, r).lease = r.lease
      BY <1>4 DEF Try, IsCall
    <2> QED  BY <1>1, <1>3, <1>4, <2>1 DEF N
  <1>5. CASE r.outcome \notin Refusal
    <2> DEFINE d == Then(c, r)
    <2>1. IsCall(d) /\ d.lease = r.lease
      BY ThenFacts
    <2> HIDE DEF d
    <2>2. /\ IsCall(ConfirmInto(d, t))
          /\ Moved(d.lease, ConfirmInto(d, t).lease, t, {})
          /\ ConfirmInto(d, t).lease.phase # "HandingOver"
      BY <1>2, <2>1, ConfirmIntoMoves
    <2>3. Moved(c.lease, ConfirmInto(d, t).lease, t, N \cup {})
      BY <1>1, <2>1, <2>2, MovedTwice
    <2>4. N \cup {} = N
      OBVIOUS
    <2> QED  BY <1>3, <1>5, <2>2, <2>3, <2>4 DEF d, N
  <1> QED  BY <1>4, <1>5

\* Letting go as part of a call.
LEMMA LetGoIntoMoves ==
    ASSUME NEW c, IsCall(c), NEW t \in Nat, Steady(c.lease, t), NEW p \in Party
    PROVE  LET d == LetGoInto(c, p, t)
           IN  /\ IsCall(d) /\ d.refusal = c.refusal /\ Steady(d.lease, t)
               /\ Waiting(d.lease) \subseteq Waiting(c.lease)
               /\ p # Person => Moved(c.lease, d.lease, t, {})
  <1>1. CASE c.lease.holder.party = p
    <2> DEFINE r == Release(c.lease, p, c.lease.holder.id, t)
    <2>1. LetGoInto(c, p, t) = Then(c, r)
      BY <1>1 DEF LetGoInto
    <2>2. /\ Steady(r.lease, t) /\ Waiting(r.lease) \subseteq Waiting(c.lease)
          /\ p # Person => Moved(c.lease, r.lease, t, {})
      BY <1>1, ReleaseMoves
    <2> HIDE DEF r
    <2> QED  BY <2>1, <2>2, ThenFacts
  <1>2. CASE c.lease.holder.party # p
    <2>1. LetGoInto(c, p, t) = c
      BY <1>2 DEF LetGoInto
    <2> QED  BY <2>1 DEF Moved
  <1> QED  BY <1>1, <1>2

\* Withdrawing as part of a call.
LEMMA CancelIntoMoves ==
    ASSUME NEW c, IsCall(c), NEW t \in Nat, Steady(c.lease, t), NEW p \in Party
    PROVE  LET d == CancelInto(c, p)
           IN  /\ IsCall(d) /\ d.refusal = c.refusal /\ Steady(d.lease, t)
               /\ Waiting(d.lease) \subseteq Waiting(c.lease)
               /\ d.lease.phase = "HandingOver" => c.lease.phase = "HandingOver"
               /\ p # Person => Moved(c.lease, d.lease, t, {})
  <1>1. CancelInto(c, p) = Then(c, CancelWait(c.lease, p))
    BY DEF CancelInto
  <1> QED  BY <1>1, ThenFacts, CancelMoves

\* Board::ask.  With the gate closed to it, an agent comes into line only on a
\* session that no person holds, before or after.
LEMMA AskCallMoves ==
    ASSUME NEW l, NEW t \in Nat, Steady(l, t), NEW p \in Agents, NEW gate
    PROVE  LET m == AskCall(l, p, gate, t).lease
           IN  /\ Moved(l, m, t, {p})
               /\ m.phase # "HandingOver"
               /\ (PersonHolds(Ticked(l, t).lease) => gate # None)
                      /\ PersonHolds(m) /\ p \notin Waiting(l)
                  => p \notin Waiting(m)
  <1> DEFINE c == Ticked(l, t)
  <1>0. p \in Party /\ p # Person /\ ~IsPerson(p)
    BY Ranks, PersonAssumption
  <1>1. /\ IsCall(c) /\ Moved(l, c.lease, t, {}) /\ Steady(c.lease, t)
        /\ c.lease.phase # "HandingOver"
    BY TickedMoves
  <1>2. AskCall(l, p, gate, t) =
            IF PersonHolds(c.lease) /\ gate # None
            THEN [CancelInto(c, p) EXCEPT !.refusal = gate]
            ELSE AcquireInto(c, p, TRUE, t)
    BY <1>0 DEF AskCall
  <1> HIDE DEF c
  <1>3. CASE PersonHolds(c.lease) /\ gate # None
    <2> DEFINE d == CancelInto(c, p)
    <2>1. /\ IsCall(d) /\ Moved(c.lease, d.lease, t, {})
          /\ d.lease.phase # "HandingOver"
      BY <1>0, <1>1, CancelIntoMoves
    <2> HIDE DEF d
    <2>2. AskCall(l, p, gate, t).lease = d.lease
      BY <1>2, <1>3, <2>1 DEF IsCall, d
    <2>3. Moved(l, d.lease, t, {} \cup {})
      BY <1>1, <2>1, MovedTwice
    <2> QED  BY <2>1, <2>2, <2>3 DEF Moved
  <1>4. CASE ~(PersonHolds(c.lease) /\ gate # None)
    <2> DEFINE d == AcquireInto(c, p, TRUE, t)
    <2>1. Moved(c.lease, d.lease, t, {p}) /\ d.lease.phase # "HandingOver"
      BY <1>1, AcquireIntoMoves
    <2> HIDE DEF d
    <2>2. AskCall(l, p, gate, t) = d
      BY <1>2, <1>4 DEF d
    <2>3. Moved(l, d.lease, t, {} \cup {p})
      BY <1>1, <2>1, MovedTwice
    <2>4. Steady(d.lease, t) /\ (PersonIn(d.lease) => PersonIn(c.lease))
      BY <2>1 DEF Moved
    <2>5. PersonHolds(d.lease) => PersonHolds(c.lease)
      BY <1>1, <2>4, SteadyParties
    <2>6. {} \cup {p} = {p}
      OBVIOUS
    <2> QED  BY <1>4, <2>1, <2>2, <2>3, <2>5, <2>6 DEF c
  <1> QED  BY <1>3, <1>4

\* Board::release and, per session, Board::forget_party.
LEMMA ReleaseCallMoves ==
    ASSUME NEW l, NEW t \in Nat, Steady(l, t), NEW p \in Agents
    PROVE  LET m == ReleaseCall(l, p, t).lease
           IN  Moved(l, m, t, {}) /\ m.phase # "HandingOver"
  <1> DEFINE c == Ticked(l, t)
             d == LetGoInto(c, p, t)
             e == CancelInto(d, p)
             f == ConfirmInto(e, t)
  <1>0. p \in Party /\ p # Person
    BY Ranks, PersonAssumption
  <1>1. IsCall(c) /\ Moved(l, c.lease, t, {}) /\ Steady(c.lease, t)
    BY TickedMoves
  <1>2. ReleaseCall(l, p, t) = f
    BY DEF ReleaseCall
  <1> HIDE DEF c
  <1>3. IsCall(d) /\ Moved(c.lease, d.lease, t, {}) /\ Steady(d.lease, t)
    BY <1>0, <1>1, LetGoIntoMoves
  <1> HIDE DEF d
  <1>4. IsCall(e) /\ Moved(d.lease, e.lease, t, {}) /\ Steady(e.lease, t)
    BY <1>0, <1>3, CancelIntoMoves
  <1> HIDE DEF e
  <1>5. Moved(e.lease, f.lease, t, {}) /\ f.lease.phase # "HandingOver"
    BY <1>4, ConfirmIntoMoves
  <1> HIDE DEF f
  <1> QED  BY <1>1, <1>2, <1>3, <1>4, <1>5 DEF Moved

\* Board::input: an agent drives, is granted a free session, or is refused,
\* and never comes into line.
LEMMA InputCallMoves ==
    ASSUME NEW l, NEW t \in Nat, Steady(l, t), NEW p \in Agents
    PROVE  LET m == InputCall(l, p, t).lease
           IN  Moved(l, m, t, {}) /\ m.phase # "HandingOver"
  <1> DEFINE c == Ticked(l, t)
             d == IF c.lease.phase = "Unheld" THEN AcquireInto(c, p, FALSE, t)
                  ELSE c
             n == NoteIntent(d.lease, p, t)
  <1>0. p \in Party
    BY Ranks, PersonAssumption
  <1>1. /\ IsCall(c) /\ Moved(l, c.lease, t, {}) /\ Steady(c.lease, t)
        /\ c.lease.phase # "HandingOver"
    BY TickedMoves
  <1>2. InputCall(l, p, t) =
            CASE d.refusal # None -> d
              [] d.refusal = None /\ MayDispatch(d.lease, p) ->
                     [d EXCEPT !.lease = n]
              [] OTHER -> [d EXCEPT !.refusal = "Held"]
    BY DEF InputCall
  <1> HIDE DEF c
  <1>3. /\ IsCall(d) /\ Moved(c.lease, d.lease, t, {})
        /\ d.lease.phase # "HandingOver"
    <2>1. CASE c.lease.phase = "Unheld"
      BY <1>1, <2>1, AcquireIntoMoves
    <2>2. CASE c.lease.phase # "Unheld"
      BY <1>1, <2>2 DEF Moved
    <2> QED  BY <2>1, <2>2
  <1> HIDE DEF d
  <1>4. Steady(d.lease, t)
    BY <1>3 DEF Moved
  <1>5. Moved(d.lease, n, t, {}) /\ n.phase = d.lease.phase
    BY <1>0, <1>4, NoteIntentMoves
  <1> HIDE DEF n
  <1>6. InputCall(l, p, t).lease \in {d.lease, n}
    BY <1>2, <1>3 DEF IsCall
  <1> QED  BY <1>1, <1>3, <1>5, <1>6 DEF Moved

\* Board::person_input: from now on the person keeps the session, or is on
\* the way to it.
LEMMA PersonInputFacts ==
    ASSUME NEW l, NEW t \in Nat, Steady(l, t)
    PROVE  LET m == PersonInputCall(l, t).lease
           IN  /\ Steady(m, t) /\ m.phase # "HandingOver"
               /\ Waiting(m) \subseteq Waiting(l)
               /\ Keeps(m, t)
  <1> DEFINE c == Ticked(l, t)
             r == Acquire(c.lease, Person, FALSE, t)
             d == Then(c, r)
             e == ConfirmInto(d, t)
             n == NoteIntent(e.lease, Person, t)
  <1>0. Person \in Party
    BY PersonAssumption
  <1>1. /\ IsCall(c) /\ Moved(l, c.lease, t, {}) /\ Steady(c.lease, t)
        /\ c.lease.phase # "HandingOver"
    BY TickedMoves
  <1>2. /\ Steady(r.lease, t) /\ Waiting(r.lease) \subseteq Waiting(c.lease)
        /\ PersonIn(r.lease) /\ r.outcome \notin Refusal
    BY <1>1, PersonAcquires
  <1>3. PersonInputCall(l, t) = [e EXCEPT !.lease = n, !.refusal = None]
    BY <1>2 DEF PersonInputCall, AcquireInto
  <1> HIDE DEF c, r
  <1>4. IsCall(d) /\ d.lease = r.lease
    BY <1>1, ThenFacts
  <1> HIDE DEF d
  <1>5. /\ IsCall(e) /\ Moved(d.lease, e.lease, t, {})
        /\ e.lease.phase # "HandingOver"
        /\ e.lease.holder.party = d.lease.holder.party
        /\ e.lease.pending = d.lease.pending
    BY <1>2, <1>4, ConfirmIntoMoves
  <1> HIDE DEF e
  <1>6. Steady(e.lease, t)
    BY <1>5 DEF Moved
  <1>7. /\ Moved(e.lease, n, t, {}) /\ n.phase = e.lease.phase
        /\ n.holder.party = e.lease.holder.party
        /\ n.pending = e.lease.pending
        /\ e.lease.holder.party = Person => n.holder.intent = t
    BY <1>0, <1>6, NoteIntentMoves
  <1> HIDE DEF n
  <1>8. PersonInputCall(l, t).lease = n
    BY <1>3, <1>5 DEF IsCall
  <1>9. Keeps(n, t)
    BY <1>2, <1>4, <1>5, <1>7 DEF Keeps, PersonIn
  <1>10. Waiting(n) \subseteq Waiting(l)
    BY <1>1, <1>2, <1>4, <1>5, <1>7 DEF Moved
  <1> QED  BY <1>5, <1>7, <1>8, <1>9, <1>10 DEF Moved

\* Board::not_now.
LEMMA NotNowCallMoves ==
    ASSUME NEW l, NEW t \in Nat, Steady(l, t), NEW p \in Agents
    PROVE  LET m == NotNowCall(l, p, t).lease
           IN  Moved(l, m, t, {}) /\ m.phase # "HandingOver"
  <1> DEFINE c == Ticked(l, t)
             d == CancelInto(c, p)
  <1>0. p \in Party /\ p # Person
    BY Ranks, PersonAssumption
  <1>1. /\ IsCall(c) /\ Moved(l, c.lease, t, {}) /\ Steady(c.lease, t)
        /\ c.lease.phase # "HandingOver"
    BY TickedMoves
  <1>2. NotNowCall(l, p, t) = [d EXCEPT !.refusal = "NotNow"]
    BY DEF NotNowCall
  <1> HIDE DEF c
  <1>3. /\ IsCall(d) /\ Moved(c.lease, d.lease, t, {})
        /\ d.lease.phase # "HandingOver"
    BY <1>0, <1>1, CancelIntoMoves
  <1> HIDE DEF d
  <1>4. NotNowCall(l, p, t).lease = d.lease
    BY <1>2, <1>3 DEF IsCall
  <1> QED  BY <1>1, <1>3, <1>4 DEF Moved

\* Board::yield_to: the person gives the session up; when there was nobody to
\* yield to, it is only a look at the lease.
LEMMA YieldCallFacts ==
    ASSUME NEW l, NEW t \in Nat, Steady(l, t), NEW p \in Agents
    PROVE  LET y == YieldCall(l, p, t)
           IN  /\ Steady(y.lease, t) /\ y.lease.phase # "HandingOver"
               /\ Waiting(y.lease) \subseteq Waiting(l)
               /\ y.refusal # None => Moved(l, y.lease, t, {})
  <1> DEFINE c == Ticked(l, t)
             n == Promote(c.lease, p)
             d == [c EXCEPT !.lease = n]
             e == CancelInto(d, Person)
             f == LetGoInto(e, Person, t)
             g == ConfirmInto(f, t)
  <1>0. p \in Party /\ Person \in Party
    BY Ranks, PersonAssumption
  <1>1. /\ IsCall(c) /\ c.refusal = None /\ Moved(l, c.lease, t, {})
        /\ Steady(c.lease, t) /\ c.lease.phase # "HandingOver"
    BY TickedMoves
  <1>2. YieldCall(l, p, t) = IF p \notin Waiting(c.lease)
                             THEN [c EXCEPT !.refusal = "Held"] ELSE g
    BY DEF YieldCall
  <1> HIDE DEF c
  <1>3. CASE p \notin Waiting(c.lease)
    <2>1. YieldCall(l, p, t).lease = c.lease
      BY <1>1, <1>2, <1>3 DEF IsCall
    <2> QED  BY <1>1, <2>1 DEF Moved
  <1>4. CASE p \in Waiting(c.lease)
    <2>1. Moved(c.lease, n, t, {})
      BY <1>0, <1>1, PromoteMoves
    <2> HIDE DEF n
    <2>2. IsCall(d) /\ d.lease = n /\ d.refusal = None
      BY <1>1 DEF IsCall
    <2> HIDE DEF d
    <2>3. Steady(d.lease, t) /\ Waiting(d.lease) \subseteq Waiting(l)
      BY <1>1, <2>1, <2>2 DEF Moved
    <2>4. /\ IsCall(e) /\ e.refusal = None /\ Steady(e.lease, t)
          /\ Waiting(e.lease) \subseteq Waiting(l)
      BY <1>0, <2>2, <2>3, CancelIntoMoves
    <2> HIDE DEF e
    <2>5. /\ IsCall(f) /\ f.refusal = None /\ Steady(f.lease, t)
          /\ Waiting(f.lease) \subseteq Waiting(l)
      BY <1>0, <2>4, LetGoIntoMoves
    <2> HIDE DEF f
    <2>6. /\ g.refusal = None /\ Moved(f.lease, g.lease, t, {})
          /\ g.lease.phase # "HandingOver"
      BY <2>5, ConfirmIntoMoves
    <2> HIDE DEF g
    <2>7. YieldCall(l, p, t) = g
      BY <1>2, <1>4
    <2> QED  BY <2>5, <2>6, <2>7 DEF Moved
  <1> QED  BY <1>3, <1>4

----------------------------------------------------------------------------
(* The board. *)

\* A session between two calls, last used by the person at u.
Fine(l, t, u) ==
    /\ Steady(l, t)
    /\ l.phase # "HandingOver"
    /\ u # None => u <= t
    /\ Recent(t, u) => Keeps(l, u)

SessionsFine == \A s \in Session : Fine(leases[s], now, touched[s])

BoardInv == BoardTypeOK /\ SessionsFine

\* A move leaves a session as fine as it was.
LEMMA FineMoved ==
    ASSUME NEW l, NEW t \in Nat, NEW u \in Nat \cup {None}, Fine(l, t, u),
           NEW m, NEW N, Moved(l, m, t, N), m.phase # "HandingOver"
    PROVE  Fine(m, t, u)
  BY DEF Fine, Moved, Recent

\* A fresh board.
LEMMA NewLeaseFine ==
    ASSUME NEW t \in Nat
    PROVE  /\ Fine(NewLease, t, None)
           /\ Waiting(NewLease) = {}
  <1>1. /\ NewLease.forceUntil = None /\ NewLease.holder.party = None
        /\ NewLease.phase = "Unheld" /\ NewLease.pending.party = None
        /\ NewLease.queue = << >>
    BY DEF NewLease, NoHolder, NoPending
  <1>2. Waiting(NewLease) = {}
    BY <1>1 DEF Waiting
  <1>3. Sound(NewLease, t)
    BY 0 <= t, NewLeaseSound, SoundLater
  <1> QED  BY <1>1, <1>2, <1>3 DEF Fine, Steady, Recent

\* Taking the requests that are shown out of a session's line, after the tick
\* of the first of them.
LEMMA DroppedTicked ==
    ASSUME NEW s \in Session, Steady(leases[s], now), now \in Nat,
           leases[s].phase # "HandingOver"
    PROVE  LET m == IF Asking(s) = {} THEN leases[s]
                    ELSE Dropped(Ticked(leases[s], now).lease, Asking(s))
           IN  Moved(leases[s], m, now, {}) /\ m.phase # "HandingOver"
  <1> DEFINE c == Ticked(leases[s], now).lease
             d == Dropped(c, Asking(s))
  <1>1. /\ Moved(leases[s], c, now, {}) /\ Steady(c, now)
        /\ c.phase # "HandingOver"
    BY TickedMoves
  <1>2. Asking(s) \in SUBSET Agents
    BY DEF Asking
  <1> HIDE DEF c
  <1>3. Moved(c, d, now, {}) /\ d.phase # "HandingOver"
    BY <1>1, <1>2, DroppedMoves
  <1> HIDE DEF d
  <1>4. Moved(leases[s], d, now, {})
    BY <1>1, <1>3 DEF Moved
  <1>5. Moved(leases[s], leases[s], now, {})
    BY DEF Moved
  <1> QED  BY <1>3, <1>4, <1>5 DEF c, d

\* The board starts with fresh leases and nothing said.
LEMMA BoardInitInv == BoardInit => BoardInv
  <1> SUFFICES ASSUME BoardInit  PROVE BoardInv
    OBVIOUS
  <1>4. SessionsFine
    BY NewLeaseFine DEF BoardInit, SessionsFine
  <1>5. leases \in [Session -> LeaseRecord]
    BY NewLeaseSound DEF BoardInit, Sound
  <1>6. mute \in [until : {"None", "At", "PersonIdle"}, at : Nat]
    BY DEF BoardInit, NoMute
  <1>7. declined \in [Session \X Agents -> Nat \cup {None}]
    BY DEF BoardInit
  <1> QED  BY <1>4, <1>5, <1>6, <1>7 DEF BoardInit, BoardInv, BoardTypeOK

\* An action on one session that leaves it fine, and the others alone.
LEMMA KeepInv ==
    ASSUME BoardInv, NEW s \in Session, NEW m,
           leases' = [leases EXCEPT ![s] = m], now' = now,
           touched' \in [Session -> Nat \cup {None}],
           \A r \in Session \ {s} : touched'[r] = touched[r],
           Fine(m, now, touched'[s])
    PROVE  SessionsFine' /\ leases' \in [Session -> LeaseRecord]
  <1>1. /\ leases \in [Session -> LeaseRecord] /\ now \in Nat
        /\ \A r \in Session : Fine(leases[r], now, touched[r])
    BY DEF BoardInv, BoardTypeOK, SessionsFine
  <1>2. m \in LeaseRecord
    BY <1>1, SteadyParties DEF Fine
  <1>3. SessionsFine'
    BY <1>1 DEF SessionsFine
  <1> QED  BY <1>1, <1>2, <1>3

\* A move of one session, by a call that has nothing to do with the person.
LEMMA KeepMoves ==
    ASSUME BoardInv, NEW s \in Session, NEW m, NEW N,
           Moved(leases[s], m, now, N), m.phase # "HandingOver",
           leases' = [leases EXCEPT ![s] = m], now' = now,
           UNCHANGED touched
    PROVE  SessionsFine' /\ leases' \in [Session -> LeaseRecord]
  <1>1. /\ now \in Nat /\ touched \in [Session -> Nat \cup {None}]
        /\ Fine(leases[s], now, touched[s])
    BY DEF BoardInv, BoardTypeOK, SessionsFine
  <1>2. Fine(m, now, touched[s])
    BY <1>1, FineMoved
  <1> QED  BY <1>1, <1>2, KeepInv

\* A move of every session.
LEMMA AllMove ==
    ASSUME BoardInv, leases' = [s \in Session |-> leases'[s]], now' = now,
           UNCHANGED touched,
           \A s \in Session : /\ Moved(leases[s], leases'[s], now, {})
                              /\ leases'[s].phase # "HandingOver"
    PROVE  SessionsFine' /\ leases' \in [Session -> LeaseRecord]
  <1>1. /\ now \in Nat /\ touched \in [Session -> Nat \cup {None}]
        /\ \A s \in Session : Fine(leases[s], now, touched[s])
    BY DEF BoardInv, BoardTypeOK, SessionsFine
  <1>2. \A s \in Session : Fine(leases'[s], now, touched[s])
    BY <1>1, FineMoved
  <1>3. \A s \in Session : leases'[s] \in LeaseRecord
    BY <1>1, <1>2, SteadyParties DEF Fine
  <1> QED  BY <1>2, <1>3 DEF SessionsFine

\* Every call of the board, every command of the viewer and the passing of
\* time keep the invariant.
LEMMA BoardStepInv == BoardInv /\ [BoardNext]_boardVars => BoardInv'
  <1> SUFFICES ASSUME BoardInv, [BoardNext]_boardVars  PROVE BoardInv'
    OBVIOUS
  <1> USE DEF Keep
  <1>0. /\ now \in Nat /\ touched \in [Session -> Nat \cup {None}]
        /\ leases \in [Session -> LeaseRecord]
        /\ mute \in [until : {"None", "At", "PersonIdle"}, at : Nat]
        /\ declined \in [Session \X Agents -> Nat \cup {None}]
        /\ \A s \in Session : Fine(leases[s], now, touched[s])
        /\ \A s \in Session : /\ Steady(leases[s], now)
                              /\ leases[s].phase # "HandingOver"
    BY DEF BoardInv, BoardTypeOK, SessionsFine, Fine
  <1>1. CASE TimePasses
    <2>1. \A s \in Session : Fine(leases[s], now + 1, touched[s])
      <3> TAKE s \in Session
      <3>1. Fine(leases[s], now, touched[s]) /\ touched[s] \in Nat \cup {None}
        BY <1>0
      <3>2. Sound(leases[s], now + 1)
        BY <1>0, <3>1, now <= now + 1, SoundLater DEF Fine, Steady
      <3>3. Recent(now + 1, touched[s]) => Recent(now, touched[s])
        BY <1>0, <3>1, PolicyAssumption DEF Recent
      <3> QED  BY <1>0, <3>1, <3>2, <3>3 DEF Fine, Steady
    <2> QED  BY <1>0, <1>1, <2>1 DEF TimePasses, Ticking, BoardInv, BoardTypeOK, SessionsFine
  <1>2. ASSUME NEW s \in Session, NEW p \in Agents, AskFor(s, p)
        PROVE  BoardInv'
    <2> DEFINE g == Gate([leases EXCEPT ![s] = Ticked(@, now).lease], s, p, now)
    <2>1. /\ leases' = [leases EXCEPT ![s] = AskCall(leases[s], p, g, now).lease]
          /\ UNCHANGED <<now, mute, declined, touched>>
      BY <1>2 DEF AskFor
    <2> HIDE DEF g
    <2>2. /\ Moved(leases[s], AskCall(leases[s], p, g, now).lease, now, {p})
          /\ AskCall(leases[s], p, g, now).lease.phase # "HandingOver"
      BY <1>0, AskCallMoves
    <2>3. SessionsFine' /\ leases' \in [Session -> LeaseRecord]
      BY <2>1, <2>2, KeepMoves
    <2> QED  BY <1>0, <2>1, <2>3 DEF BoardInv, BoardTypeOK
  <1>3. ASSUME NEW s \in Session, NEW p \in Agents, AgentLetsGo(s, p)
        PROVE  BoardInv'
    <2>1. /\ leases' = [leases EXCEPT ![s] = ReleaseCall(leases[s], p, now).lease]
          /\ UNCHANGED <<now, mute, declined, touched>>
      BY <1>3 DEF AgentLetsGo
    <2>2. /\ Moved(leases[s], ReleaseCall(leases[s], p, now).lease, now, {})
          /\ ReleaseCall(leases[s], p, now).lease.phase # "HandingOver"
      BY <1>0, ReleaseCallMoves
    <2>3. SessionsFine' /\ leases' \in [Session -> LeaseRecord]
      BY <2>1, <2>2, KeepMoves
    <2> QED  BY <1>0, <2>1, <2>3 DEF BoardInv, BoardTypeOK
  <1>4. ASSUME NEW s \in Session, NEW p \in Agents, AgentInput(s, p)
        PROVE  BoardInv'
    <2>1. /\ leases' = [leases EXCEPT ![s] = InputCall(leases[s], p, now).lease]
          /\ UNCHANGED <<now, mute, declined, touched>>
      BY <1>4 DEF AgentInput
    <2>2. /\ Moved(leases[s], InputCall(leases[s], p, now).lease, now, {})
          /\ InputCall(leases[s], p, now).lease.phase # "HandingOver"
      BY <1>0, InputCallMoves
    <2>3. SessionsFine' /\ leases' \in [Session -> LeaseRecord]
      BY <2>1, <2>2, KeepMoves
    <2> QED  BY <1>0, <2>1, <2>3 DEF BoardInv, BoardTypeOK
  <1>5. ASSUME NEW s \in Session, NEW p \in Agents, YieldTo(s, p)
        PROVE  BoardInv'
    <2> DEFINE y == YieldCall(leases[s], p, now)
    <2>1. /\ leases' = [leases EXCEPT ![s] = y.lease]
          /\ touched' = [touched EXCEPT ![s] =
                           IF y.refusal = None THEN None ELSE @]
          /\ UNCHANGED <<now, mute, declined>>
      BY <1>5 DEF YieldTo
    <2>2. /\ Steady(y.lease, now) /\ y.lease.phase # "HandingOver"
          /\ y.refusal # None => Moved(leases[s], y.lease, now, {})
      BY <1>0, YieldCallFacts
    <2> HIDE DEF y
    <2>3. /\ touched' \in [Session -> Nat \cup {None}]
          /\ \A r \in Session \ {s} : touched'[r] = touched[r]
          /\ touched'[s] = IF y.refusal = None THEN None ELSE touched[s]
      BY <1>0, <2>1
    <2>4. Fine(y.lease, now, touched'[s])
      <3>1. CASE y.refusal = None
        BY <2>2, <2>3, <3>1 DEF Fine, Recent
      <3>2. CASE y.refusal # None
        BY <1>0, <2>2, <2>3, <3>2, FineMoved
      <3> QED  BY <3>1, <3>2
    <2>5. SessionsFine' /\ leases' \in [Session -> LeaseRecord]
      BY <2>1, <2>3, <2>4, KeepInv
    <2> QED  BY <1>0, <2>1, <2>3, <2>5 DEF BoardInv, BoardTypeOK
  <1>6. ASSUME NEW s \in Session, NEW p \in Agents, SayNotNow(s, p)
        PROVE  BoardInv'
    <2>1. /\ leases' = [leases EXCEPT ![s] = NotNowCall(leases[s], p, now).lease]
          /\ declined' = [declined EXCEPT ![<<s, p>>] = now + NotNow]
          /\ UNCHANGED <<now, mute, touched>>
      BY <1>6 DEF SayNotNow
    <2>2. /\ Moved(leases[s], NotNowCall(leases[s], p, now).lease, now, {})
          /\ NotNowCall(leases[s], p, now).lease.phase # "HandingOver"
      BY <1>0, NotNowCallMoves
    <2>3. SessionsFine' /\ leases' \in [Session -> LeaseRecord]
      BY <2>1, <2>2, KeepMoves
    <2>4. declined' \in [Session \X Agents -> Nat \cup {None}]
      BY <1>0, <2>1, PersonAssumption
    <2> QED  BY <1>0, <2>1, <2>3, <2>4 DEF BoardInv, BoardTypeOK
  <1>7. ASSUME NEW s \in Session, PersonInput(s)
        PROVE  BoardInv'
    <2> DEFINE m == PersonInputCall(leases[s], now).lease
    <2>1. /\ leases' = [leases EXCEPT ![s] = m]
          /\ touched' = [touched EXCEPT ![s] = now]
          /\ UNCHANGED <<now, mute, declined>>
      BY <1>7 DEF PersonInput
    <2>2. Steady(m, now) /\ m.phase # "HandingOver" /\ Keeps(m, now)
      BY <1>0, PersonInputFacts
    <2> HIDE DEF m
    <2>3. /\ touched' \in [Session -> Nat \cup {None}] /\ touched'[s] = now
          /\ \A r \in Session \ {s} : touched'[r] = touched[r]
      BY <1>0, <2>1
    <2>4. Fine(m, now, touched'[s])
      BY <1>0, <2>2, <2>3 DEF Fine
    <2>5. SessionsFine' /\ leases' \in [Session -> LeaseRecord]
      BY <2>1, <2>3, <2>4, KeepInv
    <2> QED  BY <1>0, <2>1, <2>3, <2>5 DEF BoardInv, BoardTypeOK
  <1>8. ASSUME NEW s \in Session, ReadStatus(s)
        PROVE  BoardInv'
    <2>1. /\ leases' = [leases EXCEPT ![s] = Ticked(leases[s], now).lease]
          /\ UNCHANGED <<now, mute, declined, touched>>
      BY <1>8 DEF ReadStatus
    <2>2. /\ Moved(leases[s], Ticked(leases[s], now).lease, now, {})
          /\ Ticked(leases[s], now).lease.phase # "HandingOver"
      BY <1>0, TickedMoves
    <2>3. SessionsFine' /\ leases' \in [Session -> LeaseRecord]
      BY <2>1, <2>2, KeepMoves
    <2> QED  BY <1>0, <2>1, <2>3 DEF BoardInv, BoardTypeOK
  <1>9. ASSUME NEW s \in Session, Remove(s)
        PROVE  BoardInv'
    <2>1. /\ leases' = [leases EXCEPT ![s] = NewLease]
          /\ touched' = [touched EXCEPT ![s] = None]
          /\ UNCHANGED <<now, mute, declined>>
      BY <1>9 DEF Remove
    <2>2. /\ touched' \in [Session -> Nat \cup {None}] /\ touched'[s] = None
          /\ \A r \in Session \ {s} : touched'[r] = touched[r]
      BY <1>0, <2>1
    <2>3. Fine(NewLease, now, None)
      BY <1>0, NewLeaseFine
    <2>4. SessionsFine' /\ leases' \in [Session -> LeaseRecord]
      BY <2>1, <2>2, <2>3, KeepInv
    <2> QED  BY <1>0, <2>1, <2>2, <2>4 DEF BoardInv, BoardTypeOK
  <1>10. CASE SayNotNowToAll
    <2>1. /\ leases' = [s \in Session |->
                          IF Asking(s) = {} THEN leases[s]
                          ELSE Dropped(Ticked(leases[s], now).lease, Asking(s))]
          /\ declined' = [r \in Session \X Agents |->
                            IF r \in Requests(leases) THEN now + NotNow
                            ELSE declined[r]]
          /\ UNCHANGED <<now, mute, touched>>
      BY <1>10 DEF SayNotNowToAll
    <2>2. \A s \in Session : /\ Moved(leases[s], leases'[s], now, {})
                             /\ leases'[s].phase # "HandingOver"
      BY <1>0, <2>1, DroppedTicked
    <2>3. SessionsFine' /\ leases' \in [Session -> LeaseRecord]
      BY <2>1, <2>2, AllMove
    <2>4. declined' \in [Session \X Agents -> Nat \cup {None}]
      BY <1>0, <2>1, PersonAssumption
    <2> QED  BY <1>0, <2>1, <2>3, <2>4 DEF BoardInv, BoardTypeOK
  <1>11. ASSUME NEW until, Mute(until),
                until \in [until : {"None", "At", "PersonIdle"}, at : Nat]
         PROVE  BoardInv'
    <2>1. /\ leases' = [s \in Session |-> Dropped(leases[s], Asking(s))]
          /\ mute' = until
          /\ UNCHANGED <<now, declined, touched>>
      BY <1>11 DEF Mute
    <2>2. \A s \in Session : /\ Moved(leases[s], leases'[s], now, {})
                             /\ leases'[s].phase # "HandingOver"
      <3> TAKE s \in Session
      <3>1. Asking(s) \in SUBSET Agents
        BY DEF Asking
      <3> QED  BY <1>0, <2>1, <3>1, DroppedMoves
    <2>3. SessionsFine' /\ leases' \in [Session -> LeaseRecord]
      BY <2>1, <2>2, AllMove
    <2> QED  BY <1>0, <1>11, <2>1, <2>3 DEF BoardInv, BoardTypeOK
  <1>12. CASE Unmute
    BY <1>0, <1>12 DEF Unmute, NoMute, BoardInv, BoardTypeOK, SessionsFine
  <1>13. ASSUME NEW p \in Agents, ForgetParty(p)
         PROVE  BoardInv'
    <2>1. /\ leases' = [s \in Session |-> ReleaseCall(leases[s], p, now).lease]
          /\ UNCHANGED <<now, mute, declined, touched>>
      BY <1>13 DEF ForgetParty
    <2>2. \A s \in Session : /\ Moved(leases[s], leases'[s], now, {})
                             /\ leases'[s].phase # "HandingOver"
      BY <1>0, <2>1, ReleaseCallMoves
    <2>3. SessionsFine' /\ leases' \in [Session -> LeaseRecord]
      BY <2>1, <2>2, AllMove
    <2> QED  BY <1>0, <2>1, <2>3 DEF BoardInv, BoardTypeOK
  <1>14. CASE TickAll
    <2>1. /\ leases' = [s \in Session |-> Ticked(leases[s], now).lease]
          /\ declined' = [r \in Session \X Agents |->
                            IF Declined(r[1], r[2], now) THEN declined[r]
                            ELSE None]
          /\ mute' \in {mute, NoMute}
          /\ UNCHANGED <<now, touched>>
      BY <1>14 DEF TickAll
    <2>2. \A s \in Session : /\ Moved(leases[s], leases'[s], now, {})
                             /\ leases'[s].phase # "HandingOver"
      BY <1>0, <2>1, TickedMoves
    <2>3. SessionsFine' /\ leases' \in [Session -> LeaseRecord]
      BY <2>1, <2>2, AllMove
    <2>4. /\ declined' \in [Session \X Agents -> Nat \cup {None}]
          /\ mute' \in [until : {"None", "At", "PersonIdle"}, at : Nat]
      BY <1>0, <2>1 DEF NoMute
    <2> QED  BY <1>0, <2>1, <2>3, <2>4 DEF BoardInv, BoardTypeOK
  <1>15. CASE UNCHANGED boardVars
    BY <1>15 DEF boardVars, BoardInv, BoardTypeOK, SessionsFine
  <1>16. PersonIdleMute \in [until : {"None", "At", "PersonIdle"}, at : Nat]
    BY DEF PersonIdleMute
  <1>17. \A t \in MuteFor :
             MuteAt(now + t) \in [until : {"None", "At", "PersonIdle"}, at : Nat]
    BY <1>0, MuteAssumption DEF MuteAt
  <1> QED
    BY <1>1, <1>2, <1>3, <1>4, <1>5, <1>6, <1>7, <1>8, <1>9, <1>10, <1>11,
       <1>12, <1>13, <1>14, <1>15, <1>16, <1>17 DEF BoardNext

\* The invariant holds in every reachable state of the board.
THEOREM BoardInvariance == BoardSpec => []BoardInv
  BY BoardInitInv, BoardStepInv, PTL DEF BoardSpec

\* Type correctness of the board.
THEOREM BoardTypeCorrect == BoardSpec => []BoardTypeOK
  <1>1. BoardInv => BoardTypeOK
    BY DEF BoardInv
  <1> QED  BY <1>1, BoardInvariance, PTL

\* Whatever chain of lease calls a call of the board is, what it grants it
\* also confirms.
THEOREM HandoversAreComplete == BoardSpec => []HandoversComplete
  <1>1. BoardInv => HandoversComplete
    BY DEF BoardInv, SessionsFine, Fine, HandoversComplete
  <1> QED  BY <1>1, BoardInvariance, PTL

\* A person outranks every agent: no agent dispatches on a session that the
\* person used less than the person idle time ago and has not yielded.
THEOREM PersonIsSafe == BoardSpec => []PersonKeepsTheWheel
  <1>1. BoardInv => PersonKeepsTheWheel
    <2> SUFFICES ASSUME BoardInv, NEW s \in Session, touched[s] # None,
                        now < touched[s] + PersonIdle,
                        NEW p \in Dispatchers(leases[s])
                 PROVE  p = Person
      BY DEF PersonKeepsTheWheel
    <2>1. /\ Steady(leases[s], now) /\ now \in Nat
          /\ Keeps(leases[s], touched[s])
      BY DEF BoardInv, BoardTypeOK, SessionsFine, Fine, Recent
    <2>2. leases[s].holder.party = p /\ leases[s].phase = "Held"
      BY DEF Dispatchers, MayDispatch
    <2>3. leases[s].pending.party # Person
      BY <2>1, <2>2, SteadyParties
    <2> QED  BY <2>1, <2>2, <2>3 DEF Keeps
  <1> QED  BY <1>1, BoardInvariance, PTL

\* Only Board::ask brings an agent into line, and it asks the gate first.
LEMMA LineGrows ==
    ASSUME BoardInv, BoardNext, NEW s \in Session, NEW p \in Agents,
           p \notin Waiting(leases[s]), p \in Waiting(leases'[s])
    PROVE  AskFor(s, p)
  <1> USE DEF Keep
  <1>0. /\ now \in Nat /\ leases \in [Session -> LeaseRecord]
        /\ \A r \in Session : /\ Steady(leases[r], now)
                              /\ leases[r].phase # "HandingOver"
    BY DEF BoardInv, BoardTypeOK, SessionsFine, Fine
  <1>1. CASE TimePasses \/ Unmute
    BY <1>1 DEF TimePasses, Ticking, Unmute
  <1>2. ASSUME NEW r \in Session, NEW m, leases' = [leases EXCEPT ![r] = m]
        PROVE  r = s /\ leases'[s] = m
    BY <1>0, <1>2
  <1>3. ASSUME NEW r \in Session, NEW q \in Agents, AskFor(r, q)
        PROVE  AskFor(s, p)
    <2> DEFINE g == Gate([leases EXCEPT ![r] = Ticked(@, now).lease], r, q, now)
               m == AskCall(leases[r], q, g, now).lease
    <2>1. leases' = [leases EXCEPT ![r] = m]
      BY <1>3 DEF AskFor
    <2>2. Waiting(m) \subseteq Waiting(leases[r]) \cup {q}
      <3> HIDE DEF g
      <3> QED  BY <1>0, AskCallMoves DEF Moved
    <2> HIDE DEF m
    <2>3. r = s /\ q = p
      BY <1>2, <2>1, <2>2
    <2> QED  BY <1>3, <2>3
  <1>4. ASSUME NEW r \in Session, NEW q \in Agents, AgentLetsGo(r, q)
        PROVE  FALSE
    BY <1>0, <1>2, <1>4, ReleaseCallMoves DEF AgentLetsGo, Moved
  <1>5. ASSUME NEW r \in Session, NEW q \in Agents, AgentInput(r, q)
        PROVE  FALSE
    BY <1>0, <1>2, <1>5, InputCallMoves DEF AgentInput, Moved
  <1>6. ASSUME NEW r \in Session, NEW q \in Agents, YieldTo(r, q)
        PROVE  FALSE
    BY <1>0, <1>2, <1>6, YieldCallFacts DEF YieldTo
  <1>7. ASSUME NEW r \in Session, NEW q \in Agents, SayNotNow(r, q)
        PROVE  FALSE
    BY <1>0, <1>2, <1>7, NotNowCallMoves DEF SayNotNow, Moved
  <1>8. ASSUME NEW r \in Session, PersonInput(r)
        PROVE  FALSE
    BY <1>0, <1>2, <1>8, PersonInputFacts DEF PersonInput
  <1>9. ASSUME NEW r \in Session, ReadStatus(r)
        PROVE  FALSE
    BY <1>0, <1>2, <1>9, TickedMoves DEF ReadStatus, Moved
  <1>10. ASSUME NEW r \in Session, Remove(r)
         PROVE  FALSE
    BY <1>0, <1>2, <1>10, NewLeaseFine DEF Remove
  <1>11. CASE SayNotNowToAll
    BY <1>0, <1>11, DroppedTicked DEF SayNotNowToAll, Moved
  <1>12. ASSUME NEW until, Mute(until)  PROVE FALSE
    <2>1. Asking(s) \in SUBSET Agents
      BY DEF Asking
    <2> QED  BY <1>0, <1>12, <2>1, DroppedMoves DEF Mute, Moved
  <1>13. ASSUME NEW q \in Agents, ForgetParty(q)  PROVE FALSE
    BY <1>0, <1>13, ReleaseCallMoves DEF ForgetParty, Moved
  <1>14. CASE TickAll
    BY <1>0, <1>14, TickedMoves DEF TickAll, Moved
  <1> QED
    BY <1>1, <1>3, <1>4, <1>5, <1>6, <1>7, <1>8, <1>9, <1>10, <1>11, <1>12,
       <1>13, <1>14 DEF BoardNext

\* A refusal lasts as long as a person has the session: the gate is read over
\* the board as the tick of the request left it, and still answers.
THEOREM RefusalsLast == BoardSpec => RefusedStayOut
  <1>1. BoardInv /\ [BoardNext]_boardVars =>
          [\A s \in Session, p \in Agents :
             /\ PersonHolds(leases[s]) /\ PersonHolds(leases'[s])
             /\ Muted(leases, now) \/ Declined(s, p, now)
             /\ p \notin Waiting(leases[s])
             => p \notin Waiting(leases'[s])]_boardVars
    <2> SUFFICES ASSUME BoardInv, BoardNext, NEW s \in Session, NEW p \in Agents,
                        PersonHolds(leases[s]), PersonHolds(leases'[s]),
                        Muted(leases, now) \/ Declined(s, p, now),
                        p \notin Waiting(leases[s]), p \in Waiting(leases'[s])
                 PROVE  FALSE
      OBVIOUS
    <2> DEFINE ticked == [leases EXCEPT ![s] = Ticked(leases[s], now).lease]
               g == Gate(ticked, s, p, now)
    <2>0. /\ now \in Nat /\ leases \in [Session -> LeaseRecord]
          /\ Steady(leases[s], now)
      BY DEF BoardInv, BoardTypeOK, SessionsFine, Fine
    <2>1. leases' = [leases EXCEPT ![s] = AskCall(leases[s], p, g, now).lease]
      BY LineGrows DEF AskFor, Keep
    <2>2. leases'[s] = AskCall(leases[s], p, g, now).lease
      BY <2>0, <2>1
    <2>3. PersonHolds(Ticked(leases[s], now).lease) /\ g = None
      <3> HIDE DEF g
      <3> QED  BY <2>0, <2>2, AskCallMoves
    <2>4. PersonHolds(ticked[s])
      BY <2>0, <2>3
    <2> HIDE DEF ticked
    <2>5. Muted(ticked, now) \/ Declined(s, p, now)
      <3>1. CASE Declined(s, p, now)
        BY <3>1
      <3>2. CASE Muted(leases, now)
        BY <2>4, <3>2 DEF Muted
      <3> QED  BY <3>1, <3>2
    <2>6. g # None
      <3>1. None \notin {"Muted", "NotNow"}
        BY PersonAssumption
      <3> QED  BY <2>5, <3>1 DEF Gate
    <2> QED  BY <2>3, <2>6
  <1> QED  BY <1>1, BoardInvariance, PTL DEF BoardSpec, RefusedStayOut

-----------------------------------------------------------------------------
(* The viewer.  What settle reads off an answer is enough: whenever the     *)
(* wheel has left an agent, the call says that something changed and that   *)
(* an agent left, whichever of its steps it was.                            *)

\* Ids are handed out in order: the holder's is an earlier one.
Numbered(l) ==
    /\ l.nextId >= 1
    /\ l.holder.party # None => l.holder.id >= 1 /\ l.holder.id < l.nextId

\* From l, a lease call with the result r never moves the wheel in silence, or
\* under the same id.
Tells(l, r) ==
    /\ Numbered(r.lease)
    /\ l.holder.party # None /\ r.lease.holder.party # l.holder.party =>
           r.outcome # "Unchanged" /\ r.lease.holder.id # l.holder.id

LEMMA SettleTells ==
    ASSUME NEW l \in LeaseRecord, Numbered(l), NEW t \in Nat
    PROVE  Tells(l, Settle(l, t))
  <1> DEFINE v == [l EXCEPT !.holder = NoHolder, !.pending = NoPending]
             w == [v EXCEPT !.queue = Tail(l.queue)]
  <1>1. /\ l.nextId \in Nat /\ v.nextId = l.nextId /\ w.nextId = l.nextId
        /\ l.holder.id \in Nat
    BY DEF LeaseRecord, HolderRecord
  <1>2. /\ v.holder = NoHolder /\ NoHolder.party = None /\ NoHolder.id = 0
    BY DEF LeaseRecord, NoHolder
  <1>3. ASSUME NEW x \in {v, w}, NEW p
        PROVE  /\ Grant(x, p, t).holder.id = l.nextId
               /\ Grant(x, p, t).nextId = l.nextId + 1
    BY <1>1 DEF Grant, LeaseRecord
  <1>4. CASE l.pending.party # None
    <2>1. /\ Settle(l, t).lease = Grant(v, l.pending.party, t)
          /\ Settle(l, t).outcome = "Granted"
      BY <1>4 DEF Settle, Done
    <2> HIDE DEF v, w
    <2> QED  BY <1>1, <1>3, <2>1 DEF Tells, Numbered
  <1>5. CASE l.pending.party = None /\ l.queue # << >>
    <2>1. /\ Settle(l, t).lease = Grant(w, Head(l.queue).party, t)
          /\ Settle(l, t).outcome = "Granted"
      BY <1>5 DEF Settle, Done
    <2> HIDE DEF v, w
    <2> QED  BY <1>1, <1>3, <2>1 DEF Tells, Numbered
  <1>6. CASE l.pending.party = None /\ l.queue = << >>
    <2>1. /\ Settle(l, t).lease = [v EXCEPT !.phase = "Unheld"]
          /\ Settle(l, t).outcome = "Unheld"
      BY <1>6 DEF Settle, Done
    <2>2. /\ Settle(l, t).lease.holder = NoHolder
          /\ Settle(l, t).lease.nextId = l.nextId
      BY <1>1, <1>2, <2>1 DEF LeaseRecord
    <2> HIDE DEF v, w
    <2> QED  BY <1>1, <1>2, <2>1, <2>2 DEF Tells, Numbered
  <1> QED  BY <1>4, <1>5, <1>6

\* A call that leaves the holder, but for its clocks, and the ids alone has
\* nothing to tell.
LEMMA SameTells ==
    ASSUME NEW l, Numbered(l), NEW r, r.lease.nextId = l.nextId,
           r.lease.holder.party = l.holder.party, r.lease.holder.id = l.holder.id
    PROVE  Tells(l, r)
  BY DEF Tells, Numbered

LEMMA TickTells ==
    ASSUME NEW l, NEW t \in Nat, Sound(l, t), Numbered(l)
    PROVE  Tells(l, Tick(l, t))
  <1> DEFINE m == SweptAt(l, t)
  <1>1. /\ Tick(l, t) = IF HolderDue(m, t) THEN Settle(m, t)
                        ELSE Done(m, "Unchanged", FALSE)
        /\ Sound(m, t) /\ m.holder = l.holder /\ m.nextId = l.nextId
    BY TickFacts
  <1> HIDE DEF m
  <1>2. m \in LeaseRecord /\ Numbered(m)
    BY <1>1 DEF Sound, Numbered
  <1>3. CASE HolderDue(m, t)
    BY <1>1, <1>2, <1>3, SettleTells DEF Tells
  <1>4. CASE ~HolderDue(m, t)
    <2>1. Tick(l, t).lease = m
      BY <1>1, <1>4 DEF Done
    <2> QED  BY <1>1, <2>1, SameTells
  <1> QED  BY <1>3, <1>4

LEMMA ConfirmTells ==
    ASSUME NEW l \in LeaseRecord, Numbered(l), NEW t \in Nat
    PROVE  Tells(l, ConfirmRelease(l, t))
  <1> DEFINE r == ConfirmRelease(l, t)
  <1>1. /\ r.lease.nextId = l.nextId
        /\ r.lease.holder.party = l.holder.party /\ r.lease.holder.id = l.holder.id
    BY DEF ConfirmRelease, Done, LeaseRecord, HolderRecord
  <1> HIDE DEF r
  <1> QED  BY <1>1, SameTells DEF r

LEMMA CancelTells ==
    ASSUME NEW l \in LeaseRecord, Numbered(l), NEW p
    PROVE  Tells(l, CancelWait(l, p))
  <1> DEFINE r == CancelWait(l, p)
  <1>1. r.lease.nextId = l.nextId /\ r.lease.holder = l.holder
    BY DEF CancelWait, Done, LeaseRecord
  <1> HIDE DEF r
  <1> QED  BY <1>1, SameTells DEF r

LEMMA ReleaseTells ==
    ASSUME NEW l \in LeaseRecord, Numbered(l), NEW p, NEW id, NEW t \in Nat
    PROVE  Tells(l, Release(l, p, id, t))
  <1>1. CASE l.holder.party = p /\ l.holder.id = id
    BY <1>1, SettleTells DEF Release
  <1>2. CASE ~(l.holder.party = p /\ l.holder.id = id)
    <2>1. Release(l, p, id, t).lease = l
      BY <1>2 DEF Release, Done
    <2> QED  BY <2>1, SameTells
  <1> QED  BY <1>1, <1>2

LEMMA QueueOrRefuseTells ==
    ASSUME NEW l \in LeaseRecord, Numbered(l), NEW p, NEW queue \in BOOLEAN, NEW t, NEW e
    PROVE  Tells(l, QueueOrRefuse(l, p, queue, t, e))
  <1> DEFINE r == QueueOrRefuse(l, p, queue, t, e)
             q == [l EXCEPT !.queue = Inserted(l.queue, Slot(l.queue, p),
                                               [party |-> p, queued |-> t]),
                            !.contendedSince = IF @ = None THEN t ELSE @]
  <1>1. q.nextId = l.nextId /\ q.holder = l.holder
    BY DEF LeaseRecord
  <1>2. r.lease \in {l, q}
    BY DEF QueueOrRefuse, Refused, Done
  <1> HIDE DEF r, q
  <1> QED  BY <1>1, <1>2, SameTells DEF r

LEMMA GrantTells ==
    ASSUME NEW l \in LeaseRecord, Numbered(l), NEW m \in LeaseRecord,
           m.nextId = l.nextId, NEW p, NEW t, NEW b
    PROVE  Tells(l, Done(Grant(m, p, t), "Granted", b))
  <1>1. /\ Grant(m, p, t).holder.id = l.nextId
        /\ Grant(m, p, t).nextId = l.nextId + 1
        /\ l.nextId \in Nat /\ l.holder.id \in Nat
    BY DEF Grant, LeaseRecord, HolderRecord
  <1> QED  BY <1>1 DEF Tells, Numbered, Done

LEMMA ContestTells ==
    ASSUME NEW l \in LeaseRecord, Numbered(l), NEW p, NEW queue \in BOOLEAN, NEW t
    PROVE  Tells(l, Contest(l, p, queue, t))
  <1> DEFINE r == Contest(l, p, queue, t)
             v == [l EXCEPT !.holder = NoHolder, !.pending = NoPending]
             s == [l EXCEPT !.pending = [party |-> p, deadline |-> t + PreemptGrace],
                            !.phase = "PreemptPending"]
  <1>1. s.nextId = l.nextId /\ s.holder = l.holder
    BY DEF LeaseRecord
  <1>2. v \in LeaseRecord /\ v.nextId = l.nextId
    <2>1. NoHolder \in HolderRecord /\ NoPending \in PendingRecord
      BY DEF NoHolder, NoPending, HolderRecord, PendingRecord
    <2> QED  BY <2>1 DEF LeaseRecord
  <1>3. \/ r = Done(Grant(l, p, t), "Granted", TRUE)
        \/ \E e \in {"Held", "MinHoldNotElapsed"} : r = QueueOrRefuse(l, p, queue, t, e)
        \/ r = Done(Grant(v, p, t), "Granted", TRUE)
        \/ r.lease = s
    BY DEF Contest, TakeOver, Done
  <1> HIDE DEF r, v, s
  <1>4. CASE r = Done(Grant(l, p, t), "Granted", TRUE)
    BY <1>4, GrantTells DEF r
  <1>5. CASE \E e \in {"Held", "MinHoldNotElapsed"} : r = QueueOrRefuse(l, p, queue, t, e)
    BY <1>5, QueueOrRefuseTells DEF r
  <1>6. CASE r = Done(Grant(v, p, t), "Granted", TRUE)
    BY <1>2, <1>6, GrantTells DEF r
  <1>7. CASE r.lease = s
    BY <1>1, <1>7, SameTells DEF r
  <1> QED  BY <1>3, <1>4, <1>5, <1>6, <1>7

LEMMA AcquireTells ==
    ASSUME NEW l \in LeaseRecord, Numbered(l), NEW p, NEW queue \in BOOLEAN, NEW t
    PROVE  Tells(l, Acquire(l, p, queue, t))
  <1> DEFINE r == Acquire(l, p, queue, t)
             a == [l EXCEPT !.forceUntil = None]
             n == [a EXCEPT !.holder.renew = t]
             f == [a EXCEPT !.queue[Position(l, p)].queued = t]
  <1>1. a \in LeaseRecord /\ a.nextId = l.nextId /\ a.holder = l.holder
    BY DEF LeaseRecord
  <1>2. /\ n.nextId = l.nextId /\ n.holder.party = l.holder.party
        /\ n.holder.id = l.holder.id /\ f.nextId = l.nextId /\ f.holder = l.holder
    BY DEF LeaseRecord, HolderRecord
  <1>3. \/ r.lease \in {l, a, n, f}
        \/ r = Done(Grant(a, p, t), "Granted", TRUE)
        \/ r = Contest(a, p, queue, t)
    BY DEF Acquire, Refused, Done
  <1> HIDE DEF r, a, n, f
  <1>4. CASE r.lease \in {l, a, n, f}
    BY <1>1, <1>2, <1>4, SameTells DEF r
  <1>5. CASE r = Done(Grant(a, p, t), "Granted", TRUE)
    BY <1>1, <1>5, GrantTells DEF r
  <1>6. CASE r = Contest(a, p, queue, t)
    <2>1. Numbered(a)
      BY <1>1 DEF Numbered
    <2>2. Tells(a, r)
      BY <1>1, <1>6, <2>1, ContestTells
    <2> QED  BY <1>1, <2>2 DEF Tells, r
  <1> QED  BY <1>3, <1>4, <1>5, <1>6

\* A refusal leaves the wheel where it is.
LEMMA RefusedHolder ==
    ASSUME NEW l \in LeaseRecord, NEW p, NEW queue \in BOOLEAN, NEW t,
           Acquire(l, p, queue, t).outcome \in Refusal
    PROVE  Acquire(l, p, queue, t).lease.holder.party = l.holder.party
  <1> DEFINE r == Acquire(l, p, queue, t)
             a == [l EXCEPT !.forceUntil = None]
             n == [a EXCEPT !.holder.renew = t]
             f == [a EXCEPT !.queue[Position(l, p)].queued = t]
  <1>1. a \in LeaseRecord /\ a.holder = l.holder
    BY DEF LeaseRecord
  <1>2. n.holder.party = l.holder.party /\ f.holder = l.holder
    BY DEF LeaseRecord, HolderRecord
  <1>3. \/ r.lease \in {l, a, n, f}
        \/ r = Done(Grant(a, p, t), "Granted", TRUE)
        \/ r = Contest(a, p, queue, t)
    BY DEF Acquire, Refused, Done
  <1> HIDE DEF a, n, f
  <1>4. ASSUME NEW m, NEW b, r = Done(m, "Granted", b)  PROVE FALSE
    BY <1>4 DEF Done, Refusal
  <1>5. CASE r = Contest(a, p, queue, t)
    <2> DEFINE v == [a EXCEPT !.holder = NoHolder, !.pending = NoPending]
               s == [a EXCEPT !.pending = [party |-> p, deadline |-> t + PreemptGrace],
                              !.phase = "PreemptPending"]
    <2>1. \/ r = Done(Grant(a, p, t), "Granted", TRUE)
          \/ \E e \in {"Held", "MinHoldNotElapsed"} : r = QueueOrRefuse(a, p, queue, t, e)
          \/ r = Done(Grant(v, p, t), "Granted", TRUE)
          \/ r.lease = s
      BY <1>5 DEF Contest, TakeOver, Done
    <2>2. s.holder = a.holder
      BY <1>1 DEF LeaseRecord
    <2>3. ASSUME NEW e, r = QueueOrRefuse(a, p, queue, t, e)
          PROVE  r.lease.holder = a.holder
      BY <1>1, <2>3 DEF QueueOrRefuse, Refused, Done, LeaseRecord
    <2> HIDE DEF v, s, r
    <2> QED  BY <1>1, <1>4, <2>1, <2>2, <2>3 DEF r
  <1> HIDE DEF r
  <1> QED  BY <1>1, <1>2, <1>3, <1>4, <1>5 DEF r

\* A call under construction, with the facts settle reads.
IsAnswer(c) ==
    /\ {"lease", "refusal", "changed", "fenced", "left"} \subseteq DOMAIN c
    /\ c.changed \in BOOLEAN /\ c.left \in BOOLEAN

\* A call that began at l owns up to an agent it has put off the wheel.
Reports(l, c) ==
    /\ IsAnswer(c)
    /\ Numbered(c.lease)
    /\ l.holder.party \in Agents /\ c.lease.holder.party # l.holder.party =>
           c.changed /\ c.left

LEMMA ThenReports ==
    ASSUME NEW l, NEW c, Reports(l, c), NEW r, Tells(c.lease, r)
    PROVE  Reports(l, Then(c, r))
  <1> DEFINE d == Then(c, r)
             moves == \/ r.lease.phase # c.lease.phase
                      \/ r.outcome # "Unchanged"
                      \/ Len(r.lease.queue) < Len(c.lease.queue)
             leaves == Departed(c.lease, r.lease) \in Agents
  <1>1. /\ {"lease", "refusal", "changed", "fenced", "left"} \subseteq DOMAIN d
        /\ d.lease = r.lease
        /\ d.changed = (c.changed \/ moves)
        /\ d.left = (c.left \/ leaves)
    BY DEF Reports, IsAnswer, Then
  <1>2. None \notin Agents
    BY PartyAssumption DEF Agents
  <1>3. ASSUME c.lease.holder.party \in Agents,
               r.lease.holder.party # c.lease.holder.party
        PROVE  moves /\ leaves
    BY <1>2, <1>3 DEF Tells, Departed
  <1> HIDE DEF d, moves, leaves
  <1>4. IsAnswer(d)
    BY <1>1 DEF Reports, IsAnswer
  <1>5. ASSUME l.holder.party \in Agents, d.lease.holder.party # l.holder.party
        PROVE  d.changed /\ d.left
    <2>1. CASE c.lease.holder.party # l.holder.party
      BY <1>1, <1>5, <2>1 DEF Reports
    <2>2. CASE c.lease.holder.party = l.holder.party
      BY <1>1, <1>3, <1>5, <2>2
    <2> QED  BY <2>1, <2>2
  <1> QED  BY <1>1, <1>4, <1>5 DEF Reports, Tells, d

LEMMA ConfirmIntoReports ==
    ASSUME NEW l, NEW c, Reports(l, c), c.lease \in LeaseRecord, NEW t \in Nat
    PROVE  Reports(l, ConfirmInto(c, t))
  <1>1. CASE c.lease.phase = "HandingOver"
    <2>1. Tells(c.lease, ConfirmRelease(c.lease, t))
      BY ConfirmTells DEF Reports
    <2> QED  BY <1>1, <2>1, ThenReports DEF ConfirmInto
  <1>2. CASE c.lease.phase # "HandingOver"
    BY <1>2 DEF ConfirmInto
  <1> QED  BY <1>1, <1>2

LEMMA TickedReports ==
    ASSUME NEW l, NEW t \in Nat, Steady(l, t), Numbered(l)
    PROVE  Reports(l, Ticked(l, t))
  <1> DEFINE b == Begin(l)
             d == Then(b, Tick(l, t))
  <1>1. b.lease = l /\ Reports(l, b) /\ IsCall(b)
    BY DEF Reports, IsAnswer, Begin, IsCall
  <1>2. Ticked(l, t) = ConfirmInto(d, t)
    BY <1>1 DEF Ticked, TickInto
  <1> HIDE DEF b
  <1>3. Reports(l, d) /\ d.lease = Tick(l, t).lease
    BY <1>1, TickTells, ThenReports, ThenFacts DEF Steady
  <1> HIDE DEF d
  <1>4. d.lease \in LeaseRecord
    BY <1>3, TickMoves, SteadyParties DEF Moved
  <1> QED  BY <1>2, <1>3, <1>4, ConfirmIntoReports

LEMMA AcquireIntoReports ==
    ASSUME NEW l, NEW c, Reports(l, c), NEW t \in Nat, Steady(c.lease, t),
           c.lease.phase # "HandingOver", NEW p \in Agents, NEW queue \in BOOLEAN
    PROVE  Reports(l, AcquireInto(c, p, queue, t))
  <1> DEFINE r == Acquire(c.lease, p, queue, t)
  <1>0. c.lease \in LeaseRecord /\ IsCall(c)
    BY SteadyParties DEF Reports, IsAnswer, IsCall
  <1>1. Tells(c.lease, r)
    BY <1>0, AcquireTells DEF Reports
  <1>2. Moved(c.lease, r.lease, t, IF queue THEN {p} ELSE {})
    BY AgentAcquireMoves
  <1>3. r.lease \in LeaseRecord
    BY <1>2, SteadyParties DEF Moved
  <1>4. CASE r.outcome \in Refusal
    <2>1. AcquireInto(c, p, queue, t) =
              [c EXCEPT !.lease = r.lease, !.refusal = r.outcome]
      BY <1>4 DEF AcquireInto, Try
    <2>2. r.lease.holder.party = c.lease.holder.party
      BY <1>0, <1>4, RefusedHolder
    <2> HIDE DEF r
    <2> QED  BY <1>1, <2>1, <2>2 DEF Reports, IsAnswer, Tells
  <1>5. CASE r.outcome \notin Refusal
    <2> DEFINE d == Then(c, r)
    <2>1. AcquireInto(c, p, queue, t) = ConfirmInto(d, t)
      BY <1>5 DEF AcquireInto
    <2> HIDE DEF r
    <2>2. Reports(l, d) /\ d.lease = r.lease
      BY <1>0, <1>1, ThenReports, ThenFacts
    <2> HIDE DEF d
    <2> QED  BY <1>3, <2>1, <2>2, ConfirmIntoReports
  <1> QED  BY <1>4, <1>5

LEMMA LetGoIntoReports ==
    ASSUME NEW l, NEW c, Reports(l, c), c.lease \in LeaseRecord, NEW p, NEW t \in Nat
    PROVE  Reports(l, LetGoInto(c, p, t))
  <1>1. Tells(c.lease, Release(c.lease, p, c.lease.holder.id, t))
    BY ReleaseTells DEF Reports
  <1> QED  BY <1>1, ThenReports DEF LetGoInto

LEMMA CancelIntoReports ==
    ASSUME NEW l, NEW c, Reports(l, c), c.lease \in LeaseRecord, NEW p
    PROVE  Reports(l, CancelInto(c, p))
  <1>1. Tells(c.lease, CancelWait(c.lease, p))
    BY CancelTells DEF Reports
  <1> QED  BY <1>1, ThenReports DEF CancelInto

\* Board::ask.
LEMMA AskCallReports ==
    ASSUME NEW l, NEW t \in Nat, Steady(l, t), Numbered(l), NEW p \in Agents
    PROVE  Reports(l, AskCall(l, p, None, t))
  <1> DEFINE c == Ticked(l, t)
  <1>1. /\ Steady(c.lease, t) /\ c.lease.phase # "HandingOver" /\ Reports(l, c)
    BY TickedMoves, TickedReports
  <1>2. AskCall(l, p, None, t) = AcquireInto(c, p, TRUE, t)
    BY DEF AskCall
  <1> HIDE DEF c
  <1> QED  BY <1>1, <1>2, AcquireIntoReports

\* Board::release.
LEMMA ReleaseCallReports ==
    ASSUME NEW l, NEW t \in Nat, Steady(l, t), Numbered(l), NEW p \in Agents
    PROVE  Reports(l, ReleaseCall(l, p, t))
  <1> DEFINE c == Ticked(l, t)
             d == LetGoInto(c, p, t)
             e == CancelInto(d, p)
  <1>0. p \in Party
    BY PersonAssumption DEF Agents
  <1>1. Steady(c.lease, t) /\ Reports(l, c) /\ IsCall(c)
    BY TickedMoves, TickedReports
  <1>2. ReleaseCall(l, p, t) = ConfirmInto(e, t)
    BY DEF ReleaseCall
  <1> HIDE DEF c
  <1>3. Steady(d.lease, t) /\ Reports(l, d) /\ IsCall(d)
    BY <1>0, <1>1, LetGoIntoMoves, LetGoIntoReports, SteadyParties
  <1> HIDE DEF d
  <1>4. Steady(e.lease, t) /\ Reports(l, e)
    BY <1>0, <1>3, CancelIntoMoves, CancelIntoReports, SteadyParties
  <1> HIDE DEF e
  <1> QED  BY <1>2, <1>4, ConfirmIntoReports, SteadyParties

\* Board::input, and that what it lets pass is the holder's.
LEMMA InputCallReports ==
    ASSUME NEW l, NEW t \in Nat, Steady(l, t), Numbered(l), NEW p \in Agents
    PROVE  LET d == InputCall(l, p, t)
           IN  Reports(l, d) /\ (d.refusal = None => d.lease.holder.party = p)
  <1> DEFINE c == Ticked(l, t)
             d == IF c.lease.phase = "Unheld" THEN AcquireInto(c, p, FALSE, t)
                  ELSE c
             n == NoteIntent(d.lease, p, t)
  <1>1. /\ IsCall(c) /\ Steady(c.lease, t) /\ Reports(l, c)
        /\ c.lease.phase # "HandingOver"
    BY TickedMoves, TickedReports
  <1>2. InputCall(l, p, t) =
            CASE d.refusal # None -> d
              [] d.refusal = None /\ MayDispatch(d.lease, p) ->
                     [d EXCEPT !.lease = n]
              [] OTHER -> [d EXCEPT !.refusal = "Held"]
    BY DEF InputCall
  <1> HIDE DEF c
  <1>3. Reports(l, d) /\ Steady(d.lease, t)
    <2>1. CASE c.lease.phase = "Unheld"
      BY <1>1, <2>1, AcquireIntoMoves, AcquireIntoReports DEF Moved
    <2>2. CASE c.lease.phase # "Unheld"
      BY <1>1, <2>2
    <2> QED  BY <2>1, <2>2
  <1> HIDE DEF d
  <1>4. d.lease \in LeaseRecord
    BY <1>3, SteadyParties
  <1>5. /\ n.holder.party = d.lease.holder.party /\ n.holder.id = d.lease.holder.id
        /\ n.nextId = d.lease.nextId
    BY <1>4 DEF NoteIntent, LeaseRecord, HolderRecord
  <1> HIDE DEF n
  <1>6. "Held" # None
    BY PersonAssumption DEF Refusal
  <1>7. CASE d.refusal # None
    BY <1>2, <1>3, <1>7
  <1>8. CASE d.refusal = None /\ MayDispatch(d.lease, p)
    <2>1. InputCall(l, p, t) = [d EXCEPT !.lease = n]
      BY <1>2, <1>8
    <2> QED  BY <1>3, <1>5, <1>8, <2>1 DEF Reports, IsAnswer, Numbered, MayDispatch
  <1>9. CASE d.refusal = None /\ ~MayDispatch(d.lease, p)
    <2>1. InputCall(l, p, t) = [d EXCEPT !.refusal = "Held"]
      BY <1>2, <1>9
    <2> QED  BY <1>3, <1>6, <2>1 DEF Reports, IsAnswer
  <1> QED  BY <1>7, <1>8, <1>9

\* Requests one at a time, with the person away: at most one is under way, it
\* sweeps before it sends, only the holder presses, and nobody but the holder
\* has a key down unless a release is on its way that will be first.
Turns ==
    LET holder == sessionLease.holder.party
    IN  /\ Numbered(sessionLease) /\ ~PersonIn(sessionLease)
        /\ doing[Person].at = "idle"
        /\ \A x \in Actor : doing[x].at # "parked"
        /\ \A x, y \in Actor : doing[x].at # "idle" /\ doing[y].at # "idle" => x = y
        /\ \A x \in Actor : doing[x].at = "settle" => chan = << >>
        /\ \A x \in Actor : doing[x].at # "idle" /\ doing[x].send.down =>
                                doing[x].send.by = holder
        /\ \A i \in DOMAIN chan : chan[i].down => chan[i].by = holder
        /\ \/ down \subseteq {holder}
           \/ chan # << >> /\ Head(chan) = ReleaseAllKeys
           \/ \E x \in Actor : doing[x].at = "settle" /\ doing[x].sweep

ViewerInv ==
    /\ ViewerTypeOK
    /\ Steady(sessionLease, now)
    /\ Calm => Turns

LEMMA ViewerFacts ==
    ASSUME scene \in Scenes
    PROVE  /\ Agents \subseteq Party /\ Person \in Party /\ Person \notin Agents
           /\ Ticker \notin Party /\ None \notin Party
           /\ Party \subseteq Actor /\ Ticker \in Actor
           /\ scene.agents \subseteq Agents /\ scene.capacity \in Nat /\ scene.capacity >= 1
  BY PartyAssumption, PersonAssumption, ViewerAssumption DEF Agents, Actor, Scene

LEMMA CommandFacts ==
    /\ ReleaseAllKeys \in Command /\ Nothing \in Command /\ ~ReleaseAllKeys.down
    /\ \A c \in Command : c # ReleaseAllKeys => c.by \in Party
    /\ Idle \in Request /\ Idle.at = "idle"
    /\ \A p \in Party, b \in BOOLEAN :
           /\ Key(p, b) \in Command /\ Key(p, b).by = p /\ Key(p, b).down = b
  <1>1. \A p, b : Key(p, b).by = p /\ Key(p, b).down = b
    BY DEF Key
  <1>2. ReleaseAllKeys \in Command /\ Nothing = ReleaseAllKeys
    BY DEF Command, Nothing
  <1>3. ~ReleaseAllKeys.down
    BY DEF ReleaseAllKeys
  <1>4. ASSUME NEW p \in Party, NEW b \in BOOLEAN  PROVE Key(p, b) \in Command
    BY DEF Command
  <1>5. ASSUME NEW c \in Command, c # ReleaseAllKeys  PROVE c.by \in Party
    <2>1. PICK p \in Party, b \in BOOLEAN : c = Key(p, b)
      BY <1>5 DEF Command
    <2> QED  BY <1>1, <2>1
  <1>6. Idle \in Request /\ Idle.at = "idle"
    BY <1>2 DEF Idle, Request
  <1> QED  BY <1>1, <1>2, <1>3, <1>4, <1>5, <1>6

LEMMA SteadyLater ==
    ASSUME NEW l, NEW t \in Nat, Steady(l, t)
    PROVE  Steady(l, t + 1)
  <1>1. Sound(l, t + 1)
    BY t <= t + 1, SoundLater DEF Steady
  <1> QED  BY <1>1 DEF Steady

\* The part of a request under the lock, of whoever it is.
LEMMA BoardCallTypes ==
    ASSUME ViewerTypeOK, NEW x \in Actor, NEW call, NEW send \in Command,
           BoardCall(x, call, send), Steady(call.lease, now)
    PROVE  (ViewerTypeOK /\ Steady(sessionLease, now))'
  <1>1. /\ sessionLease' = call.lease /\ UNCHANGED <<scene, now, chan, down>>
        /\ doing' = [doing EXCEPT ![x] = [at |-> "settle", sweep |-> OwesSweep(call),
                                          send |-> send]]
    BY DEF BoardCall
  <1>2. call.lease \in LeaseRecord
    BY SteadyParties DEF ViewerTypeOK
  <1>3. OwesSweep(call) \in BOOLEAN
    BY DEF OwesSweep
  <1>4. [at |-> "settle", sweep |-> OwesSweep(call), send |-> send] \in Request
    BY <1>3 DEF Request
  <1>5. doing' \in [Actor -> Request]
    BY <1>1, <1>4 DEF ViewerTypeOK
  <1> QED  BY <1>1, <1>2, <1>5 DEF ViewerTypeOK

\* A request that starts in its turn leaves nobody's key down but the holder's,
\* or owes the sweep.
LEMMA BoardCallTurns ==
    ASSUME ViewerTypeOK, Calm, Turns, NEW x \in Actor \ {Person}, MayStart(x),
           NEW call, NEW send, BoardCall(x, call, send), NEW N,
           Reports(sessionLease, call), Moved(sessionLease, call.lease, now, N),
           send.down => send.by = call.lease.holder.party
    PROVE  Turns'
  <1> DEFINE old == sessionLease.holder.party
             new == call.lease.holder.party
             r == [at |-> "settle", sweep |-> OwesSweep(call), send |-> send]
  <1>0. /\ None \notin Party /\ Person \in Party /\ Person \in Actor /\ down \subseteq Party
        /\ now \in Nat /\ doing \in [Actor -> Request]
    BY ViewerFacts DEF ViewerTypeOK
  <1>1. /\ sessionLease' = call.lease /\ UNCHANGED <<chan, down>>
        /\ doing' = [doing EXCEPT ![x] = r]
    BY DEF BoardCall
  <1>2. chan = << >> /\ \A y \in Actor : doing[y].at = "idle"
    BY DEF MayStart, Calm
  <1>3. \A y \in Actor : doing'[y] = IF y = x THEN r ELSE doing[y]
    BY <1>0, <1>1
  <1>4. /\ r.at = "settle" /\ r.sweep = OwesSweep(call) /\ r.send = send
    OBVIOUS
  <1>5. down \subseteq {old}
    BY <1>2 DEF Turns
  <1>6. Numbered(call.lease) /\ ~PersonIn(call.lease)
    BY DEF Turns, Reports, Moved
  <1>7. old \in Party \cup {None} /\ old # Person /\ new \in Party \cup {None} /\ new # Person
    BY <1>0, <1>6, SteadyParties DEF Turns, Moved, PersonIn, ViewerTypeOK, LeaseRecord, HolderRecord
  <1>8. down \subseteq {new} \/ OwesSweep(call)
    <2>1. CASE old = new
      BY <1>5, <2>1
    <2>2. CASE old = None
      BY <1>0, <1>5, <2>2
    <2>3. CASE old # new /\ old # None
      <3>1. old \in Agents
        BY <1>7, <2>3 DEF Agents
      <3>2. call.changed /\ call.left
        BY <2>3, <3>1 DEF Reports
      <3>3. new # None => ~IsPerson(new)
        BY <1>7, PersonAssumption DEF Agents
      <3> QED  BY <3>2, <3>3 DEF OwesSweep
    <2> QED  BY <2>1, <2>2, <2>3
  <1> HIDE DEF r, old
  <1>9. \A y \in Actor : doing'[y].at # "idle" => y = x
    BY <1>2, <1>3
  <1>10. /\ doing'[Person].at = "idle" /\ \A y \in Actor : doing'[y].at # "parked"
         /\ \A y \in Actor : doing'[y].at # "idle" /\ doing'[y].send.down =>
                                doing'[y].send.by = new
    BY <1>0, <1>2, <1>3, <1>4, <1>9
  <1>11. \/ down' \subseteq {new}
         \/ \E y \in Actor : doing'[y].at = "settle" /\ doing'[y].sweep
    BY <1>1, <1>3, <1>4, <1>8
  <1>12. \A i \in DOMAIN chan' : chan'[i].down => chan'[i].by = new
    BY <1>1, <1>2
  <1>13. chan' = << >>
    BY <1>1, <1>2
  <1> QED  BY <1>1, <1>6, <1>9, <1>10, <1>11, <1>12, <1>13 DEF Turns

LEMMA ViewerInitInv == ViewerInit => ViewerInv
  <1> SUFFICES ASSUME ViewerInit PROVE ViewerInv
    OBVIOUS
  <1>1. /\ scene \in Scenes /\ sessionLease = NewLease /\ now = 0
        /\ doing = [x \in Actor |-> Idle] /\ chan = << >> /\ down = {}
    BY DEF ViewerInit
  <1>2. Steady(NewLease, 0)
    BY NewLeaseFine DEF Fine
  <1>3. NewLease \in LeaseRecord
    BY <1>2, SteadyParties
  <1>4. scene.capacity \in Nat /\ scene.capacity >= 1 /\ Person \in Actor
    BY <1>1, ViewerFacts
  <1>5. ViewerTypeOK
    BY <1>1, <1>3, <1>4, CommandFacts DEF ViewerTypeOK
  <1>6. Numbered(NewLease) /\ ~PersonIn(NewLease)
    BY PersonAssumption, PartyAssumption
    DEF NewLease, NoHolder, NoPending, Numbered, PersonIn
  <1>7. Turns
    BY <1>1, <1>4, <1>6, CommandFacts DEF Turns
  <1> QED  BY <1>1, <1>2, <1>5, <1>7 DEF ViewerInv

\* A key going up needs no leave, and starts nothing that is owed.
LEMMA AgentLiftInv ==
    ASSUME ViewerInv, NEW p \in Agents, AgentLift(p)
    PROVE  ViewerInv'
  <1> DEFINE r == [at |-> "send", sweep |-> FALSE, send |-> Key(p, FALSE)]
  <1>1. /\ ViewerTypeOK /\ scene \in Scenes /\ doing \in [Actor -> Request]
        /\ doing' = [doing EXCEPT ![p] = r]
        /\ UNCHANGED <<scene, sessionLease, now, chan, down>>
    BY DEF ViewerTypeOK, ViewerInv, AgentLift
  <1>2. p \in Actor /\ p \in Party /\ p # Person /\ Person \in Actor
    BY <1>1, ViewerFacts
  <1>3. r \in Request /\ r.at = "send" /\ ~r.send.down
    BY <1>2, CommandFacts DEF Request
  <1> HIDE DEF r
  <1>4. doing' \in [Actor -> Request]
    BY <1>1, <1>3
  <1>5. ViewerTypeOK'
    BY <1>1, <1>4 DEF ViewerTypeOK
  <1>6. ASSUME Calm  PROVE Turns'
    <2>1. chan = << >> /\ \A y \in Actor : doing[y].at = "idle"
      BY <1>6 DEF AgentLift, MayStart, Calm
    <2>2. \A y \in Actor : doing'[y] = IF y = p THEN r ELSE doing[y]
      BY <1>1, <1>2
    <2>3. Turns
      BY <1>6 DEF ViewerInv
    <2>4. down \subseteq {sessionLease.holder.party}
      BY <2>1, <2>3 DEF Turns
    <2> QED  BY <1>1, <1>2, <1>3, <2>1, <2>2, <2>3, <2>4 DEF Turns
  <1> QED  BY <1>1, <1>5, <1>6 DEF ViewerInv, Calm

\* A request of an agent's, or of the ticker's, under the lock.
LEMMA AgentCallInv ==
    ASSUME ViewerInv, NEW x \in Actor \ {Person}, MayStart(x), NEW call,
           NEW send \in Command, BoardCall(x, call, send), NEW N,
           Moved(sessionLease, call.lease, now, N),
           Numbered(sessionLease) => /\ Reports(sessionLease, call)
                                     /\ send.down => send.by = call.lease.holder.party
    PROVE  ViewerInv'
  <1>1. ViewerTypeOK /\ scene' = scene
    BY DEF ViewerInv, BoardCall
  <1>2. Steady(call.lease, now)
    BY DEF Moved
  <1>3. (ViewerTypeOK /\ Steady(sessionLease, now))'
    BY <1>1, <1>2, BoardCallTypes
  <1>4. ASSUME Calm  PROVE Turns'
    <2>1. Turns /\ Numbered(sessionLease)
      BY <1>4 DEF ViewerInv, Turns
    <2> QED  BY <1>1, <1>4, <2>1, BoardCallTurns
  <1> QED  BY <1>1, <1>3, <1>4 DEF ViewerInv, Calm

\* A request of the person's under the lock: nobody is then in turn.
LEMMA PersonCallInv ==
    ASSUME ViewerInv, scene.personTypes, NEW call, NEW send \in Command,
           BoardCall(Person, call, send), Steady(call.lease, now)
    PROVE  ViewerInv'
  <1>1. ViewerTypeOK /\ scene' = scene /\ scene \in Scenes
    BY DEF ViewerInv, BoardCall, ViewerTypeOK
  <1>2. Person \in Actor
    BY <1>1, ViewerFacts
  <1>3. (ViewerTypeOK /\ Steady(sessionLease, now))'
    BY <1>1, <1>2, BoardCallTypes
  <1> QED  BY <1>1, <1>3 DEF ViewerInv, Calm

\* The sweep a request owes goes into an empty channel, ahead of its own command.
LEMMA SettleAnswerInv ==
    ASSUME ViewerInv, NEW x \in Actor, SettleAnswer(x)
    PROVE  ViewerInv'
  <1> DEFINE r == IF doing[x].send = Nothing THEN Idle
                  ELSE [doing[x] EXCEPT !.at = "send"]
  <1>1. /\ ViewerTypeOK /\ scene \in Scenes /\ doing \in [Actor -> Request]
        /\ chan \in Seq(Command) /\ Len(chan) <= scene.capacity
        /\ doing' = [doing EXCEPT ![x] = r] /\ doing[x].at = "settle"
        /\ chan' = IF doing[x].sweep /\ Room THEN Append(chan, ReleaseAllKeys) ELSE chan
        /\ UNCHANGED <<scene, sessionLease, now, down>>
    BY DEF ViewerTypeOK, ViewerInv, SettleAnswer
  <1>2. doing[x] \in Request
    BY <1>1
  <1>3. /\ r \in Request /\ r.at \in {"idle", "send"}
        /\ r.at # "idle" => r.send = doing[x].send
    BY <1>2, CommandFacts DEF Request
  <1> HIDE DEF r
  <1>4. \A y \in Actor : doing'[y] = IF y = x THEN r ELSE doing[y]
    BY <1>1
  <1>5. scene.capacity \in Nat /\ scene.capacity >= 1 /\ Person \in Actor
    BY <1>1, ViewerFacts
  <1>6. chan' \in Seq(Command) /\ Len(chan') <= scene.capacity
    <2>1. CASE doing[x].sweep /\ Room
      BY <1>1, <1>5, <2>1, CommandFacts, AppendProperties DEF Room
    <2>2. CASE ~(doing[x].sweep /\ Room)
      BY <1>1, <2>2
    <2> QED  BY <2>1, <2>2
  <1>7. doing' \in [Actor -> Request]
    BY <1>1, <1>3
  <1>8. ViewerTypeOK'
    BY <1>1, <1>6, <1>7 DEF ViewerTypeOK
  <1>9. ASSUME Calm  PROVE Turns'
    <2> DEFINE holder == sessionLease.holder.party
    <2>1. Turns
      BY <1>9 DEF ViewerInv
    <2>2. chan = << >> /\ Room
      BY <1>1, <1>5, <2>1 DEF Turns, Room
    <2>3. \A y \in Actor : y # x => doing[y].at = "idle"
      BY <1>1, <2>1 DEF Turns
    <2>4. chan' = IF doing[x].sweep THEN <<ReleaseAllKeys>> ELSE << >>
      BY <1>1, <2>2
    <2>5. \A y \in Actor : doing'[y].at # "idle" => y = x /\ doing'[y].at = "send"
      BY <1>3, <1>4, <2>3
    <2>6. \A y \in Actor : doing'[y].at # "idle" /\ doing'[y].send.down =>
                               doing'[y].send.by = holder
      BY <1>1, <1>3, <1>4, <2>1, <2>5 DEF Turns
    <2>7. doing'[Person].at = "idle"
      BY <1>1, <1>4, <1>5, <2>1, <2>3 DEF Turns
    <2>8. CASE doing[x].sweep
      <3>1. Len(chan') = 1 /\ chan'[1] = ReleaseAllKeys /\ chan' # << >>
        BY <2>4, <2>8
      <3>2. Head(chan') = ReleaseAllKeys /\ \A i \in DOMAIN chan' : ~chan'[i].down
        BY <2>4, <2>8, CommandFacts
      <3> QED  BY <1>1, <2>1, <2>5, <2>6, <2>7, <3>1, <3>2 DEF Turns
    <2>9. CASE ~doing[x].sweep
      <3>1. down \subseteq {holder}
        BY <1>1, <2>1, <2>2, <2>3, <2>9 DEF Turns
      <3> QED  BY <1>1, <2>1, <2>4, <2>5, <2>6, <2>7, <2>9, <3>1 DEF Turns
    <2> QED  BY <2>8, <2>9
  <1> QED  BY <1>1, <1>8, <1>9 DEF ViewerInv, Calm

LEMMA AgentSendsInv ==
    ASSUME ViewerInv, NEW p \in Agents, AgentSends(p)
    PROVE  ViewerInv'
  <1>1. /\ ViewerTypeOK /\ scene \in Scenes /\ doing \in [Actor -> Request]
        /\ chan \in Seq(Command) /\ Len(chan) <= scene.capacity
        /\ doing' = [doing EXCEPT ![p] = Idle] /\ doing[p].at = "send"
        /\ chan' = IF Room THEN Append(chan, doing[p].send) ELSE chan
        /\ UNCHANGED <<scene, sessionLease, now, down>>
    BY DEF ViewerTypeOK, ViewerInv, AgentSends
  <1>2. /\ p \in Actor /\ Person \in Actor
        /\ scene.capacity \in Nat /\ scene.capacity >= 1
    BY <1>1, ViewerFacts
  <1>3. doing[p].send \in Command
    BY <1>1, <1>2 DEF Request
  <1>4. /\ Room => chan' = Append(chan, doing[p].send) /\ Len(chan) < scene.capacity
        /\ ~Room => chan' = chan
    BY <1>1 DEF Room
  <1>5. Room => /\ chan' \in Seq(Command) /\ Len(chan') = Len(chan) + 1
                /\ \A i \in 1..Len(chan) : chan'[i] = chan[i]
                /\ chan'[Len(chan) + 1] = doing[p].send
    BY <1>1, <1>3, <1>4, AppendProperties
  <1>6. Len(chan) \in Nat
    BY <1>1
  <1>7. chan' \in Seq(Command) /\ Len(chan') <= scene.capacity
    BY <1>1, <1>2, <1>4, <1>5, <1>6
  <1>8. doing' \in [Actor -> Request]
    BY <1>1, CommandFacts
  <1>9. ViewerTypeOK'
    BY <1>1, <1>7, <1>8 DEF ViewerTypeOK
  <1>10. ASSUME Calm  PROVE Turns'
    <2> DEFINE holder == sessionLease.holder.party
    <2>1. Turns
      BY <1>10 DEF ViewerInv
    <2>2. \A y \in Actor : doing[y].at # "idle" => y = p
      BY <1>1, <1>2, <2>1 DEF Turns
    <2>3. \A y \in Actor : doing'[y].at = "idle"
      BY <1>1, <2>2, CommandFacts
    <2>4. doing[p].send.down => doing[p].send.by = holder
      BY <1>1, <1>2, <2>1 DEF Turns
    <2>5. \A i \in DOMAIN chan : chan[i].down => chan[i].by = holder
      BY <2>1 DEF Turns
    <2>6. down \subseteq {holder} \/ (chan # << >> /\ Head(chan) = ReleaseAllKeys)
      <3>1. \A y \in Actor : doing[y].at # "settle"
        BY <1>1, <2>2
      <3> QED  BY <2>1, <3>1 DEF Turns
    <2> HIDE DEF holder
    <2>7. \A i \in DOMAIN chan' : chan'[i].down => chan'[i].by = holder
      <3>1. CASE Room
        <4>1. \A i \in 1..(Len(chan) + 1) : i \in 1..Len(chan) \/ i = Len(chan) + 1
          BY <1>6
        <4>2. DOMAIN chan' = 1..(Len(chan) + 1) /\ DOMAIN chan = 1..Len(chan)
          BY <1>1, <1>5, <3>1, LenProperties
        <4> QED  BY <1>5, <2>4, <2>5, <3>1, <4>1, <4>2
      <3>2. CASE ~Room
        BY <1>4, <2>5, <3>2
      <3> QED  BY <3>1, <3>2
    <2>8. down' \subseteq {holder} \/ (chan' # << >> /\ Head(chan') = ReleaseAllKeys)
      <3>1. CASE Room /\ chan # << >> /\ Head(chan) = ReleaseAllKeys
        <4>1. 1 \in 1..Len(chan) /\ Head(chan) = chan[1]
          BY <1>1, <3>1
        <4>2. chan' # << >> /\ Head(chan') = chan'[1]
          BY <1>5, <1>6, <3>1
        <4> QED  BY <1>5, <3>1, <4>1, <4>2
      <3>2. CASE ~Room
        BY <1>1, <1>4, <2>6, <3>2
      <3>3. CASE down \subseteq {holder}
        BY <1>1, <3>3
      <3> QED  BY <2>6, <3>1, <3>2, <3>3
    <2> QED  BY <1>1, <1>2, <2>1, <2>3, <2>7, <2>8 DEF Turns, holder
  <1> QED  BY <1>1, <1>9, <1>10 DEF ViewerInv, Calm

\* The person's own command: with the person away there is none.
LEMMA PersonCommandInv ==
    ASSUME ViewerInv, PersonSends \/ PersonUnparks
    PROVE  ViewerInv'
  <1>1. /\ ViewerTypeOK /\ scene \in Scenes /\ doing \in [Actor -> Request]
        /\ chan \in Seq(Command) /\ Len(chan) <= scene.capacity
        /\ UNCHANGED <<scene, sessionLease, now, down>>
        /\ doing[Person].at # "idle"
    BY DEF ViewerTypeOK, ViewerInv, PersonSends, PersonUnparks
  <1>2. Person \in Actor /\ scene.capacity \in Nat /\ doing[Person] \in Request
    BY <1>1, ViewerFacts
  <1>3. [doing[Person] EXCEPT !.at = "parked"] \in Request /\ doing[Person].send \in Command
    BY <1>2 DEF Request
  <1>4. \/ /\ chan' = Append(chan, doing[Person].send) /\ Len(chan) < scene.capacity
           /\ doing' = [doing EXCEPT ![Person] = Idle]
        \/ /\ chan' = chan
           /\ doing' = [doing EXCEPT ![Person] = [doing[Person] EXCEPT !.at = "parked"]]
    BY DEF PersonSends, PersonUnparks
  <1>5. doing' \in [Actor -> Request]
    BY <1>1, <1>3, <1>4, CommandFacts
  <1>6. chan' \in Seq(Command) /\ Len(chan') <= scene.capacity
    BY <1>1, <1>2, <1>3, <1>4, AppendProperties
  <1>7. ViewerTypeOK'
    BY <1>1, <1>5, <1>6 DEF ViewerTypeOK
  <1>8. ~Calm
    BY <1>1 DEF ViewerInv, Turns
  <1> QED  BY <1>1, <1>7, <1>8 DEF ViewerInv, Calm

\* What the driver takes off the channel is a release, or finds only the holder's
\* keys down and is, when a press, the holder's.
LEMMA DriveFacts ==
    ASSUME ViewerInv, Calm, Drive
    PROVE  LET c == Head(chan)
               holder == sessionLease.holder.party
           IN  /\ c = ReleaseAllKeys => down' = {}
               /\ c # ReleaseAllKeys => /\ down \subseteq {holder}
                                        /\ \/ c.by = holder /\ down' = down \cup {c.by}
                                           \/ down' = down \ {c.by}
  <1> DEFINE c == Head(chan)
             holder == sessionLease.holder.party
  <1>1. Turns /\ chan \in Seq(Command) /\ chan # << >> /\ down' = Apply(c)
    BY DEF ViewerTypeOK, ViewerInv, Drive
  <1>2. c = chan[1] /\ 1 \in DOMAIN chan
    BY <1>1
  <1>3. \A y \in Actor : doing[y].at # "settle"
    BY <1>1 DEF Turns
  <1>4. c.down => c.by = holder
    BY <1>1, <1>2 DEF Turns
  <1>5. c = ReleaseAllKeys \/ down \subseteq {holder}
    BY <1>1, <1>3 DEF Turns
  <1> HIDE DEF c, holder
  <1>6. c = ReleaseAllKeys => down' = {}
    BY <1>1 DEF Apply
  <1>7. ASSUME c # ReleaseAllKeys
        PROVE  \/ c.down /\ down' = down \cup {c.by}
               \/ ~c.down /\ down' = down \ {c.by}
    BY <1>1, <1>7 DEF Apply
  <1> QED  BY <1>4, <1>5, <1>6, <1>7 DEF c, holder

LEMMA DriveInv ==
    ASSUME ViewerInv, Drive
    PROVE  ViewerInv'
  <1> DEFINE c == Head(chan)
             holder == sessionLease.holder.party
  <1>1. /\ ViewerTypeOK /\ scene \in Scenes /\ chan \in Seq(Command) /\ chan # << >>
        /\ Len(chan) <= scene.capacity /\ down \subseteq Party
        /\ down' = Apply(c) /\ chan' = Tail(chan)
        /\ UNCHANGED <<scene, sessionLease, now, doing>>
    BY DEF ViewerTypeOK, ViewerInv, Drive
  <1>2. /\ chan' \in Seq(Command) /\ Len(chan') = Len(chan) - 1
        /\ \A i \in 1..Len(chan') : chan'[i] = chan[i + 1] /\ i + 1 \in 1..Len(chan)
    BY <1>1, HeadTailProperties
  <1>3. scene.capacity \in Nat /\ Len(chan) \in Nat /\ c \in Command
    BY <1>1, ViewerFacts, LenProperties
  <1>4. down' \subseteq Party
    BY <1>1, <1>3, CommandFacts DEF Apply
  <1>5. ViewerTypeOK'
    BY <1>1, <1>2, <1>3, <1>4 DEF ViewerTypeOK
  <1>6. ASSUME Calm  PROVE Turns'
    <2>1. Turns
      BY <1>6 DEF ViewerInv
    <2>2. down' \subseteq {holder}
      BY <1>6, DriveFacts
    <2>3. \A y \in Actor : doing[y].at # "settle"
      BY <1>1, <2>1 DEF Turns
    <2>4. \A i \in DOMAIN chan : chan[i].down => chan[i].by = holder
      BY <2>1 DEF Turns
    <2>5. DOMAIN chan' = 1..Len(chan') /\ DOMAIN chan = 1..Len(chan)
      BY <1>1, <1>2, LenProperties
    <2> HIDE DEF holder
    <2>6. \A i \in DOMAIN chan' : chan'[i].down => chan'[i].by = holder
      <3> SUFFICES ASSUME NEW i \in 1..Len(chan')
                   PROVE  chan'[i].down => chan'[i].by = holder
        BY <2>5
      <3>1. chan'[i] = chan[i + 1] /\ i + 1 \in DOMAIN chan
        BY <1>2, <2>5
      <3> QED  BY <2>4, <3>1
    <2> QED  BY <1>1, <2>1, <2>2, <2>3, <2>6 DEF Turns, holder
  <1> QED  BY <1>1, <1>5, <1>6 DEF ViewerInv, Calm

LEMMA ViewerStepInv == ViewerInv /\ [ViewerNext]_viewerVars => ViewerInv'
  <1> SUFFICES ASSUME ViewerInv, [ViewerNext]_viewerVars PROVE ViewerInv'
    OBVIOUS
  <1>1. /\ ViewerTypeOK /\ scene \in Scenes /\ now \in Nat /\ Steady(sessionLease, now)
    BY DEF ViewerInv, ViewerTypeOK
  <1>2. /\ scene.agents \subseteq Agents /\ Agents \subseteq Actor \ {Person}
        /\ Agents \subseteq Party /\ Person \in Party /\ Ticker \in Actor \ {Person}
    BY <1>1, ViewerFacts
  <1>3. CASE Elapse
    <2>1. now' = now + 1 /\ UNCHANGED <<scene, sessionLease, doing, chan, down>>
      BY <1>3 DEF Elapse, Ticking
    <2>2. Steady(sessionLease, now)' /\ now' \in Nat
      BY <1>1, <2>1, SteadyLater
    <2> QED  BY <2>1, <2>2 DEF ViewerInv, ViewerTypeOK, Turns, Calm
  <1>4. ASSUME NEW p \in Agents, AgentPress(p)  PROVE ViewerInv'
    <2> DEFINE call == InputCall(sessionLease, p, now)
               send == IF call.refusal = None THEN Key(p, TRUE) ELSE Nothing
    <2>1. MayStart(p) /\ BoardCall(p, call, send)
      BY <1>4 DEF AgentPress
    <2>2. Moved(sessionLease, call.lease, now, {})
      BY <1>1, InputCallMoves
    <2>3. Numbered(sessionLease) =>
              /\ Reports(sessionLease, call)
              /\ call.refusal = None => call.lease.holder.party = p
      BY <1>1, InputCallReports
    <2> HIDE DEF call
    <2>4. /\ send \in Command
          /\ send.down => call.refusal = None /\ send.by = p
      BY <1>2, CommandFacts DEF Nothing
    <2> HIDE DEF send
    <2> QED  BY <1>2, <2>1, <2>2, <2>3, <2>4, AgentCallInv
  <1>5. ASSUME NEW p \in Agents, AgentLift(p)  PROVE ViewerInv'
    BY <1>5, AgentLiftInv
  <1>6. ASSUME NEW p \in Agents, AgentAsks(p)  PROVE ViewerInv'
    <2> DEFINE call == AskCall(sessionLease, p, None, now)
    <2>1. MayStart(p) /\ BoardCall(p, call, Nothing)
      BY <1>6 DEF AgentAsks
    <2>2. Moved(sessionLease, call.lease, now, {p})
      BY <1>1, AskCallMoves
    <2>3. Numbered(sessionLease) => Reports(sessionLease, call)
      BY <1>1, AskCallReports
    <2> HIDE DEF call
    <2> QED  BY <1>2, <2>1, <2>2, <2>3, AgentCallInv, CommandFacts DEF Nothing
  <1>7. ASSUME NEW p \in Agents, AgentReleases(p)  PROVE ViewerInv'
    <2> DEFINE call == ReleaseCall(sessionLease, p, now)
    <2>1. MayStart(p) /\ BoardCall(p, call, Nothing)
      BY <1>7 DEF AgentReleases
    <2>2. Moved(sessionLease, call.lease, now, {})
      BY <1>1, ReleaseCallMoves
    <2>3. Numbered(sessionLease) => Reports(sessionLease, call)
      BY <1>1, ReleaseCallReports
    <2> HIDE DEF call
    <2> QED  BY <1>2, <2>1, <2>2, <2>3, AgentCallInv, CommandFacts DEF Nothing
  <1>8. ASSUME NEW p \in Agents, PersonAllows(p)  PROVE ViewerInv'
    <2>1. Steady(YieldCall(sessionLease, p, now).lease, now)
      BY <1>1, YieldCallFacts
    <2> QED  BY <1>8, <2>1, PersonCallInv, CommandFacts DEF PersonAllows
  <1>9. ASSUME NEW p \in Agents, PersonDeclines(p)  PROVE ViewerInv'
    <2>1. Steady(NotNowCall(sessionLease, p, now).lease, now)
      BY <1>1, NotNowCallMoves DEF Moved
    <2> QED  BY <1>9, <2>1, PersonCallInv, CommandFacts DEF PersonDeclines
  <1>10. ASSUME NEW p \in Agents, AgentSends(p)  PROVE ViewerInv'
    BY <1>10, AgentSendsInv
  <1>11. ASSUME NEW isDown \in BOOLEAN, PersonKey(isDown)  PROVE ViewerInv'
    <2>1. Steady(PersonInputCall(sessionLease, now).lease, now)
      BY <1>1, PersonInputFacts
    <2>2. Key(Person, isDown) \in Command
      BY <1>2, CommandFacts
    <2> QED  BY <1>11, <2>1, <2>2, PersonCallInv DEF PersonKey
  <1>12. CASE TickLeases
    <2> DEFINE call == Ticked(sessionLease, now)
    <2>1. MayStart(Ticker) /\ BoardCall(Ticker, call, Nothing)
      BY <1>12 DEF TickLeases
    <2>2. Moved(sessionLease, call.lease, now, {})
      BY <1>1, TickedMoves
    <2>3. Numbered(sessionLease) => Reports(sessionLease, call)
      BY <1>1, TickedReports
    <2> HIDE DEF call
    <2> QED  BY <1>2, <2>1, <2>2, <2>3, AgentCallInv, CommandFacts DEF Nothing
  <1>13. ASSUME NEW x \in Actor, SettleAnswer(x)  PROVE ViewerInv'
    BY <1>13, SettleAnswerInv
  <1>14. CASE PersonSends \/ PersonUnparks
    BY <1>14, PersonCommandInv
  <1>15. CASE Drive
    BY <1>15, DriveInv
  <1>16. CASE UNCHANGED viewerVars
    BY <1>16 DEF ViewerInv, ViewerTypeOK, Turns, Calm, viewerVars
  <1> QED
    BY <1>2, <1>3, <1>4, <1>5, <1>6, <1>7, <1>8, <1>9, <1>10, <1>11, <1>12, <1>13,
       <1>14, <1>15, <1>16 DEF ViewerNext

\* The invariant of the viewer's input path: every lease it reads is steady, and
\* requests that come one at a time keep the turns of settle.
THEOREM ViewerInvariance == ViewerSpec => []ViewerInv
  BY ViewerInitInv, ViewerStepInv, PTL DEF ViewerSpec

\* Every request is at one of its steps, the channel holds commands and no more
\* of them than its bound (src-tauri/src/commands and control.rs), for every set
\* of agents, every scene and every policy.
THEOREM ViewerTypeCorrect == ViewerSpec => []ViewerTypeOK
  <1>1. ViewerInv => ViewerTypeOK
    BY DEF ViewerInv
  <1> QED  BY <1>1, ViewerInvariance, PTL

\* The sweep that settle reads off an answer is enough: among agents whose
\* requests do not overlap, however the wheel passes from one to the next, no
\* key press of one reaches the machine while a key of another is down.
THEOREM AgentsTakeTurns == ViewerSpec => AgentsInTurn
  <1>1. ViewerInv /\ [ViewerNext]_viewerVars => [Calm => ~Inherits]_viewerVars
    <2> SUFFICES ASSUME ViewerInv, ViewerNext, Calm, Inherits  PROVE FALSE
      BY DEF Inherits, viewerVars
    <2>1. PICK p \in Agents : p \in down' /\ p \notin down /\ down \cap Agents # {}
      BY DEF Inherits
    <2>2. Drive
      BY <2>1 DEF ViewerNext, Elapse, AgentPress, AgentLift, AgentAsks, AgentReleases,
                  PersonAllows, PersonDeclines, AgentSends, PersonKey, TickLeases,
                  SettleAnswer, PersonSends, PersonUnparks, BoardCall
    <2>3. down' \subseteq {sessionLease.holder.party} /\ down \subseteq {sessionLease.holder.party}
      BY <2>1, <2>2, DriveFacts
    <2> QED  BY <2>1, <2>3
  <1> QED  BY <1>1, ViewerInvariance, PTL DEF ViewerSpec, AgentsInTurn
=============================================================================
