-------------------------- MODULE InputOrderProofs --------------------------
(***************************************************************************)
(* The safety properties of InputOrder for every number of calls, every    *)
(* capacity and whichever calls get lost.                                  *)
(*                                                                         *)
(* That commands keep their order is not inductive.  What is kept is the   *)
(* reason for it: a number the gate has passed, or that an admitted call   *)
(* is ahead of, belongs to a call that has returned, or to one that some   *)
(* later call has logged it stopped waiting for.                           *)
(*                                                                         *)
(* That no change of buttons is shed rests on last_pointer_mask: as long   *)
(* as no call has overtaken another it is the mask of the last pointer     *)
(* command that was dealt with, queued or shed.                            *)
(***************************************************************************)
EXTENDS InputOrder, TLAPS

\* Some call after c has given up waiting.
GivenUp(c) == \E g \in gaps : g > c

\* The places of a call whose commands are all queued.
Past == {"passing", "out"}

ReturnedIsPassed == \A c \in Call : pc[c] \in Past => c < next

PassedIsReturned ==
    \A c \in Call : c < next /\ pc[c] \notin Past => GivenUp(c)

AheadIsReturned ==
    \A c, d \in Call :
        pc[d] = "sending" /\ c < d /\ pc[c] \notin Past => GivenUp(c)

QueuedIsAdmitted ==
    \A i \in DOMAIN Queued :
        Queued[i].by # 0 => pc[Queued[i].by] \in {"sending"} \cup Past

Gate == ReturnedIsPassed /\ PassedIsReturned /\ AheadIsReturned


----------------------------------------------------------------------------

\* Every step keeps the types.
LEMMA TypeStep ==
  ASSUME TypeOK, [Next]_vars
  PROVE  TypeOK'
  <1> USE OrderAssumption DEF TypeOK, Call, Step
  <1>1. CASE UNCHANGED vars
    BY <1>1 DEF vars
  <1>2. ASSUME NEW c \in Call,
               Arrive(c) \/ Enable(c) \/ Check(c) \/ Sleep(c)
                 \/ Wake(c) \/ TimeOut(c)
        PROVE  TypeOK'
    BY <1>2 DEF Arrive, Enable, Check, Sleep, Wake, TimeOut
  <1>9. ASSUME NEW c \in Call, NotifyWaiters(c)  PROVE TypeOK'
    BY <1>9 DEF NotifyWaiters
  <1>3. ASSUME NEW c \in Call, Put(c)  PROVE TypeOK'
    <2> DEFINE command == Body[c][done[c] + 1]
    <2>0. Body[c] \in Seq(Nat \cup {Key}) /\ Len(Body[c]) \in Nat
      OBVIOUS
    <2>1. done[c] + 1 \in 1..Len(Body[c])
      BY <1>3, <2>0 DEF Put
    <2>2. command \in Nat \cup {Key}
      BY <2>0, <2>1
    <2>3. done'[c] = done[c] + 1 /\ [by |-> c, nth |-> done[c] + 1, command |-> command] \in Entry
      BY <1>3, <2>2 DEF Entry, Put
    <2>4. chan' \in Seq(Entry)
      BY <1>3, <2>3 DEF Put
    <2>5. mask' \in Nat \cup {-1}
      BY <1>3, <2>2 DEF Put
    <2>6. \A d \in Call : done'[d] <= Len(Body[d])
      BY <1>3, <2>0, <2>1 DEF Put
    <2> QED
      BY <1>3, <2>4, <2>5, <2>6 DEF Put
  <1>4. ASSUME NEW c \in Call, Leave(c)  PROVE TypeOK'
    <2>0. next' = IF c + 1 > next THEN c + 1 ELSE next
      BY <1>4 DEF Leave
    <2>1. next' \in 1..(N + 1)
      BY <2>0
    <2>3. woken' \subseteq Call
      BY <1>4 DEF Leave
    <2>2. pc' \in [Call -> Step]
      BY <1>4 DEF Leave
    <2> QED
      BY <1>4, <2>1, <2>2, <2>3 DEF Leave
  <1>5. CASE OtherPuts
    <2>1. [by |-> 0, nth |-> 0, command |-> Key] \in Entry
      BY DEF Entry
    <2>2. chan' \in Seq(Entry)
      BY <1>5, <2>1 DEF OtherPuts
    <2> QED
      BY <1>5, <2>2 DEF OtherPuts
  <1>6. CASE TakeOne
    <2>1. Head(chan) \in Entry /\ Tail(chan) \in Seq(Entry)
      BY <1>6 DEF TakeOne
    <2> QED
      BY <1>6, <2>1 DEF TakeOne
  <1>7. CASE Close
    <2>1. chan' \in Seq(Entry)
      BY <1>7 DEF Close
    <2>2. open' = FALSE
      BY <1>7 DEF Close
    <2> QED
      BY <1>7, <2>1, <2>2 DEF Close
  <1>8. CASE Finished
    BY <1>8 DEF Finished, vars
  <1> QED
    BY <1>1, <1>2, <1>3, <1>4, <1>5, <1>6, <1>7, <1>8, <1>9 DEF Next

\* A waiter is registered before it looks, so whatever moves the gate after
\* the look wakes it.
LEMMA NoMissedTurnStep ==
  ASSUME TypeOK, NoMissedTurn, [Next]_vars
  PROVE  NoMissedTurn'
  <1> USE OrderAssumption DEF TypeOK, Call, NoMissedTurn
  <1>1. CASE UNCHANGED vars
    BY <1>1 DEF vars
  <1>2. ASSUME NEW c \in Call,
               Arrive(c) \/ Enable(c) \/ Check(c) \/ Sleep(c)
                 \/ Wake(c) \/ TimeOut(c)
        PROVE  NoMissedTurn'
    BY <1>2 DEF Arrive, Enable, Check, Sleep, Wake, TimeOut
  <1>3. ASSUME NEW c \in Call, Put(c) \/ Leave(c)  PROVE NoMissedTurn'
    BY <1>3 DEF Put, Leave
  <1>5. ASSUME NEW c \in Call, NotifyWaiters(c)  PROVE NoMissedTurn'
    BY <1>5 DEF NotifyWaiters
  <1>4. CASE OtherPuts \/ TakeOne \/ Close \/ Finished
    BY <1>4 DEF OtherPuts, TakeOne, Close, Finished, vars
  <1> QED
    BY <1>1, <1>2, <1>3, <1>4, <1>5 DEF Next

\* A call gets ahead of another one only past it, or by logging a gap.
LEMMA GateStep ==
  ASSUME TypeOK, Gate, [Next]_vars
  PROVE  Gate'
  <1> USE OrderAssumption DEF TypeOK, Call, Gate, ReturnedIsPassed,
          PassedIsReturned, AheadIsReturned, GivenUp, Past
  <1>1. CASE UNCHANGED vars
    BY <1>1 DEF vars
  <1>2. ASSUME NEW c \in Call, Arrive(c) \/ Enable(c) \/ Sleep(c)
                                \/ Wake(c) \/ Put(c) \/ NotifyWaiters(c)
        PROVE  Gate'
    <2>1. /\ next' = next /\ gaps' = gaps
          /\ \A d \in Call : /\ pc'[d] \in Past <=> pc[d] \in Past
                             /\ pc'[d] = "sending" => pc[d] = "sending"
      BY <1>2 DEF Arrive, Enable, Sleep, Wake, Put, NotifyWaiters
    <2> HIDE DEF Past
    <2> QED
      BY <2>1
  <1>3. ASSUME NEW c \in Call, Check(c)  PROVE Gate'
    <2>1. /\ pc[c] = "check" /\ next' = next /\ gaps' = gaps
          /\ \A d \in Call : d # c => pc'[d] = pc[d]
          /\ \/ pc'[c] = "sending" /\ next >= c
             \/ pc'[c] = "unmet"
      BY <1>3 DEF Check
    <2>2. \A d \in Call : (pc'[d] \in Past) <=> (pc[d] \in Past)
      BY <2>1
    <2>3. ReturnedIsPassed' /\ PassedIsReturned'
      BY <2>1, <2>2
    <2>4. ASSUME NEW b \in Call, NEW d \in Call,
                 pc'[d] = "sending", b < d, pc'[b] \notin Past
          PROVE  GivenUp(b)
      <3>1. CASE d = c
        <4>1. b < next /\ pc[b] \notin Past
          BY <2>1, <2>2, <2>4, <3>1
        <4> QED
          BY <4>1
      <3>2. CASE d # c
        BY <2>1, <2>2, <2>4, <3>2
      <3> QED
        BY <3>1, <3>2
    <2> QED
      BY <2>1, <2>3, <2>4
  <1>4. ASSUME NEW c \in Call, TimeOut(c)  PROVE Gate'
    BY <1>4 DEF TimeOut
  <1>5. ASSUME NEW c \in Call, Leave(c)  PROVE Gate'
    <2>1. /\ pc' = [pc EXCEPT ![c] = "passing"] /\ pc[c] = "sending"
          /\ next' = IF c + 1 > next THEN c + 1 ELSE next
          /\ gaps' = gaps
      BY <1>5 DEF Leave
    <2>2. \A d \in Call : pc'[d] \notin Past => pc[d] \notin Past /\ d # c
      BY <2>1
    <2>3. \A d \in Call : d < next' /\ d # c => d < next \/ d < c
      BY <2>1
    <2>4. ReturnedIsPassed'
      BY <2>1
    <2>5. PassedIsReturned'
      BY <2>1, <2>2, <2>3
    <2>6. AheadIsReturned'
      BY <2>1, <2>2
    <2> QED
      BY <2>4, <2>5, <2>6
  <1>6. CASE OtherPuts \/ TakeOne \/ Close \/ Finished
    <2>1. pc' = pc /\ next' = next /\ gaps' = gaps
      BY <1>6 DEF OtherPuts, TakeOne, Close, Finished, vars
    <2> QED
      BY <2>1
  <1> QED
    BY <1>1, <1>2, <1>3, <1>4, <1>5, <1>6 DEF Next

\* The commands queued so far are in order but for the gaps.
InOrder == QueuedIsAdmitted /\ OvertakingIsLogged

\* A step that keeps what is queued, or a part from the front of it, and
\* takes no call back keeps the order.
LEMMA QueueKept ==
  ASSUME TypeOK, InOrder, gaps \subseteq gaps',
         Len(Queued') <= Len(Queued), Len(Queued') \in Nat,
         Len(Queued) \in Nat, DOMAIN Queued = 1..Len(Queued),
         DOMAIN Queued' = 1..Len(Queued'),
         \A i \in 1..Len(Queued') : Queued'[i] = Queued[i],
         \A i \in DOMAIN Queued : Queued[i].by \in 0..N,
         \A c \in Call : pc[c] \in {"sending"} \cup Past
                           => pc'[c] \in {"sending"} \cup Past
  PROVE  InOrder'
  <1>1. QueuedIsAdmitted'
    BY OrderAssumption DEF InOrder, QueuedIsAdmitted, Call
  <1>2. OvertakingIsLogged'
    <2> SUFFICES ASSUME NEW i \in DOMAIN Queued', NEW j \in DOMAIN Queued',
                        i < j, 0 < Queued'[j].by,
                        Queued'[j].by < Queued'[i].by
                 PROVE  \E g \in gaps' : g > Queued'[j].by
      BY DEF OvertakingIsLogged
    <2>1. i \in DOMAIN Queued /\ j \in DOMAIN Queued
      OBVIOUS
    <2>2. Queued'[i] = Queued[i] /\ Queued'[j] = Queued[j]
      OBVIOUS
    <2> QED
      BY <2>1, <2>2 DEF InOrder, OvertakingIsLogged
  <1> QED
    BY <1>1, <1>2 DEF InOrder

\* What is queued is a sequence of entries, of the length of its two parts.
LEMMA QueuedType ==
  ASSUME TypeOK
  PROVE  /\ Queued \in Seq(Entry)
         /\ Len(Queued) \in Nat
         /\ Len(Queued) = Len(taken) + Len(chan)
         /\ DOMAIN Queued = 1..Len(Queued)
         /\ \A i \in DOMAIN Queued : Queued[i].by \in 0..N
  <1>1. Queued \in Seq(Entry) /\ Len(Queued) = Len(taken) + Len(chan)
    BY DEF TypeOK, Queued
  <1>2. Len(Queued) \in Nat /\ DOMAIN Queued = 1..Len(Queued)
    BY <1>1
  <1>3. \A i \in DOMAIN Queued : Queued[i] \in Entry
    BY <1>1
  <1>4. \A i \in DOMAIN Queued : Queued[i].by \in 0..N
    BY <1>3 DEF Entry
  <1> QED
    BY <1>1, <1>2, <1>4

\* An entry at the end of the queue keeps the order if it is nobody's, or
\* that of a call that is not behind one that is queued without a gap.
LEMMA QueueGrows ==
  ASSUME TypeOK, InOrder, Gate, NEW e \in Entry,
         Queued' = Append(Queued, e), pc' = pc, gaps' = gaps,
         e.by # 0 => pc[e.by] = "sending"
  PROVE  InOrder'
  <1> USE OrderAssumption
  <1>0. /\ Queued \in Seq(Entry) /\ Len(Queued) \in Nat
        /\ DOMAIN Queued = 1..Len(Queued)
        /\ \A i \in DOMAIN Queued : Queued[i].by \in 0..N
    BY QueuedType
  <1>1. /\ DOMAIN Queued' = 1..(Len(Queued) + 1)
        /\ \A i \in 1..Len(Queued) : Queued'[i] = Queued[i]
        /\ Queued'[Len(Queued) + 1] = e
    BY <1>0
  <1>2. e.by \in 0..N
    BY DEF Entry
  <1>3. QueuedIsAdmitted'
    BY <1>0, <1>1 DEF InOrder, QueuedIsAdmitted
  <1>4. ASSUME NEW i \in 1..Len(Queued), 0 < e.by, e.by < Queued[i].by
        PROVE  \E g \in gaps : g > e.by
    <2> DEFINE d == Queued[i].by
    <2>0. d \in 0..N /\ e.by # 0
      BY <1>0, <1>2, <1>4
    <2>1. d \in Call /\ e.by \in Call /\ pc[e.by] = "sending"
      BY <1>2, <1>4, <2>0 DEF Call
    <2>6. pc[e.by] \notin Past
      BY <2>1 DEF Past
    <2>5. i \in DOMAIN Queued /\ Queued[i].by # 0
      BY <1>0, <2>1 DEF Call
    <2>2. pc[d] \in {"sending"} \cup Past
      BY <2>5, Zenon DEF InOrder, QueuedIsAdmitted
    <2>3. CASE pc[d] = "sending"
      BY <1>4, <2>1, <2>3, <2>6 DEF Gate, AheadIsReturned, GivenUp
    <2>4. CASE pc[d] \in Past
      <3>1. d < next
        BY <2>1, <2>4 DEF Gate, ReturnedIsPassed
      <3>2. e.by < next
        BY <1>4, <2>1, <3>1 DEF Call, TypeOK
      <3> QED
        BY <2>1, <2>6, <3>2 DEF Gate, PassedIsReturned, GivenUp
    <2> QED
      BY <2>2, <2>3, <2>4
  <1>5. OvertakingIsLogged'
    <2> SUFFICES ASSUME NEW i \in DOMAIN Queued', NEW j \in DOMAIN Queued',
                        i < j, 0 < Queued'[j].by,
                        Queued'[j].by < Queued'[i].by
                 PROVE  \E g \in gaps' : g > Queued'[j].by
      BY DEF OvertakingIsLogged
    <2>1. i \in 1..Len(Queued) /\ Queued'[i] = Queued[i]
      BY <1>0, <1>1
    <2>2. CASE j \in 1..Len(Queued)
      BY <1>0, <1>1, <2>1, <2>2 DEF InOrder, OvertakingIsLogged
    <2>3. CASE j = Len(Queued) + 1
      BY <1>1, <1>4, <2>1, <2>3
    <2> QED
      BY <1>0, <1>1, <2>2, <2>3
  <1> QED
    BY <1>3, <1>5 DEF InOrder

\* Every step keeps the order.
LEMMA InOrderStep ==
  ASSUME TypeOK, Gate, InOrder, [Next]_vars
  PROVE  InOrder'
  <1> USE OrderAssumption
  <1>0. TypeOK'
    BY TypeStep
  <1>q. /\ Queued \in Seq(Entry) /\ Len(Queued) \in Nat
        /\ DOMAIN Queued = 1..Len(Queued)
        /\ \A i \in DOMAIN Queued : Queued[i].by \in 0..N
        /\ Len(Queued) = Len(taken) + Len(chan)
    BY QueuedType
  <1>1. ASSUME UNCHANGED <<chan, taken>>, gaps \subseteq gaps',
               \A c \in Call : pc[c] \in {"sending"} \cup Past
                                 => pc'[c] \in {"sending"} \cup Past
        PROVE  InOrder'
    <2>1. Queued' = Queued
      BY <1>1 DEF Queued
    <2> QED
      BY <1>1, <1>q, <2>1, QueueKept
  <1>2. CASE UNCHANGED vars
    BY <1>1, <1>2 DEF vars
  <1>3. ASSUME NEW c \in Call,
               Arrive(c) \/ Enable(c) \/ Check(c) \/ Sleep(c)
                 \/ Wake(c) \/ TimeOut(c)
                 \/ Leave(c) \/ NotifyWaiters(c)
        PROVE  InOrder'
    <2>1. /\ UNCHANGED <<chan, taken>> /\ gaps \subseteq gaps'
          /\ \A d \in Call : pc[d] \in {"sending"} \cup Past
                               => pc'[d] \in {"sending"} \cup Past
      BY <1>3 DEF TypeOK, Arrive, Enable, Check, Sleep, Wake, TimeOut,
                    Leave, NotifyWaiters, Past
    <2> QED
      BY <1>1, <2>1
  <1>4. ASSUME NEW c \in Call, Put(c)  PROVE InOrder'
    <2> DEFINE command == Body[c][done[c] + 1]
               e == [by |-> c, nth |-> done[c] + 1, command |-> command]
    <2>0. done'[c] = done[c] + 1
      BY <1>4 DEF Put, TypeOK
    <2>1. CASE chan' = chan
      BY <1>1, <1>4, <2>1 DEF Put
    <2>2. CASE chan' = Append(chan, e)
      <3>1. e \in Entry /\ e.by = c
        <4>1. /\ Body[c] \in Seq(Nat \cup {Key}) /\ Len(Body[c]) \in Nat
              /\ done[c] \in Nat /\ done[c] < Len(Body[c])
          BY <1>4 DEF Put, TypeOK
        <4>2. command \in Nat \cup {Key} /\ done[c] + 1 \in Nat /\ c \in 0..N
          BY <4>1 DEF Call
        <4> HIDE DEF command
        <4> QED
          BY <4>2 DEF Entry
      <3>2. Queued' = Append(Queued, e)
        BY <1>4, <2>2, <3>1 DEF Queued, TypeOK, Put
      <3>3. pc' = pc /\ gaps' = gaps /\ pc[c] = "sending"
        BY <1>4 DEF Put
      <3> QED
        BY <3>1, <3>2, <3>3, QueueGrows
    <2> QED
      BY <1>4, <2>0, <2>1, <2>2 DEF Put
  <1>5. CASE OtherPuts
    <2> DEFINE e == [by |-> 0, nth |-> 0, command |-> Key]
    <2>1. e \in Entry /\ e.by = 0
      BY DEF Entry
    <2>2. Queued' = Append(Queued, e)
      BY <1>5, <2>1 DEF Queued, TypeOK, OtherPuts
    <2>3. pc' = pc /\ gaps' = gaps
      BY <1>5 DEF OtherPuts
    <2> QED
      BY <2>1, <2>2, <2>3, QueueGrows
  <1>6. CASE TakeOne
    <2>1. Queued' = Queued
      BY <1>6 DEF Queued, TypeOK, TakeOne
    <2> QED
      BY <1>6, <1>q, <2>1, QueueKept DEF TakeOne
  <1>7. CASE Close
    <2>1. Queued' = taken
      BY <1>7 DEF Queued, TypeOK, Close
    <2>2. /\ Len(taken) \in Nat /\ DOMAIN taken = 1..Len(taken)
          /\ Len(taken) <= Len(Queued)
          /\ \A i \in 1..Len(taken) : taken[i] = Queued[i]
      BY DEF Queued, TypeOK
    <2> QED
      BY <1>7, <1>q, <2>1, <2>2, QueueKept DEF Close
  <1>8. CASE Finished
    BY <1>1, <1>8 DEF Finished, vars
  <1> QED
    BY <1>2, <1>3, <1>4, <1>5, <1>6, <1>7, <1>8 DEF Next

----------------------------------------------------------------------------
(* State-changing input is kept. *)

\* Only an admitted call has dealt with anything.
DealtIsAdmitted ==
    \A c \in Call : pc[c] \notin {"sending"} \cup Past => done[c] = 0

\* last_pointer_mask is that of the last pointer command sent, as long as no
\* call has overtaken another.
MaskIsLast ==
    gaps = {} =>
        \/ mask = -1 /\ \A p \in Dealt : Command(p) = Key
        \/ \E q \in Dealt : /\ Command(q) # Key /\ mask = Command(q)
                            /\ \A r \in Dealt : Before(q, r) => Command(r) = Key

Kept == DealtIsAdmitted /\ MaskIsLast /\ ChangesAreKept

LEMMA DealtFacts ==
  ASSUME TypeOK
  PROVE  \A p : p \in Dealt <=> /\ p = <<p[1], p[2]>>
                                /\ p[1] \in Call /\ p[2] \in 1..done[p[1]]
  BY DEF Dealt

LEMMA BeforeFacts ==
  ASSUME TypeOK, NEW p \in Call \X Nat, NEW q \in Call \X Nat
  PROVE  /\ ~Before(p, p)
         /\ Before(p, q) => ~Before(q, p)
  BY DEF Before, Call

LEMMA DealtPlaces ==
  ASSUME TypeOK
  PROVE  Dealt \subseteq Call \X Nat
  BY DEF Dealt, TypeOK

\* While nobody has given up waiting, a call that puts is the last of those
\* that have dealt with anything.
LEMMA PutsLast ==
  ASSUME TypeOK, Gate, DealtIsAdmitted, gaps = {}, NEW c \in Call, pc[c] = "sending",
         NEW q \in Dealt
  PROVE  Before(q, <<c, done[c] + 1>>)
  <1> USE OrderAssumption
  <1>1. q = <<q[1], q[2]>> /\ q[1] \in Call /\ q[2] \in 1..done[q[1]]
    BY DealtFacts
  <1>2. done[c] \in Nat /\ done[q[1]] \in Nat /\ q[1] \in Nat /\ c \in Nat
    BY <1>1 DEF TypeOK, Call
  <1>3. ~(c < q[1])
    <2> SUFFICES ASSUME c < q[1]  PROVE FALSE
      OBVIOUS
    <2>1. pc[c] \notin Past /\ ~GivenUp(c)
      BY DEF Past, GivenUp
    <2>2. pc[q[1]] \in {"sending"} \cup Past
      BY <1>1, <1>2 DEF DealtIsAdmitted
    <2>3. pc[q[1]] # "sending"
      BY <1>1, <2>1 DEF Gate, AheadIsReturned
    <2>4. q[1] < next
      BY <1>1, <2>2, <2>3 DEF Gate, ReturnedIsPassed
    <2>5. c < next
      BY <1>2, <2>4 DEF TypeOK
    <2> QED
      BY <2>1, <2>5 DEF Gate, PassedIsReturned
  <1> QED
    BY <1>1, <1>2, <1>3 DEF Before

\* A step that deals with nothing and queues nothing keeps it.
LEMMA KeptSame ==
  ASSUME Kept, UNCHANGED <<done, mask>>, Queued' = Queued \/ ~open',
         gaps \subseteq gaps', open' => open,
         \A c \in Call : pc[c] \in {"sending"} \cup Past
                           => pc'[c] \in {"sending"} \cup Past
  PROVE  Kept'
  <1>1. DealtIsAdmitted'
    BY DEF Kept, DealtIsAdmitted
  <1>2. Dealt' = Dealt
    BY DEF Dealt
  <1>3. MaskIsLast'
    BY <1>2 DEF Kept, MaskIsLast, Command, Before
  <1>4. ChangesAreKept'
    BY <1>2 DEF Kept, ChangesAreKept, ChangesNothing, Ours, Place, Command, Before
  <1> QED
    BY <1>1, <1>3, <1>4 DEF Kept

\* A command of somebody else's changes nothing for the calls.
LEMMA KeptAmongOthers ==
  ASSUME TypeOK, Kept, OtherPuts
  PROVE  Kept'
  <1> DEFINE e == [by |-> 0, nth |-> 0, command |-> Key]
  <1>0. UNCHANGED <<pc, gaps, done, mask, open>>
    BY DEF OtherPuts
  <1>1. e \in Entry /\ e.by = 0
    BY OrderAssumption DEF Entry
  <1>2. Queued' = Append(Queued, e)
    BY <1>1 DEF Queued, TypeOK, OtherPuts
  <1>3. /\ Queued \in Seq(Entry) /\ Len(Queued) \in Nat
        /\ DOMAIN Queued = 1..Len(Queued)
    BY QueuedType
  <1>4. /\ DOMAIN Queued' = 1..(Len(Queued) + 1)
        /\ \A i \in 1..Len(Queued) : Queued'[i] = Queued[i]
        /\ Queued'[Len(Queued) + 1] = e
    BY <1>1, <1>2, <1>3
  <1>5. Ours' = Ours
    BY <1>1, <1>3, <1>4 DEF Ours
  <1>6. \A i \in Ours : Place(i)' = Place(i) /\ Queued'[i].command = Queued[i].command
    BY <1>3, <1>4 DEF Ours, Place
  <1>7. Dealt' = Dealt
    BY <1>0 DEF Dealt
  <1>8. DealtIsAdmitted' /\ MaskIsLast'
    BY <1>0, <1>7 DEF Kept, DealtIsAdmitted, MaskIsLast, Command, Before
  <1>9. \A p : ChangesNothing(p)' <=> ChangesNothing(p)
    BY <1>7 DEF ChangesNothing, Command, Before
  <1>10. ChangesAreKept'
    BY <1>0, <1>5, <1>6, <1>7, <1>9 DEF Kept, ChangesAreKept, Command, Before
  <1> QED
    BY <1>8, <1>10 DEF Kept

\* A call deals with its next command: it is the last one sent so far, and is
\* queued unless it leaves down what the last pointer command left down.
LEMMA KeptByPut ==
  ASSUME TypeOK, Gate, Kept, NEW c \in Call, Put(c)
  PROVE  Kept'
  <1> USE OrderAssumption
  <1> PICK p : p = <<c, done[c] + 1>>
    OBVIOUS
  <1>0. /\ UNCHANGED <<pc, gaps, taken, open>> /\ pc[c] = "sending" /\ open
        /\ done' = [done EXCEPT ![c] = @ + 1] /\ done[c] < Len(Body[c])
        /\ mask' = IF Command(p) = Key THEN mask ELSE Command(p)
    BY DEF Put, Command
  <1>1. /\ done[c] \in Nat /\ done'[c] = done[c] + 1 /\ p \in Call \X Nat
        /\ \A d \in Call : d # c => done'[d] = done[d]
    BY <1>0 DEF TypeOK
  <1>2. Command(p) \in Nat \cup {Key}
    <2>1. Body[c] \in Seq(Nat \cup {Key}) /\ Len(Body[c]) \in Nat
      OBVIOUS
    <2>2. done[c] + 1 \in 1..Len(Body[c])
      BY <1>0, <1>1, <2>1
    <2> QED
      BY <2>1, <2>2 DEF Command
  <1>3. Dealt' = Dealt \cup {p}
    <2>2. \A q : q \in Dealt' <=> /\ q = <<q[1], q[2]>>
                                  /\ q[1] \in Call /\ q[2] \in 1..done'[q[1]]
      BY DEF Dealt
    <2>3. \A q : q \in Dealt <=> /\ q = <<q[1], q[2]>>
                                 /\ q[1] \in Call /\ q[2] \in 1..done[q[1]]
      BY DealtFacts
    <2>4. ASSUME NEW q \in Dealt'  PROVE q \in Dealt \cup {p}
      <3>1. q = <<q[1], q[2]>> /\ q[1] \in Call /\ q[2] \in 1..done'[q[1]]
        BY <2>2, <2>4
      <3>2. CASE q[1] = c /\ q[2] = done[c] + 1
        BY <3>1, <3>2
      <3>3. CASE ~(q[1] = c /\ q[2] = done[c] + 1)
        <4>1. q[2] \in 1..done[q[1]]
          BY <1>1, <3>1, <3>3
        <4> QED
          BY <2>3, <3>1, <4>1
      <3> QED
        BY <3>2, <3>3
    <2>5. ASSUME NEW q \in Dealt  PROVE q \in Dealt'
      <3>1. q = <<q[1], q[2]>> /\ q[1] \in Call /\ q[2] \in 1..done[q[1]]
        BY <2>3, <2>5
      <3>2. q[2] \in 1..done'[q[1]]
        BY <1>1, <3>1
      <3> QED
        BY <2>2, <3>1, <3>2
    <2>6. p \in Dealt'
      BY <1>1, <2>2
    <2> QED
      BY <2>4, <2>5, <2>6
  <1>4. gaps = {} => \A q \in Dealt : Before(q, p)
    BY <1>0, PutsLast DEF Kept
  <1>5. ~Before(p, p) /\ \A q \in Dealt : Before(q, p) => ~Before(p, q)
    BY <1>1, BeforeFacts, DealtPlaces
  <1>6. DealtIsAdmitted'
    BY <1>0, <1>1 DEF Kept, DealtIsAdmitted
  <1>7. MaskIsLast'
    <2> SUFFICES ASSUME gaps = {}
                 PROVE  \/ mask' = -1 /\ \A q \in Dealt' : Command(q) = Key
                        \/ \E q \in Dealt' :
                             /\ Command(q) # Key /\ mask' = Command(q)
                             /\ \A r \in Dealt' : Before(q, r) => Command(r) = Key
      BY <1>0 DEF MaskIsLast, Command, Before
    <2>1. CASE Command(p) = Key
      BY <1>0, <1>3, <2>1 DEF Kept, MaskIsLast
    <2>2. CASE Command(p) # Key
      <3>1. mask' = Command(p) /\ p \in Dealt'
        BY <1>0, <1>3, <2>2
      <3>2. \A r \in Dealt' : ~Before(p, r)
        BY <1>3, <1>4, <1>5
      <3> QED
        BY <2>2, <3>1, <3>2
    <2> QED
      BY <2>1, <2>2
  <1>8. ASSUME gaps = {}, NEW q \in Dealt, ChangesNothing(q)
        PROVE  ChangesNothing(q)'
    <2>1. PICK f \in Dealt : /\ Before(f, q) /\ Command(f) = Command(q)
                             /\ \A r \in Dealt : Before(f, r) /\ Before(r, q)
                                                   => Command(r) = Key
      BY <1>8 DEF ChangesNothing
    <2>2. ~Before(p, q)
      BY <1>4, <1>5, <1>8
    <2>3. \A r \in Dealt' : Before(f, r) /\ Before(r, q) => Command(r) = Key
      BY <1>3, <2>1, <2>2
    <2>4. f \in Dealt' /\ Command(q) # Key
      BY <1>3, <1>8 DEF ChangesNothing
    <2> QED
      BY <2>1, <2>3, <2>4 DEF ChangesNothing, Command, Before
  <1>q. /\ Queued \in Seq(Entry) /\ Len(Queued) \in Nat
        /\ DOMAIN Queued = 1..Len(Queued)
    BY QueuedType
  <1>9. CASE chan' = chan /\ MotionOnly(Command(p))
    <2>1. Queued' = Queued /\ Ours' = Ours
      BY <1>0, <1>9 DEF Queued, Ours
    <2>2. ASSUME gaps = {}  PROVE ChangesNothing(p)'
      <3>1. Command(p) # Key /\ Command(p) = mask /\ mask # -1
        BY <1>2, <1>9 DEF MotionOnly
      <3>2. PICK q \in Dealt : /\ Command(q) # Key /\ mask = Command(q)
                               /\ \A r \in Dealt : Before(q, r) => Command(r) = Key
        BY <2>2, <3>1 DEF Kept, MaskIsLast
      <3>3. q \in Dealt' /\ Before(q, p)
        BY <1>3, <1>4, <2>2
      <3>4. \A r \in Dealt' : Before(q, r) /\ Before(r, p) => Command(r) = Key
        BY <1>3, <1>5, <3>2
      <3> QED
        BY <3>1, <3>2, <3>3, <3>4 DEF ChangesNothing, Command, Before
    <2>3. ChangesAreKept'
      <3> SUFFICES ASSUME gaps = {}
                   PROVE  /\ \A q \in Dealt' :
                                ChangesNothing(q)' \/ \E i \in Ours : Place(i) = q
                          /\ \A i \in Ours : /\ Place(i) \in Dealt'
                                             /\ Queued[i].command = Command(Place(i))
                          /\ \A i, j \in Ours : i < j => Before(Place(i), Place(j))
        BY <1>0, <2>1 DEF ChangesAreKept, Place, Command, Before
      <3>1. /\ \A q \in Dealt : ChangesNothing(q) \/ \E i \in Ours : Place(i) = q
            /\ \A i \in Ours : Place(i) \in Dealt /\ Queued[i].command = Command(Place(i))
            /\ \A i, j \in Ours : i < j => Before(Place(i), Place(j))
        BY <1>0 DEF Kept, ChangesAreKept
      <3>2. \A q \in Dealt' : ChangesNothing(q)' \/ \E i \in Ours : Place(i) = q
        BY <1>3, <1>8, <2>2, <3>1
      <3> QED
        BY <1>3, <3>1, <3>2
    <2> QED
      BY <1>6, <1>7, <2>3 DEF Kept
  <1>10. CASE chan' = Append(chan, [by |-> c, nth |-> done[c] + 1, command |-> Command(p)])
    <2> PICK e : e = [by |-> c, nth |-> done[c] + 1, command |-> Command(p)]
      OBVIOUS
    <2>0. /\ e \in Entry /\ e.by = c /\ c # 0 /\ <<e.by, e.nth>> = p
          /\ e.command = Command(p)
      BY <1>1, <1>2 DEF Entry, Call
    <2>1. Queued' = Append(Queued, e)
      BY <1>0, <1>10, <2>0 DEF Queued, TypeOK
    <2> PICK n : n = Len(Queued) + 1
      OBVIOUS
    <2>2. /\ DOMAIN Queued' = 1..n /\ Queued'[n] = e /\ n \in Nat
          /\ \A i \in 1..Len(Queued) : Queued'[i] = Queued[i]
      BY <1>q, <2>0, <2>1
    <2>3. Ours' = Ours \cup {n} /\ \A i \in Ours : i \in Nat /\ i < n
      BY <1>q, <2>0, <2>2 DEF Ours
    <2>4. \A i \in Ours : /\ <<Queued'[i].by, Queued'[i].nth>> = Place(i)
                          /\ Queued'[i].command = Queued[i].command
      BY <1>q, <2>2 DEF Ours, Place
    <2>5. ChangesAreKept'
      <3> SUFFICES ASSUME gaps = {}  PROVE ChangesAreKept'
        BY <1>0 DEF ChangesAreKept
      <3> DEFINE P(i) == <<Queued'[i].by, Queued'[i].nth>>
      <3>0. P(n) = p /\ Queued'[n].command = Command(p) /\ \A i \in Ours : P(i) = Place(i)
        BY <2>0, <2>2, <2>4
      <3> HIDE DEF P
      <3>1. /\ \A q \in Dealt : ChangesNothing(q) \/ \E i \in Ours : Place(i) = q
            /\ \A i \in Ours : Place(i) \in Dealt /\ Queued[i].command = Command(Place(i))
            /\ \A i, j \in Ours : i < j => Before(Place(i), Place(j))
        BY <1>0 DEF Kept, ChangesAreKept
      <3>2. \A q \in Dealt' : ChangesNothing(q)' \/ \E i \in Ours' : P(i) = q
        BY <1>3, <1>8, <2>3, <3>0, <3>1
      <3>3. \A i \in Ours' : P(i) \in Dealt' /\ Queued'[i].command = Command(P(i))
        BY <1>3, <2>3, <2>4, <3>0, <3>1
      <3>4. ASSUME NEW i \in Ours', NEW j \in Ours', i < j  PROVE Before(P(i), P(j))
        <4>1. CASE j \in Ours
          <5>1. i \in Ours
            BY <2>2, <2>3, <3>4, <4>1
          <5> QED
            BY <3>0, <3>1, <3>4, <4>1, <5>1
        <4>2. CASE j = n
          <5>1. i \in Ours
            BY <2>2, <2>3, <3>4, <4>2
          <5> QED
            BY <1>4, <3>0, <3>1, <4>2, <5>1
        <4> QED
          BY <2>3, <4>1, <4>2
      <3>5. \A i \in Ours' : P(i) = Place(i)'
        BY DEF P, Place
      <3>6. \A i \in Ours' : Place(i)' \in Dealt' /\ Queued'[i].command = Command(Place(i)')
        BY <3>3, <3>5
      <3>7. \A i, j \in Ours' : i < j => Before(Place(i)', Place(j)')
        BY <3>4, <3>5
      <3>8. \A q \in Dealt' : ChangesNothing(q)' \/ \E i \in Ours' : Place(i)' = q
        BY <3>2, <3>5
      <3> QED
        BY <3>6, <3>7, <3>8 DEF ChangesAreKept, Command, Before
    <2> QED
      BY <1>6, <1>7, <2>5 DEF Kept
  <1> QED
    BY <1>1, <1>9, <1>10 DEF Put, Command

LEMMA KeptStep ==
  ASSUME TypeOK, Gate, Kept, [Next]_vars
  PROVE  Kept'
  <1>1. CASE UNCHANGED vars \/ Finished
    <2>1. UNCHANGED <<pc, done, mask, gaps, open, chan, taken>>
      BY <1>1 DEF vars, Finished
    <2>2. Queued' = Queued
      BY <2>1 DEF Queued
    <2> QED
      BY <2>1, <2>2, KeptSame
  <1>2. ASSUME NEW c \in Call,
               Arrive(c) \/ Enable(c) \/ Check(c) \/ Sleep(c)
                 \/ Wake(c) \/ TimeOut(c)
                 \/ Leave(c) \/ NotifyWaiters(c)
        PROVE  Kept'
    <2>1. /\ UNCHANGED <<done, mask, open, chan, taken>> /\ gaps \subseteq gaps'
          /\ \A d \in Call : pc[d] \in {"sending"} \cup Past
                               => pc'[d] \in {"sending"} \cup Past
      BY <1>2 DEF TypeOK, Arrive, Enable, Check, Sleep, Wake, TimeOut,
                  Leave, NotifyWaiters, Past
    <2>2. Queued' = Queued
      BY <2>1 DEF Queued
    <2> QED
      BY <2>1, <2>2, KeptSame
  <1>3. ASSUME NEW c \in Call, Put(c)  PROVE Kept'
    BY <1>3, KeptByPut
  <1>4. CASE OtherPuts
    BY <1>4, KeptAmongOthers
  <1>5. CASE TakeOne
    <2>1. Queued' = Queued
      BY <1>5 DEF Queued, TypeOK, TakeOne
    <2>2. UNCHANGED <<pc, done, mask, gaps, open>>
      BY <1>5 DEF TakeOne
    <2> QED
      BY <2>1, <2>2, KeptSame
  <1>6. CASE Close
    <2>1. UNCHANGED <<pc, done, mask, gaps>> /\ ~open'
      BY <1>6 DEF Close
    <2> QED
      BY <2>1, KeptSame
  <1> QED
    BY <1>1, <1>2, <1>3, <1>4, <1>5, <1>6 DEF Next

----------------------------------------------------------------------------

Inv == TypeOK /\ NoMissedTurn /\ Gate /\ QueuedIsAdmitted /\ OvertakingIsLogged /\ Kept

\* Nobody has arrived.
LEMMA InitInv == Init => Inv
  <1> SUFFICES ASSUME Init  PROVE Inv
    OBVIOUS
  <1> USE OrderAssumption DEF Call
  <1>1. TypeOK
    BY DEF Init, TypeOK, Step
  <1>2. NoMissedTurn /\ Gate
    BY DEF Init, NoMissedTurn, Gate, ReturnedIsPassed, PassedIsReturned,
           AheadIsReturned, Past
  <1>3. Queued = << >>
    BY DEF Init, Queued
  <1>4. QueuedIsAdmitted /\ OvertakingIsLogged
    BY <1>3 DEF QueuedIsAdmitted, OvertakingIsLogged
  <1>5. Dealt = {} /\ Ours = {}
    BY <1>3 DEF Init, Dealt, Ours
  <1>6. Kept
    BY <1>5 DEF Init, Kept, DealtIsAdmitted, MaskIsLast, ChangesAreKept
  <1> QED
    BY <1>1, <1>2, <1>4, <1>6 DEF Inv

\* The inductive invariant holds in every reachable state.
THEOREM Invariance == Spec => []Inv
  <1>1. Inv /\ [Next]_vars => Inv'
    BY TypeStep, NoMissedTurnStep, GateStep, InOrderStep, KeptStep DEF Inv, InOrder
  <1> QED
    BY <1>1, InitInv, PTL DEF Spec

\* Type correctness, for every number of calls.
THEOREM TypeCorrect == Spec => []TypeOK
  <1>1. Inv => TypeOK
    BY DEF Inv
  <1> QED
    BY <1>1, Invariance, PTL

\* No call sleeps through its turn.
THEOREM NoLostWakeup == Spec => []NoMissedTurn
  <1>1. Inv => NoMissedTurn
    BY DEF Inv
  <1> QED
    BY <1>1, Invariance, PTL

\* Commands are queued in the order of their calls, or the gap is logged.
THEOREM OrderIsKept == Spec => []OvertakingIsLogged
  <1>1. Inv => OvertakingIsLogged
    BY DEF Inv
  <1> QED
    BY <1>1, Invariance, PTL

\* Every key and every change of buttons is queued or taken, as and in the
\* order it was sent, while no call has given up waiting: whatever the bodies,
\* the capacity and the motion shed (send_input).
THEOREM ChangesKept == Spec => []ChangesAreKept
  <1>1. Inv => ChangesAreKept
    BY DEF Inv, Kept
  <1> QED
    BY <1>1, Invariance, PTL
=============================================================================
