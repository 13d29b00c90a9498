----------------------------- MODULE DoorProofs -----------------------------
(***************************************************************************)
(* The safety of unattended access for every number of helpers, listeners, *)
(* seats and failures.  The counters are bounded only because each lock is *)
(* held by one task of its listener: the throttle's while a password is    *)
(* worked out and paid for, the question's until it is settled.  So the    *)
(* inductive invariant says who is where, listener by listener.            *)
(***************************************************************************)
EXTENDS Door, FiniteSetTheorems, NaturalsInduction, SequenceTheorems, TLAPS

Stage == Undecided \cup Seated \cup {"out", "telling", "done"}
Notice == [kind : {"ask", "in", "word", "fin"}, who : Helper \cup {None}]

\* The stages in which a task has the throttle, and the question, locked.
Throttling == {"hashing", "punished"}
Questioning == {"putting", "asking", "pairing"} \cup Verdict

\* The helpers that one listener has seated.
SeatsOf(i) == {h \in Helper : of[h] = i /\ at[h] \in Seated}

\* Every task belongs to a listener that was started.
Placed == \A h \in Helper : at[h] # "out" => of[h] \in 1..Listeners

\* At most one task of a listener is in these stages.
Alone(stages) ==
    \A g, h \in Helper :
        (at[g] \in stages /\ at[h] \in stages /\ of[g] = of[h]) => g = h

\* A password is only worked out where another failure is still allowed.
BelowTheLimit ==
    \A h \in Helper : at[h] = "hashing" => failures[of[h]] < LOCKOUT_FAILURES

\* The person is asked about one helper at a time: a listener puts, or waits
\* for the answer to, or acts on, one question (ask's try_lock).
OneQuestion == Alone(Questioning)

\* No listener serves more than MAX_HELPERS at once, not while some are on
\* their way in nor while others are on their way out (the seats semaphore).
SeatsAreBounded ==
    \A i \in 1..Listeners :
        IsFiniteSet(SeatsOf(i)) /\ Cardinality(SeatsOf(i)) <= MAX_HELPERS

\* Only the listener's end names nobody.
Named == \A i \in DOMAIN notices : notices[i].kind # "fin" => notices[i].who \in Helper

TaskInv ==
    /\ Placed /\ Alone(Throttling) /\ BelowTheLimit /\ GuessesAreBounded
    /\ OneQuestion /\ SeatsAreBounded

Inv == TypeOK /\ Named /\ TaskInv

\* TypeOK, the tasks' part and the window's.
TaskTypes ==
    /\ at \in [Helper -> Stage]
    /\ of \in [Helper -> 0..Listeners]
    /\ gone \subseteq Helper
    /\ failures \in [1..Listeners -> Nat]
    /\ copy \in [Helper -> Access]

WindowTypes ==
    /\ scene \in Scenes
    /\ file \in Access /\ mine \in Access
    /\ hashing \in Access \cup {None}
    /\ listener \in 0..started /\ started \in 0..Listeners
    /\ ask \in Helper \cup {None} /\ active \subseteq Helper
    /\ changes \in 0..scene.changes

NoticeTypes == notices \in Seq(Notice) /\ Len(notices) <= Room

LEMMA TypeParts == TypeOK <=> TaskTypes /\ WindowTypes /\ NoticeTypes
  BY DEF TypeOK, TaskTypes, WindowTypes, NoticeTypes, Stage, Notice

LEMMA SceneFacts ==
    ASSUME scene \in Scenes
    PROVE  /\ scene.guess \in [Helper -> Guess] /\ scene.helpers \subseteq Helper
           /\ scene.file \in Access /\ scene.verdicts \subseteq Verdict
           /\ scene.changes \in Nat
  BY DoorAssumption

LEMMA Bounds ==
    /\ Listeners \in Nat /\ Listeners >= 1
    /\ MAX_HELPERS \in Nat /\ MAX_HELPERS >= 1
    /\ LOCKOUT_FAILURES \in Nat /\ LOCKOUT_FAILURES >= 1
    /\ Room \in Nat /\ Room >= 1
  BY DoorAssumption

\* A non-empty set of indices has a last one.
LEMMA LastOf ==
    ASSUME NEW n \in Nat, NEW S \in SUBSET (1..n), S # {}
    PROVE  \E i \in S : \A j \in S : j <= i
  <1> DEFINE D == {n - i : i \in S}
  <1>1. D \in SUBSET Nat /\ D # {}
    <2>1. \A i \in S : n - i \in Nat
      OBVIOUS
    <2>2. PICK i \in S : TRUE
      OBVIOUS
    <2>3. n - i \in D
      BY <2>2
    <2> QED
      BY <2>1, <2>3
  <1>2. PICK d \in D : \A e \in D : ~(<<e, d>> \in OpToRel(<, Nat))
    <2> HIDE DEF D
    <2> QED
      BY <1>1, NatLessThanWellFounded, WFMin
  <1>3. \A e \in D : ~(e < d)
    BY <1>1, <1>2 DEF OpToRel
  <1>4. PICK i \in S : d = n - i
    OBVIOUS
  <1>5. \A j \in S : n - j \in D
    OBVIOUS
  <1>6. \A j \in S : ~(n - j < n - i)
    BY <1>3, <1>4, <1>5
  <1> QED
    BY <1>6

-----------------------------------------------------------------------------
(* The tasks. *)

\* What depends on the tasks alone is kept by whatever leaves them alone.
LEMMA TasksStay ==
    ASSUME TaskInv, UNCHANGED <<at, of, failures>>
    PROVE  TaskInv'
  BY DEF TaskInv, Placed, Alone, BelowTheLimit, GuessesAreBounded, OneQuestion,
         SeatsAreBounded, SeatsOf

\* A task that goes on to another stage keeps to its locks.
LEMMA TaskMoves ==
    ASSUME TaskTypes, TaskInv, NEW h \in Helper, NEW s \in Stage \ {"out", "punished"},
           at[h] # "out", at' = [at EXCEPT ![h] = s], UNCHANGED <<of, failures>>,
           s = "hashing" =>
               Others(h, Throttling) = {} /\ failures[of[h]] < LOCKOUT_FAILURES,
           s \in Questioning => (at[h] \in Questioning \/ Others(h, Questioning) = {}),
           s \in Seated =>
               (at[h] \in Seated \/ Cardinality(Others(h, Seated)) < MAX_HELPERS)
    PROVE  TaskInv'
  <1>1. \A g \in Helper : at'[g] = IF g = h THEN s ELSE at[g]
    BY DEF TaskTypes
  <1>2. Placed'
    BY <1>1 DEF TaskInv, Placed
  <1>3. Alone(Throttling)'
    BY <1>1 DEF TaskInv, Alone, Throttling, Others
  <1>4. BelowTheLimit'
    BY <1>1 DEF TaskInv, BelowTheLimit
  <1>5. GuessesAreBounded'
    BY DEF TaskInv, GuessesAreBounded
  <1>6. OneQuestion'
    <2> SUFFICES ASSUME NEW f \in Helper, NEW g \in Helper, at'[f] \in Questioning,
                        at'[g] \in Questioning, of[f] = of[g]
                 PROVE  f = g
      BY DEF OneQuestion, Alone
    <2>1. CASE f # h /\ g # h
      BY <1>1, <2>1 DEF TaskInv, OneQuestion, Alone
    <2>2. CASE f = h /\ g # h
      BY <1>1, <2>2 DEF TaskInv, OneQuestion, Alone, Others
    <2>3. CASE f # h /\ g = h
      BY <1>1, <2>3 DEF TaskInv, OneQuestion, Alone, Others
    <2> QED
      BY <2>1, <2>2, <2>3
  <1>7. SeatsAreBounded'
    <2> SUFFICES ASSUME NEW i \in 1..Listeners
                 PROVE  (IsFiniteSet(SeatsOf(i)) /\ Cardinality(SeatsOf(i)) <= MAX_HELPERS)'
      BY DEF SeatsAreBounded
    <2>1. IsFiniteSet(SeatsOf(i)) /\ Cardinality(SeatsOf(i)) <= MAX_HELPERS
      BY DEF TaskInv, SeatsAreBounded
    <2>2. CASE s \in Seated /\ at[h] \notin Seated /\ of[h] = i
      <3>1. Others(h, Seated) = SeatsOf(i) /\ h \notin SeatsOf(i)
        BY <2>2 DEF Others, SeatsOf
      <3>2. SeatsOf(i)' = SeatsOf(i) \cup {h}
        BY <1>1, <2>2 DEF SeatsOf
      <3>3. /\ IsFiniteSet(SeatsOf(i) \cup {h})
            /\ Cardinality(SeatsOf(i) \cup {h}) = Cardinality(SeatsOf(i)) + 1
        BY <2>1, <3>1, FS_AddElement
      <3>4. Cardinality(SeatsOf(i)) < MAX_HELPERS
        BY <2>2, <3>1
      <3>5. Cardinality(SeatsOf(i)) \in Nat
        BY <2>1, FS_CardinalityType
      <3>6. Cardinality(SeatsOf(i)) + 1 <= MAX_HELPERS
        BY <3>4, <3>5, Bounds
      <3> QED
        BY <3>2, <3>3, <3>6, Zenon
    <2>3. CASE ~(s \in Seated /\ at[h] \notin Seated /\ of[h] = i)
      <3>1. SeatsOf(i)' \subseteq SeatsOf(i)
        BY <1>1, <2>3 DEF SeatsOf
      <3>2. IsFiniteSet(SeatsOf(i)') /\ Cardinality(SeatsOf(i)') <= Cardinality(SeatsOf(i))
        BY <2>1, <3>1, FS_Subset
      <3>3. Cardinality(SeatsOf(i)) \in Nat /\ Cardinality(SeatsOf(i)') \in Nat
        BY <2>1, <3>2, FS_CardinalityType
      <3> QED
        BY <2>1, <3>2, <3>3, Bounds
    <2> QED
      BY <2>2, <2>3
  <1> QED
    BY <1>2, <1>3, <1>4, <1>5, <1>6, <1>7 DEF TaskInv

\* A wrong password is one failure more for its listener, and the task that
\* brought it keeps the throttle.
LEMMA HashedKeeps ==
    ASSUME TaskTypes, TaskInv, NEW h \in Helper, Hashed(h)
    PROVE  (TaskTypes /\ TaskInv)'
  <1>0. at[h] = "hashing" /\ UNCHANGED <<of, gone, copy>>
    BY DEF Hashed
  <1>1. CASE scene.guess[h] = "right"
    <2>1. at' = [at EXCEPT ![h] = "granted"] /\ UNCHANGED failures
      BY <1>1 DEF Hashed, Becomes
    <2>2. "granted" \in Stage \ {"out", "punished", "hashing"} /\ "granted" \notin Questioning
          /\ "granted" \notin Seated
      BY DEF Stage, Undecided, Seated, Questioning, Verdict
    <2>3. TaskInv'
      BY <1>0, <2>1, <2>2, TaskMoves
    <2> QED
      BY <1>0, <2>1, <2>2, <2>3 DEF TaskTypes
  <1>2. CASE scene.guess[h] # "right"
    <2>1. /\ at' = [at EXCEPT ![h] = "punished"]
          /\ failures' = [failures EXCEPT ![of[h]] = @ + 1]
      BY <1>2 DEF Hashed, Becomes
    <2>2. of[h] \in 1..Listeners /\ failures[of[h]] < LOCKOUT_FAILURES
      BY <1>0 DEF TaskInv, Placed, BelowTheLimit
    <2>3. /\ "punished" \in Stage /\ "punished" \notin Seated
          /\ at[h] \notin Seated /\ "punished" \notin Questioning
      BY <1>0 DEF Stage, Undecided, Seated, Questioning, Verdict
    <2>4. \A g \in Helper : at'[g] = IF g = h THEN "punished" ELSE at[g]
      BY <2>1 DEF TaskTypes
    <2>5. TaskTypes'
      BY <1>0, <2>1, <2>2, <2>3 DEF TaskTypes
    <2>6. Placed' /\ Alone(Throttling)'
      BY <1>0, <2>2, <2>4 DEF TaskInv, Placed, Alone, Throttling
    <2>7. \A g \in Helper : at'[g] = "hashing" => g # h /\ at[g] = "hashing" /\ of[g] # of[h]
      BY <1>0, <2>4 DEF TaskInv, Alone, Throttling
    <2>8. BelowTheLimit'
      BY <1>0, <2>1, <2>2, <2>7 DEF TaskInv, BelowTheLimit, TaskTypes, Placed
    <2>9. GuessesAreBounded'
      BY <2>1, <2>2, Bounds DEF TaskInv, GuessesAreBounded, TaskTypes
    <2>10. OneQuestion'
      BY <1>0, <2>3, <2>4 DEF TaskInv, OneQuestion, Alone
    <2>11. \A i \in 1..Listeners : SeatsOf(i)' = SeatsOf(i)
      BY <1>0, <2>3, <2>4 DEF SeatsOf
    <2>12. SeatsAreBounded'
      BY <2>11 DEF TaskInv, SeatsAreBounded
    <2> QED
      BY <2>5, <2>6, <2>8, <2>9, <2>10, <2>12 DEF TaskInv
  <1> QED
    BY <1>1, <1>2

LEMMA ForgottenKeeps ==
    ASSUME TaskTypes, TaskInv, NEW i \in 1..Listeners, Forgotten(i)
    PROVE  (TaskTypes /\ TaskInv)'
  <1>1. /\ failures' = [failures EXCEPT ![i] = @ - 1] /\ failures[i] > 0
        /\ UNCHANGED <<at, of, gone, copy>>
    BY DEF Forgotten
  <1>2. \A j \in 1..Listeners : failures'[j] \in Nat /\ failures'[j] <= failures[j]
    BY <1>1 DEF TaskTypes
  <1>3. TaskTypes'
    BY <1>1 DEF TaskTypes
  <1>4. BelowTheLimit' /\ GuessesAreBounded'
    BY <1>1, <1>2, Bounds
       DEF TaskInv, BelowTheLimit, GuessesAreBounded, Placed, TaskTypes
  <1>5. Placed' /\ Alone(Throttling)' /\ OneQuestion' /\ SeatsAreBounded'
    BY <1>1 DEF TaskInv, Placed, Alone, OneQuestion, SeatsAreBounded, SeatsOf
  <1> QED
    BY <1>3, <1>4, <1>5 DEF TaskInv

\* A helper that knocks comes to the listener there is.
LEMMA KnockKeeps ==
    ASSUME TaskTypes, WindowTypes, TaskInv, NEW h \in Helper, Knock(h)
    PROVE  (TaskTypes /\ TaskInv)'
  <1>1. /\ at' = [at EXCEPT ![h] = "knocked"] /\ of' = [of EXCEPT ![h] = listener]
        /\ at[h] = "out" /\ UNCHANGED <<gone, failures, copy>>
    BY DEF Knock, Becomes
  <1>2. listener \in 1..Listeners
    BY Bounds DEF Knock, WindowTypes
  <1>3. /\ "knocked" \in Stage /\ "knocked" \notin Questioning \cup Throttling \cup Seated
        /\ "out" \notin Questioning \cup Throttling \cup Seated
    BY DEF Stage, Undecided, Seated, Questioning, Throttling, Verdict
  <1>4. \A g \in Helper : /\ at'[g] = IF g = h THEN "knocked" ELSE at[g]
                          /\ of'[g] = IF g = h THEN listener ELSE of[g]
    BY <1>1 DEF TaskTypes
  <1>5. TaskTypes'
    BY <1>1, <1>2, <1>3 DEF TaskTypes
  <1>6. Placed'
    BY <1>2, <1>4 DEF TaskInv, Placed
  <1>7. Alone(Throttling)'
    BY <1>3, <1>4 DEF TaskInv, Alone
  <1>8. OneQuestion'
    BY <1>3, <1>4 DEF TaskInv, OneQuestion, Alone
  <1>9. BelowTheLimit' /\ GuessesAreBounded'
    BY <1>1, <1>4 DEF TaskInv, BelowTheLimit, GuessesAreBounded
  <1>10. \A i \in 1..Listeners : SeatsOf(i)' = SeatsOf(i)
    BY <1>1, <1>3, <1>4 DEF SeatsOf
  <1>11. SeatsAreBounded'
    BY <1>10 DEF TaskInv, SeatsAreBounded
  <1> QED
    BY <1>5, <1>6, <1>7, <1>8, <1>9, <1>11 DEF TaskInv

\* The steps of a task but Hashed: each moves one task on by its locks.
OneMoves(h) ==
    \/ Authorize(h) \/ Tries(h) \/ Punished(h)
    \/ AskLocks(h) \/ Puts(h) \/ Unanswered(h) \/ Answered(h) \/ Paired(h)
    \/ Sits(h) \/ Announces(h) \/ ServeEnds(h) \/ ServeFails(h) \/ Leaves(h)
    \/ Told(h) \/ GivenUp(h)

LEMMA StageMoves ==
    ASSUME TaskTypes, TaskInv, NEW h \in Helper, OneMoves(h)
    PROVE  \E s \in Stage \ {"out", "punished"} :
             /\ at[h] # "out" /\ at' = [at EXCEPT ![h] = s]
             /\ s = "hashing" =>
                  Others(h, Throttling) = {} /\ failures[of[h]] < LOCKOUT_FAILURES
             /\ s \in Questioning => (at[h] \in Questioning \/ Others(h, Questioning) = {})
             /\ s \in Seated =>
                  (at[h] \in Seated \/ Cardinality(Others(h, Seated)) < MAX_HELPERS)
  <1> DEFINE Good(s) ==
               /\ at[h] # "out" /\ at' = [at EXCEPT ![h] = s]
               /\ s = "hashing" =>
                    Others(h, Throttling) = {} /\ failures[of[h]] < LOCKOUT_FAILURES
               /\ s \in Questioning => (at[h] \in Questioning \/ Others(h, Questioning) = {})
               /\ s \in Seated =>
                    (at[h] \in Seated \/ Cardinality(Others(h, Seated)) < MAX_HELPERS)
             Plain == {"telling", "granted", "queued", "stranger", "done"}
  <1>0. /\ Plain \subseteq Stage \ {"out", "punished"}
        /\ {"hashing", "putting", "asking", "pairing", "announcing", "served", "ending"}
             \subseteq Stage \ {"out", "punished"}
        /\ \A s \in Plain : s # "hashing" /\ s \notin Questioning /\ s \notin Seated
    BY DEF Stage, Undecided, Seated, Questioning, Verdict
  <1>1. ASSUME at[h] # "out", NEW s \in Plain, Becomes(h, s)
        PROVE  \E w \in Stage \ {"out", "punished"} : Good(w)
    BY <1>0, <1>1 DEF Becomes
  <1>2. CASE Authorize(h)
    <2>1. \E s \in Plain : Becomes(h, s)
      BY <1>2 DEF Authorize
    <2>2. at[h] # "out"
      BY <1>2 DEF Authorize
    <2> QED
      BY <1>1, <2>1, <2>2
  <1>3. CASE Tries(h)
    <2>1. CASE failures[of[h]] >= LOCKOUT_FAILURES
      <3>1. Becomes(h, "telling") /\ at[h] # "out"
        BY <1>3, <2>1 DEF Tries
      <3> QED
        BY <1>1, <3>1
    <2>2. CASE ~(failures[of[h]] >= LOCKOUT_FAILURES)
      <3>0. failures[of[h]] \in Nat
        BY <1>3 DEF Tries, TaskInv, Placed, TaskTypes
      <3>1. Becomes(h, "hashing") /\ at[h] # "out" /\ Others(h, Throttling) = {}
        BY <1>3, <2>2 DEF Tries, Throttling
      <3>2. "hashing" \notin Questioning \cup Seated
        BY DEF Questioning, Seated, Verdict
      <3>3. failures[of[h]] < LOCKOUT_FAILURES
        BY <2>2, <3>0, Bounds
      <3>4. Good("hashing")
        BY <3>1, <3>2, <3>3 DEF Becomes
      <3> QED
        BY <1>0, <3>4
    <2> QED
      BY <2>1, <2>2
  <1>4. CASE AskLocks(h)
    <2>1. CASE Others(h, {"putting", "asking", "pairing"} \cup Verdict) = {}
      <3>1. Becomes(h, "putting") /\ at[h] # "out" /\ Others(h, Questioning) = {}
        BY <1>4, <2>1 DEF AskLocks, Questioning
      <3>2. Good("putting")
        BY <3>1 DEF Becomes, Seated
      <3> QED
        BY <1>0, <3>2
    <2>2. CASE Others(h, {"putting", "asking", "pairing"} \cup Verdict) # {}
      <3>1. Becomes(h, "telling") /\ at[h] # "out"
        BY <1>4, <2>2 DEF AskLocks
      <3> QED
        BY <1>1, <3>1
    <2> QED
      BY <2>1, <2>2
  <1>5. CASE Puts(h)
    <2>1. Becomes(h, "asking") /\ at[h] = "putting"
      BY <1>5 DEF Puts
    <2>2. Good("asking")
      BY <2>1 DEF Becomes, Questioning, Seated
    <2> QED
      BY <1>0, <2>2
  <1>6. CASE Answered(h)
    <2>1. at[h] # "out" /\ at[h] \in Questioning
      BY <1>6 DEF Answered, Verdict, Questioning
    <2>2. CASE at[h] = "paired"
      <3>1. Becomes(h, "pairing")
        BY <1>6, <2>2 DEF Answered
      <3>2. Good("pairing")
        BY <2>1, <3>1 DEF Becomes, Seated
      <3> QED
        BY <1>0, <3>2
    <2>3. CASE at[h] # "paired"
      <3>1. \E s \in Plain : Becomes(h, s)
        BY <1>6, <2>3 DEF Answered, Verdict
      <3> QED
        BY <1>1, <2>1, <3>1
    <2> QED
      BY <2>2, <2>3
  <1>7. CASE Sits(h)
    <2>1. CASE Cardinality(Others(h, Seated)) < MAX_HELPERS
      <3>1. Becomes(h, "announcing") /\ at[h] # "out"
        BY <1>7, <2>1 DEF Sits
      <3>2. Good("announcing")
        BY <2>1, <3>1 DEF Becomes, Questioning, Verdict
      <3> QED
        BY <1>0, <3>2
    <2>2. CASE ~(Cardinality(Others(h, Seated)) < MAX_HELPERS)
      <3>1. Becomes(h, "telling") /\ at[h] # "out"
        BY <1>7, <2>2 DEF Sits
      <3> QED
        BY <1>1, <3>1
    <2> QED
      BY <2>1, <2>2
  <1>8. CASE Announces(h)
    <2>1. Becomes(h, "served") /\ at[h] = "announcing"
      BY <1>8 DEF Announces
    <2>2. Good("served")
      BY <2>1 DEF Becomes, Questioning, Verdict, Seated
    <2> QED
      BY <1>0, <2>2
  <1>9. CASE ServeEnds(h) \/ ServeFails(h)
    <2>1. Becomes(h, "ending") /\ at[h] = "served"
      BY <1>9 DEF ServeEnds, ServeFails
    <2>2. Good("ending")
      BY <2>1 DEF Becomes, Questioning, Verdict, Seated
    <2> QED
      BY <1>0, <2>2
  <1>10. CASE Punished(h) \/ Unanswered(h) \/ Paired(h) \/ Leaves(h) \/ Told(h) \/ GivenUp(h)
    <2>1. \E s \in Plain : Becomes(h, s)
      BY <1>10 DEF Punished, Unanswered, Paired, Leaves, Told, GivenUp
    <2>2. at[h] # "out"
      BY <1>10 DEF Punished, Unanswered, Paired, Leaves, Told, GivenUp, Undecided, Verdict
    <2> QED
      BY <1>1, <2>1, <2>2
  <1> QED
    BY <1>2, <1>3, <1>4, <1>5, <1>6, <1>7, <1>8, <1>9, <1>10 DEF OneMoves

\* What a task leaves of the window, and what it may do to the notices.
LEMMA TellKeeps ==
    ASSUME NoticeTypes, Named, NEW h \in Helper \cup {None},
           NEW k \in {"ask", "in", "word", "fin"}, k # "fin" => h \in Helper, Tell(k, h)
    PROVE  (NoticeTypes /\ Named)'
  <1> DEFINE n == [kind |-> k, who |-> h]
  <1>1. n \in Notice /\ notices' = Append(notices, n) /\ Len(notices) < Room
    BY DEF Notice, Tell
  <1>2. /\ notices' \in Seq(Notice) /\ Len(notices') = Len(notices) + 1
        /\ Len(notices) \in Nat /\ DOMAIN notices = 1..Len(notices)
        /\ DOMAIN notices' = 1..(Len(notices) + 1)
        /\ \A i \in 1..Len(notices) : notices'[i] = notices[i]
        /\ notices'[Len(notices) + 1] = n
    BY <1>1 DEF NoticeTypes
  <1>3. NoticeTypes'
    BY <1>1, <1>2, Bounds DEF NoticeTypes
  <1>4. Named'
    <2> SUFFICES ASSUME NEW i \in 1..(Len(notices) + 1), notices'[i].kind # "fin"
                 PROVE  notices'[i].who \in Helper
      BY <1>2 DEF Named
    <2>1. CASE i = Len(notices) + 1
      BY <1>2, <2>1
    <2>2. CASE i # Len(notices) + 1
      <3>1. i \in 1..Len(notices)
        BY <1>2, <2>2
      <3> QED
        BY <1>2, <3>1 DEF Named
    <2> QED
      BY <2>1, <2>2
  <1> QED
    BY <1>3, <1>4

LEMMA OneMovesKeeps ==
    ASSUME TaskTypes, WindowTypes, NoticeTypes, Named, TaskInv,
           NEW h \in Helper, OneMoves(h)
    PROVE  (TaskTypes /\ WindowTypes /\ NoticeTypes /\ Named /\ TaskInv)'
  <1>1. UNCHANGED <<of, gone, failures>>
    BY DEF OneMoves, Authorize, Tries, Punished, AskLocks, Puts, Unanswered, Answered,
           Paired, Sits, Announces, ServeEnds, ServeFails, Leaves, Told, GivenUp
  <1>2. UNCHANGED <<scene, mine, hashing, listener, started, ask, active, changes>>
    BY DEF OneMoves, Authorize, Tries, Punished, AskLocks, Puts, Unanswered, Answered,
           Paired, Sits, Announces, ServeEnds, ServeFails, Leaves, Told, GivenUp, windowVars
  <1>3. PICK s \in Stage \ {"out", "punished"} :
             /\ at[h] # "out" /\ at' = [at EXCEPT ![h] = s]
             /\ s = "hashing" =>
                  Others(h, Throttling) = {} /\ failures[of[h]] < LOCKOUT_FAILURES
             /\ s \in Questioning => (at[h] \in Questioning \/ Others(h, Questioning) = {})
             /\ s \in Seated =>
                  (at[h] \in Seated \/ Cardinality(Others(h, Seated)) < MAX_HELPERS)
    BY StageMoves
  <1>4. TaskInv'
    BY <1>1, <1>3, TaskMoves
  <1>5. copy' = copy \/ copy' = [copy EXCEPT ![h] = file]
    BY DEF OneMoves, Authorize, Tries, Punished, AskLocks, Puts, Unanswered, Answered,
           Paired, Sits, Announces, ServeEnds, ServeFails, Leaves, Told, GivenUp
  <1>6. TaskTypes'
    BY <1>1, <1>3, <1>5 DEF TaskTypes, WindowTypes
  <1>7. file' = file \/ file' = [copy[h] EXCEPT !.helpers = @ \cup {h}]
    BY DEF OneMoves, Authorize, Tries, Punished, AskLocks, Puts, Unanswered, Answered,
           Paired, Sits, Announces, ServeEnds, ServeFails, Leaves, Told, GivenUp
  <1>8. file' \in Access
    BY <1>7, SMTT(30) DEF TaskTypes, WindowTypes, Access
  <1>9. WindowTypes'
    BY <1>2, <1>8 DEF WindowTypes
  <1>10. notices' = notices \/ \E k \in {"ask", "in", "word"} : Tell(k, h)
    BY DEF OneMoves, Authorize, Tries, Punished, AskLocks, Puts, Unanswered, Answered,
           Paired, Sits, Announces, ServeEnds, ServeFails, Leaves, Told, GivenUp
  <1>11. (NoticeTypes /\ Named)'
    <2>1. CASE notices' = notices
      BY <2>1 DEF NoticeTypes, Named
    <2>2. ASSUME NEW k \in {"ask", "in", "word"}, Tell(k, h)
          PROVE  (NoticeTypes /\ Named)'
      BY <2>2, TellKeeps
    <2> QED
      BY <1>10, <2>1, <2>2
  <1> QED
    BY <1>4, <1>6, <1>9, <1>11

-----------------------------------------------------------------------------
(* The window. *)

LEMMA SilenceIsNamed ==
    ASSUME notices' = << >>
    PROVE  (NoticeTypes /\ Named)'
  BY Bounds DEF NoticeTypes, Named

LEMMA StartKeeps ==
    ASSUME WindowTypes, Start
    PROVE  listener' \in 0..started' /\ started' \in 0..Listeners
  BY Bounds DEF WindowTypes, Start

LEMMA ChangeKeeps ==
    ASSUME WindowTypes, Change, UNCHANGED scene
    PROVE  changes' \in 0..scene'.changes
  BY SceneFacts DEF WindowTypes, Change

\* A question whose helper the window knows, or none.
LEMMA LastAskFacts ==
    ASSUME WindowTypes, NoticeTypes, Named
    PROVE  LastAsk \in Helper \cup {None}
  <1> DEFINE asks == {i \in DOMAIN notices : notices[i].kind = "ask"}
  <1>1. CASE asks = {}
    BY <1>1 DEF LastAsk, WindowTypes
  <1>2. CASE asks # {}
    <2>1. Len(notices) \in Nat /\ asks \in SUBSET (1..Len(notices))
      BY DEF NoticeTypes
    <2>2. \E i \in asks : \A j \in asks : j <= i
      <3> HIDE DEF asks
      <3> QED
        BY <1>2, <2>1, LastOf
    <2>3. LastAsk = notices[CHOOSE i \in asks : \A j \in asks : j <= i].who
      BY <1>2 DEF LastAsk
    <2>4. \A i \in asks : notices[i].who \in Helper
      BY DEF Named
    <2> QED
      BY <2>2, <2>3, <2>4
  <1> QED
    BY <1>1, <1>2

LEMMA InAreHelpers ==
    ASSUME Named
    PROVE  Of("in") \subseteq Helper
  BY DEF Named, Of

\* The steps of the window that leave every task where it is.
WindowMoves ==
    \/ SwitchOn \/ SwitchOff \/ PasswordStarts \/ PasswordSet
    \/ (\E h \in Helper : RemoveHelper(h) \/ EndSession(h))
    \/ Poll \/ Retry

LEMMA WindowMovesKeeps ==
    ASSUME TaskTypes, WindowTypes, NoticeTypes, Named, TaskInv, WindowMoves
    PROVE  (TaskTypes /\ WindowTypes /\ NoticeTypes /\ Named /\ TaskInv)'
  <1>1. UNCHANGED <<at, of, gone, failures, copy>>
    BY DEF WindowMoves, SwitchOn, SwitchOff, PasswordStarts, PasswordSet, RemoveHelper,
           EndSession, Poll, Retry, taskVars
  <1>2. TaskTypes' /\ TaskInv'
    BY <1>1, TasksStay DEF TaskTypes
  <1>3. notices' = notices \/ notices' = << >>
    BY DEF WindowMoves, SwitchOn, SwitchOff, PasswordStarts, PasswordSet, RemoveHelper,
           EndSession, Poll, Retry, Halt
  <1>4. (NoticeTypes /\ Named)'
    <2>1. CASE notices' = notices
      BY <2>1 DEF NoticeTypes, Named
    <2>2. CASE notices' = << >>
      BY <2>2, SilenceIsNamed
    <2> QED
      BY <1>3, <2>1, <2>2
  <1>5. WindowTypes'
    <2>1. CASE SwitchOn
      <3>1. mine' \in Access /\ file' = mine'
        BY <2>1 DEF SwitchOn, WindowTypes, Access
      <3>2. UNCHANGED <<scene, hashing, ask, active>> /\ Change /\ Start
        BY <2>1 DEF SwitchOn
      <3> QED
        BY <3>1, <3>2, StartKeeps, ChangeKeeps DEF WindowTypes
    <2>2. CASE SwitchOff
      <3>1. mine' \in Access /\ file' = mine'
        BY <2>2 DEF SwitchOff, WindowTypes, Access
      <3>2. /\ UNCHANGED <<scene, hashing, started>> /\ Change
            /\ listener' = 0 /\ ask' = None /\ active' = {}
        BY <2>2 DEF SwitchOff, Halt
      <3> QED
        BY <3>1, <3>2, ChangeKeeps DEF WindowTypes
    <2>3. CASE PasswordStarts
      <3>1. hashing' \in Access
        BY <2>3 DEF PasswordStarts, WindowTypes, Access
      <3>2. UNCHANGED <<scene, file, mine, listener, started, ask, active>> /\ Change
        BY <2>3 DEF PasswordStarts
      <3> QED
        BY <3>1, <3>2, ChangeKeeps DEF WindowTypes
    <2>4. CASE PasswordSet
      BY <2>4 DEF PasswordSet, WindowTypes
    <2>5. ASSUME NEW h \in Helper, RemoveHelper(h)  PROVE WindowTypes'
      <3>1. mine' \in Access /\ file' = mine'
        BY <2>5 DEF RemoveHelper, WindowTypes, Access
      <3>2. UNCHANGED <<scene, hashing, listener, started, ask, active>> /\ Change
        BY <2>5 DEF RemoveHelper
      <3> QED
        BY <3>1, <3>2, ChangeKeeps DEF WindowTypes
    <2>6. ASSUME NEW h \in Helper, EndSession(h)  PROVE WindowTypes'
      <3>1. /\ UNCHANGED <<scene, file, mine, hashing, listener, started, ask>> /\ Change
            /\ active' \subseteq active
        BY <2>6 DEF EndSession
      <3> QED
        BY <3>1, ChangeKeeps DEF WindowTypes
    <2>7. CASE Poll
      <3>1. UNCHANGED <<scene, file, hashing, started, changes>>
        BY <2>7 DEF Poll
      <3>2. mine' \in Access
        BY <2>7 DEF Poll, WindowTypes
      <3>3. listener' = 0 \/ listener' = listener
        BY <2>7 DEF Poll, Halt
      <3>4. active' \subseteq active \cup Of("in")
        BY <2>7 DEF Poll, Halt
      <3>5. ask' = None \/ ask' = LastAsk
        BY <2>7 DEF Poll, Halt
      <3>6. ask' \in Helper \cup {None} /\ active' \subseteq Helper
        BY <3>4, <3>5, LastAskFacts, InAreHelpers DEF WindowTypes
      <3> QED
        BY <3>1, <3>2, <3>3, <3>6 DEF WindowTypes
    <2>8. CASE Retry
      <3>1. UNCHANGED <<scene, file, mine, hashing, ask, active, changes>> /\ Start
        BY <2>8 DEF Retry
      <3> QED
        BY <3>1, StartKeeps DEF WindowTypes
    <2> QED
      BY <2>1, <2>2, <2>3, <2>4, <2>5, <2>6, <2>7, <2>8 DEF WindowMoves
  <1> QED
    BY <1>2, <1>4, <1>5

\* An answer only reaches a task that is still asking.
LEMMA AnswerKeeps ==
    ASSUME TaskTypes, WindowTypes, NoticeTypes, Named, TaskInv,
           NEW v \in Verdict, Answer(v)
    PROVE  (TaskTypes /\ WindowTypes /\ NoticeTypes /\ Named /\ TaskInv)'
  <1>1. /\ UNCHANGED <<scene, of, gone, failures, copy, file, mine, hashing, listener,
                       started, active, changes, notices>>
        /\ ask' = None /\ ask \in Helper
    BY DEF Answer, WindowTypes
  <1>2. WindowTypes' /\ (NoticeTypes /\ Named)'
    BY <1>1 DEF WindowTypes, NoticeTypes, Named
  <1>3. v \in Stage \ {"out", "punished", "hashing"} /\ v \in Questioning /\ v \notin Seated
    BY DEF Stage, Undecided, Verdict, Questioning, Seated
  <1>4. CASE at' = at
    BY <1>1, <1>2, <1>4, TasksStay DEF TaskTypes
  <1>5. CASE at' # at
    <2>1. at' = [at EXCEPT ![ask] = v] /\ at[ask] = "asking"
      BY <1>5 DEF Answer
    <2>2. TaskInv'
      BY <1>1, <1>3, <2>1, TaskMoves DEF Questioning
    <2>3. TaskTypes'
      BY <1>1, <1>3, <2>1 DEF TaskTypes
    <2> QED
      BY <1>2, <2>2, <2>3
  <1> QED
    BY <1>4, <1>5

-----------------------------------------------------------------------------

LEMMA InitInv == Init => Inv
  <1> SUFFICES ASSUME Init PROVE Inv
    OBVIOUS
  <1>1. "out" \in Stage /\ "out" \notin Questioning \cup Throttling \cup Seated
    BY DEF Stage, Questioning, Throttling, Seated, Verdict
  <1>2. TaskTypes /\ WindowTypes /\ NoticeTypes /\ Named
    <2>1. TaskTypes
      BY <1>1, SceneFacts, Bounds DEF Init, TaskTypes
    <2>2. WindowTypes
      BY SceneFacts, Bounds DEF Init, WindowTypes
    <2>3. NoticeTypes /\ Named
      BY Bounds DEF Init, NoticeTypes, Named
    <2> QED
      BY <2>1, <2>2, <2>3
  <1>3. Placed /\ Alone(Throttling) /\ BelowTheLimit /\ OneQuestion
    BY <1>1 DEF Init, Placed, Alone, BelowTheLimit, OneQuestion
  <1>4. GuessesAreBounded
    BY Bounds DEF Init, GuessesAreBounded
  <1>5. SeatsAreBounded
    <2>1. \A i \in 1..Listeners : SeatsOf(i) = {}
      BY <1>1 DEF Init, SeatsOf
    <2>2. IsFiniteSet({}) /\ Cardinality({}) <= MAX_HELPERS
      BY FS_EmptySet, Bounds
    <2> QED
      BY <2>1, <2>2, Zenon DEF SeatsAreBounded
  <1> QED
    BY <1>2, <1>3, <1>4, <1>5, TypeParts DEF Inv, TaskInv

LEMMA StepInv == Inv /\ [Next]_vars => Inv'
  <1> SUFFICES ASSUME Inv, [Next]_vars PROVE Inv'
    OBVIOUS
  <1> DEFINE Parts == TaskTypes /\ WindowTypes /\ NoticeTypes /\ Named /\ TaskInv
  <1>0. Parts
    BY TypeParts DEF Inv
  <1>1. ASSUME Parts'  PROVE Inv'
    <2>1. TypeOK'
      BY <1>1, TypeParts, PTL
    <2> QED
      BY <1>1, <2>1 DEF Inv
  <1>2. ASSUME NEW h \in Helper, Knock(h)  PROVE Parts'
    <2>1. UNCHANGED <<scene, file, mine, hashing, listener, started, ask, active, changes,
                      notices>>
      BY <1>2 DEF Knock, windowVars
    <2>2. (WindowTypes /\ NoticeTypes /\ Named)'
      BY <1>0, <2>1 DEF WindowTypes, NoticeTypes, Named
    <2> QED
      BY <1>0, <1>2, <2>2, KnockKeeps
  <1>3. ASSUME NEW h \in Helper, HangUp(h)  PROVE Parts'
    <2>1. /\ UNCHANGED <<scene, at, of, failures, copy, file, mine, hashing, listener,
                         started, ask, active, changes, notices>>
          /\ gone' = gone \cup {h}
      BY <1>3 DEF HangUp, windowVars
    <2>2. (TaskTypes /\ WindowTypes /\ NoticeTypes /\ Named)'
      BY <1>0, <2>1 DEF TaskTypes, WindowTypes, NoticeTypes, Named
    <2> QED
      BY <1>0, <2>1, <2>2, TasksStay
  <1>4. ASSUME NEW h \in Helper, Hashed(h)  PROVE Parts'
    <2>1. UNCHANGED <<scene, file, mine, hashing, listener, started, ask, active, changes,
                      notices>>
      BY <1>4 DEF Hashed, windowVars
    <2>2. (WindowTypes /\ NoticeTypes /\ Named)'
      BY <1>0, <2>1 DEF WindowTypes, NoticeTypes, Named
    <2> QED
      BY <1>0, <1>4, <2>2, HashedKeeps
  <1>5. ASSUME NEW h \in Helper, OneMoves(h)  PROVE Parts'
    BY <1>0, <1>5, OneMovesKeeps
  <1>6. ASSUME NEW i \in 1..Listeners, Forgotten(i)  PROVE Parts'
    <2>1. UNCHANGED <<scene, file, mine, hashing, listener, started, ask, active, changes,
                      notices>>
      BY <1>6 DEF Forgotten, windowVars
    <2>2. (WindowTypes /\ NoticeTypes /\ Named)'
      BY <1>0, <2>1 DEF WindowTypes, NoticeTypes, Named
    <2> QED
      BY <1>0, <1>6, <2>2, ForgottenKeeps
  <1>7. ASSUME ListenerFails  PROVE Parts'
    <2>1. UNCHANGED <<scene, at, of, gone, failures, copy, file, mine, hashing, listener,
                      started, ask, active, changes>>
      BY <1>7 DEF ListenerFails, taskVars, windowVars
    <2>2. (TaskTypes /\ WindowTypes)'
      BY <1>0, <2>1 DEF TaskTypes, WindowTypes
    <2>3. (NoticeTypes /\ Named)'
      BY <1>0, <1>7, TellKeeps DEF ListenerFails
    <2> QED
      BY <1>0, <2>1, <2>2, <2>3, TasksStay
  <1>8. ASSUME WindowMoves  PROVE Parts'
    BY <1>0, <1>8, WindowMovesKeeps
  <1>9. ASSUME NEW v \in Verdict, Answer(v)  PROVE Parts'
    BY <1>0, <1>9, AnswerKeeps
  <1>10. ASSUME UNCHANGED vars  PROVE Parts'
    <2>1. UNCHANGED <<scene, at, of, gone, failures, copy, file, mine, hashing, listener,
                      started, ask, active, changes, notices>>
      BY <1>10 DEF vars, taskVars, windowVars
    <2>2. (TaskTypes /\ WindowTypes /\ NoticeTypes /\ Named)'
      BY <1>0, <2>1 DEF TaskTypes, WindowTypes, NoticeTypes, Named
    <2> QED
      BY <1>0, <2>1, <2>2, TasksStay
  <1>11. ASSUME Next  PROVE Parts'
    <2> HIDE DEF Parts
    <2>1. ASSUME NEW h \in Helper, Task(h) \/ ServeFails(h)
          PROVE  Hashed(h) \/ OneMoves(h)
      BY <2>1 DEF Task, OneMoves
    <2>2. ASSUME Poll \/ Retry \/ Person  PROVE Parts'
      <3>1. WindowMoves \/ \E v \in Verdict : Answer(v)
        BY <2>2 DEF Person, WindowMoves
      <3> QED
        BY <3>1, <1>8, <1>9
    <2> QED
      BY <1>2, <1>3, <1>4, <1>5, <1>6, <1>7, <1>11, <2>1, <2>2 DEF Next
  <1> QED
    BY <1>1, <1>10, <1>11

\* The inductive invariant: who is at which stage, listener by listener, who has
\* which lock, and what the counters of failures and seats owe to that.
THEOREM Invariance == Spec => []Inv
  BY InitInv, StepInv, PTL DEF Spec

\* The state of the tasks, of the window and of the channel between them stays
\* what the code declares, and the channel within its room.
THEOREM TypeCorrect == Spec => []TypeOK
  <1>1. Inv => TypeOK
    BY DEF Inv
  <1> QED
    BY <1>1, Invariance, PTL

\* However many helpers guess at once and however many listeners there were,
\* none counts more than LOCKOUT_FAILURES wrong passwords (authorize, Throttle).
THEOREM GuessingIsBounded == Spec => []GuessesAreBounded
  <1>1. Inv => GuessesAreBounded
    BY DEF Inv, TaskInv
  <1> QED
    BY <1>1, Invariance, PTL

\* A listener has one question open at most, from before it is put until it
\* has been acted on (ask's lock).
THEOREM OneAtATime == Spec => []OneQuestion
  <1>1. Inv => OneQuestion
    BY DEF Inv, TaskInv
  <1> QED
    BY <1>1, Invariance, PTL

\* A listener never has more than MAX_HELPERS helpers in, counting those whose
\* session is being announced or taken down (Shared's seats).
THEOREM SeatsSuffice == Spec => []SeatsAreBounded
  <1>1. Inv => SeatsAreBounded
    BY DEF Inv, TaskInv
  <1> QED
    BY <1>1, Invariance, PTL
=============================================================================
