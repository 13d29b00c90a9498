----------------------------- MODULE PlaneProofs -----------------------------
(***************************************************************************)
(* The dispatch of intents for any number of them, of sweeps, of changes   *)
(* of the lease and any bound of the session's channel: a grant that lost  *)
(* the wheel gets one more command out and no second, an answer finds its  *)
(* intent waiting or settled, a task waits for a slot at most once, and    *)
(* whatever is pressed has a release to come, from whoever pressed it and  *)
(* from the sweep that a change of the lease owes.                         *)
(***************************************************************************)
EXTENDS Plane, FiniteSetTheorems, FunctionTheorems, SequenceTheorems, TLAPS

Ends == {"none", "Refused", "Done", "Cancelled", "Superseded", "Blocked", "Partial",
         "LinkLost", "Answered", "TimedOut"}

\* What the provers are told of an intent.
IntentRecord ==
    [kind : Kind, step : 1..5,
     at : {"new", "walk", "room", "letgo", "answer", "settled"},
     held : BOOLEAN, cancel : BOOLEAN, slot : {"none", "open", "full"},
     end : Ends, kept : BOOLEAN]

CommandRecord ==
    [by : Intent \cup Sweeper \cup {None},
     what : {"press", "lift", "agent", "sweep", "other"}, part : {"key", "button"}]

(* The invariant. *)

\* A walk never leaves its plan, and a native intent has one command, listens
\* for its answer before it sends and never walks.
Fits(r) ==
    /\ r.step <= Len(Plan(r.kind)) + 1
    /\ r.at = "room" => r.step <= Len(Plan(r.kind))
    /\ r.kind = "native" => /\ r.at # "walk" /\ r.step = 1
                            /\ r.at = "room" => r.slot = "open"

OnPlan == \A i \in Intent : Fits(it[i])

\* Every task that waits for a slot of the line q waits once.
OneWait(q) ==
    /\ \A n \in DOMAIN q : n > Capacity => q[n].by \in Intent \cup Sweeper
    /\ \A m, n \in DOMAIN q :
           m > Capacity /\ n > Capacity /\ q[m].by = q[n].by => m = n

\* The intent still listens, or has settled.
Heard(r) == r.at = "settled" \/ (r.at = "answer" /\ r.slot = "open")

\* The command of a native intent is on the channel q once or answered once.
AgentOnce(q, a) ==
    /\ \A n \in DOMAIN q : q[n].what = "agent" => q[n].by \in Intent \ a
    /\ \A m, n \in DOMAIN q :
           /\ q[m].what = "agent" /\ q[n].what = "agent" /\ q[m].by = q[n].by
           => m = n

Listening ==
    /\ \A n \in DOMAIN chan : chan[n].what = "agent" => Heard(it[chan[n].by])
    /\ \A i \in answers : Heard(it[i])

\* Whoever was late is not let through and does not wait for room.
Straggling ==
    \A i \in Intent :
        late[i] # 0 => late[i] = 1 /\ driver # GrantOf[i] /\ it[i].at # "room"

\* Only intents press.
Presses(q) == \A n \in DOMAIN q : q[n].what = "press" => q[n].by \in Intent

Inv ==
    /\ TypeOK /\ OnPlan
    /\ OneWait(chan) /\ Presses(chan)
    /\ AgentOnce(chan, answers) /\ Listening /\ AnswersAreHeard
    /\ Straggling

-----------------------------------------------------------------------------
(* Plans and the channel. *)

LEMMA Plans ==
    ASSUME NEW k \in Kind
    PROVE  /\ Len(Plan(k)) \in 1..4
           /\ \A n \in 1..Len(Plan(k)) :
                  /\ Plan(k)[n][1] \in {"press", "lift", "agent"}
                  /\ Plan(k)[n][2] \in {"key", "button"}
                  /\ Plan(k)[n][1] = "agent" <=> k = "native"
           /\ k = "native" => Len(Plan(k)) = 1
  <1>1. CASE k = "type"
    <2>1. Plan(k) = << <<"press", "key">>, <<"lift", "key">> >>
      BY <1>1 DEF Plan
    <2> QED  BY <1>1, <2>1
  <1>2. CASE k = "move"
    <2>1. Plan(k) = << <<"lift", "button">> >>
      BY <1>2 DEF Plan
    <2> QED  BY <1>2, <2>1
  <1>3. CASE k = "click"
    <2>1. Plan(k) = << <<"lift", "button">>, <<"press", "button">>, <<"lift", "button">> >>
      BY <1>3 DEF Plan
    <2> QED  BY <1>3, <2>1
  <1>4. CASE k = "drag"
    <2>1. Plan(k) = << <<"lift", "button">>, <<"press", "button">>,
                       <<"press", "button">>, <<"lift", "button">> >>
      BY <1>4 DEF Plan
    <2> QED  BY <1>4, <2>1
  <1>5. CASE k = "native"
    <2>1. Plan(k) = << <<"agent", "key">> >>
      BY <1>5 DEF Plan
    <2> QED  BY <1>5, <2>1
  <1> QED  BY <1>1, <1>2, <1>3, <1>4, <1>5 DEF Kind

\* What is put at the end of the line, within its bound or by a task that does
\* not wait yet.
LEMMA Appended ==
    ASSUME NEW q \in Seq(CommandRecord), NEW c \in CommandRecord, NEW a
    PROVE  /\ Append(q, c) \in Seq(CommandRecord)
           /\ \A n \in DOMAIN Append(q, c) :
                  Append(q, c)[n] = c \/ \E m \in DOMAIN q : Append(q, c)[n] = q[m]
           /\ Len(q) < Capacity /\ OneWait(q) => OneWait(Append(q, c))
           /\ /\ OneWait(q) /\ c.by \in Intent \cup Sweeper
              /\ ~ \E n \in DOMAIN q : n > Capacity /\ q[n].by = c.by
              => OneWait(Append(q, c))
           /\ /\ AgentOnce(q, a)
              /\ c.what = "agent" => /\ c.by \in Intent \ a
                                     /\ \A n \in DOMAIN q : q[n].what = "agent" => q[n].by # c.by
              => AgentOnce(Append(q, c), a)
  <1> DEFINE s == Append(q, c)
  <1>1. /\ s \in Seq(CommandRecord) /\ Len(s) = Len(q) + 1 /\ Len(q) \in Nat
        /\ DOMAIN s = 1..(Len(q) + 1) /\ DOMAIN q = 1..Len(q)
        /\ s[Len(q) + 1] = c /\ \A n \in 1..Len(q) : s[n] = q[n]
    OBVIOUS
  <1> HIDE DEF s
  <1>2. \A n \in DOMAIN s : (n \in DOMAIN q /\ s[n] = q[n]) \/ (n = Len(q) + 1 /\ s[n] = c)
    BY <1>1
  <1>3. Capacity \in Nat
    BY PlaneAssumption
  <1>4. Len(q) < Capacity /\ OneWait(q) => OneWait(s)
    BY <1>1, <1>3 DEF OneWait
  <1>5. ASSUME OneWait(q), c.by \in Intent \cup Sweeper,
               ~ \E n \in DOMAIN q : n > Capacity /\ q[n].by = c.by
        PROVE  OneWait(s)
    <2>1. \A n \in DOMAIN s : n > Capacity => s[n].by \in Intent \cup Sweeper
      BY <1>2, <1>5 DEF OneWait
    <2>2. \A m, n \in DOMAIN s : m > Capacity /\ n > Capacity /\ s[m].by = s[n].by => m = n
      BY <1>2, <1>5 DEF OneWait
    <2> QED  BY <2>1, <2>2 DEF OneWait
  <1>6. ASSUME AgentOnce(q, a),
               c.what = "agent" => /\ c.by \in Intent \ a
                                   /\ \A n \in DOMAIN q : q[n].what = "agent" => q[n].by # c.by
        PROVE  AgentOnce(s, a)
    <2>1. \A n \in DOMAIN s : s[n].what = "agent" => s[n].by \in Intent \ a
      BY <1>2, <1>6 DEF AgentOnce
    <2>2. \A m, n \in DOMAIN s :
              s[m].what = "agent" /\ s[n].what = "agent" /\ s[m].by = s[n].by => m = n
      BY <1>2, <1>6 DEF AgentOnce
    <2> QED  BY <2>1, <2>2 DEF AgentOnce
  <1> QED  BY <1>1, <1>2, <1>4, <1>5, <1>6 DEF s

\* Where a command was before the one at n left the line.
Was(k, n) == IF k < n THEN k ELSE k + 1

\* A line with one command left out, be it the first.
LEMMA Omitted ==
    ASSUME NEW q \in Seq(CommandRecord), NEW n \in DOMAIN q
    PROVE  /\ RemoveAt(q, n) \in Seq(CommandRecord)
           /\ Len(RemoveAt(q, n)) = Len(q) - 1 /\ DOMAIN RemoveAt(q, n) = 1..(Len(q) - 1)
           /\ \A k \in 1..(Len(q) - 1) : RemoveAt(q, n)[k] = q[Was(k, n)]
  <1> DEFINE s == RemoveAt(q, n)
             L == SubSeq(q, 1, n - 1)
             R == SubSeq(q, n + 1, Len(q))
  <1>1. Len(q) \in Nat /\ DOMAIN q = 1..Len(q) /\ n \in 1..Len(q)
    OBVIOUS
  <1>2. /\ L \in Seq(CommandRecord) /\ Len(L) = n - 1
        /\ \A k \in 1..(n - 1) : L[k] = q[k]
    BY <1>1, SubSeqProperties
  <1>3. /\ R \in Seq(CommandRecord) /\ Len(R) = Len(q) - n
        /\ \A k \in 1..(Len(q) - n) : R[k] = q[n + k]
    BY <1>1, SubSeqProperties
  <1>4. s = L \o R
    BY DEF RemoveAt
  <1> HIDE DEF L, R, s
  <1>5. /\ s \in Seq(CommandRecord) /\ Len(s) = Len(q) - 1 /\ DOMAIN s = 1..(Len(q) - 1)
        /\ \A k \in 1..(Len(q) - 1) : s[k] = q[Was(k, n)]
    <2>1. s \in Seq(CommandRecord) /\ Len(s) = Len(L) + Len(R)
      BY <1>2, <1>3, <1>4, ConcatProperties
    <2>2. Len(s) = Len(q) - 1 /\ DOMAIN s = 1..(Len(q) - 1)
      BY <1>1, <1>2, <1>3, <2>1
    <2>3. ASSUME NEW k \in 1..(Len(q) - 1)
          PROVE  s[k] = q[Was(k, n)]
      <3>0. k \in 1..(Len(L) + Len(R))
        BY <2>1, <2>2
      <3>1. s[k] = IF k <= Len(L) THEN L[k] ELSE R[k - Len(L)]
        <4>1. \A j \in 1..(Len(L) + Len(R)) :
                  (L \o R)[j] = IF j <= Len(L) THEN L[j] ELSE R[j - Len(L)]
          BY <1>2, <1>3, ConcatProperties
        <4> QED  BY <1>4, <3>0, <4>1
      <3>2. CASE k < n
        BY <1>1, <1>2, <3>1, <3>2 DEF Was
      <3>3. CASE k >= n
        <4>1. s[k] = R[k - (n - 1)] /\ k - (n - 1) \in 1..(Len(q) - n)
          BY <1>1, <1>2, <3>1, <3>3
        <4>2. n + (k - (n - 1)) = k + 1 /\ Was(k, n) = k + 1
          BY <1>1, <3>3 DEF Was
        <4> QED  BY <1>3, <4>1, <4>2
      <3> QED  BY <1>1, <3>2, <3>3
    <2> QED  BY <2>1, <2>2, <2>3
  <1> QED  BY <1>5 DEF s

\* What such a line keeps.
LEMMA LeftOut ==
    ASSUME NEW q \in Seq(CommandRecord), NEW n \in DOMAIN q, NEW a
    PROVE  /\ RemoveAt(q, n) \in Seq(CommandRecord)
           /\ \A k \in DOMAIN RemoveAt(q, n) : \E m \in DOMAIN q : RemoveAt(q, n)[k] = q[m]
           /\ OneWait(q) => OneWait(RemoveAt(q, n))
           /\ AgentOnce(q, a) => AgentOnce(RemoveAt(q, n), a)
           /\ n = 1 => RemoveAt(q, n) = Tail(q)
           /\ AgentOnce(q, a) /\ n = 1 /\ q[1].what = "agent"
                  => AgentOnce(Tail(q), a \cup {q[1].by})
  <1> DEFINE s == RemoveAt(q, n)
             At(k) == Was(k, n)
  <1>1. Len(q) \in Nat /\ DOMAIN q = 1..Len(q) /\ n \in 1..Len(q)
    OBVIOUS
  <1>5. /\ s \in Seq(CommandRecord) /\ Len(s) = Len(q) - 1 /\ DOMAIN s = 1..(Len(q) - 1)
        /\ \A k \in 1..(Len(q) - 1) : s[k] = q[At(k)]
    BY Omitted, Zenon
  <1> HIDE DEF s
  <1>6. \A k \in DOMAIN s : At(k) \in DOMAIN q /\ s[k] = q[At(k)] /\ At(k) >= k
    BY <1>1, <1>5 DEF Was
  <1>7. \A j, k \in DOMAIN s : At(j) = At(k) => j = k
    BY <1>1, <1>5 DEF Was
  <1>8. Capacity \in Nat /\ \A k \in DOMAIN s : k \in Nat /\ At(k) \in Nat
    BY <1>1, <1>5, PlaneAssumption DEF Was
  <1> HIDE DEF At
  <1>9. OneWait(q) => OneWait(s)
    <2> SUFFICES ASSUME OneWait(q)
                 PROVE  OneWait(s)
      OBVIOUS
    <2>1. \A k \in DOMAIN s : k > Capacity => At(k) > Capacity
      BY <1>6, <1>8
    <2> QED  BY <1>6, <1>7, <2>1 DEF OneWait
  <1>10. AgentOnce(q, a) => AgentOnce(s, a)
    BY <1>6, <1>7 DEF AgentOnce
  <1>11. ASSUME n = 1
         PROVE  s = Tail(q)
    <2>1. q # << >> /\ Tail(q) \in Seq(CommandRecord) /\ Len(Tail(q)) = Len(q) - 1
      BY <1>1
    <2>2. \A k \in 1..(Len(q) - 1) : Tail(q)[k] = s[k]
      BY <1>1, <1>5, <1>11 DEF At, Was
    <2> QED  BY <1>5, <2>1, <2>2, SeqEqual
  <1>12. ASSUME AgentOnce(q, a), n = 1, q[1].what = "agent"
         PROVE  AgentOnce(s, a \cup {q[1].by})
    <2>1. \A k \in DOMAIN s : At(k) # 1
      BY <1>5, <1>1, <1>12 DEF At, Was
    <2>2. \A k \in DOMAIN s : s[k].what = "agent" => s[k].by # q[1].by
      BY <1>1, <1>6, <1>12, <2>1 DEF AgentOnce
    <2> QED  BY <1>10, <1>12, <2>2 DEF AgentOnce
  <1> QED  BY <1>5, <1>6, <1>9, <1>10, <1>11, <1>12 DEF s

\* The line behind the bound is no longer than there are tasks to wait.
LEMMA LineBound ==
    ASSUME NEW q \in Seq(CommandRecord), OneWait(q)
    PROVE  Len(q) <= Capacity + Cardinality(Sweeper) + Cardinality(Intent)
  <1> DEFINE W == (Capacity + 1)..Len(q)
             T == Intent \cup Sweeper
             f == [n \in W |-> q[n].by]
  <1>1. Capacity \in Nat /\ Len(q) \in Nat /\ DOMAIN q = 1..Len(q)
    BY PlaneAssumption
  <1>2. \A n \in W : n \in DOMAIN q /\ n > Capacity
    BY <1>1
  <1>3. f \in Injection(W, T)
    <2>1. f \in [W -> T]
      BY <1>2 DEF OneWait
    <2>2. \A m, n \in W : f[m] = f[n] => m = n
      BY <1>2 DEF OneWait
    <2> QED  BY <2>1, <2>2 DEF Injection, IsInjective
  <1>4. IsFiniteSet(T) /\ Cardinality(T) = Cardinality(Intent) + Cardinality(Sweeper) - Cardinality({})
    BY FS_Union, PlaneAssumption
  <1>5. /\ Cardinality(Intent) \in Nat /\ Cardinality(Sweeper) \in Nat /\ Cardinality({}) = 0
    BY FS_CardinalityType, FS_EmptySet, PlaneAssumption
  <1>6. Cardinality(W) <= Cardinality(T)
    BY <1>3, <1>4, FS_Injection
  <1>7. Cardinality(W) = IF Capacity + 1 > Len(q) THEN 0 ELSE Len(q) - (Capacity + 1) + 1
    <2>1. Capacity + 1 \in Int /\ Len(q) \in Int
      BY <1>1
    <2> HIDE DEF W
    <2>2. \A a, b \in Int : Cardinality(a..b) = IF a > b THEN 0 ELSE b - a + 1
      BY FS_Interval
    <2> QED  BY <2>1, <2>2 DEF W
  <1> QED  BY <1>1, <1>4, <1>5, <1>6, <1>7

-----------------------------------------------------------------------------
(* What a step does to one intent. *)

Move(i, r) ==
    /\ r \in IntentRecord /\ Fits(r)
    /\ it' = [it EXCEPT ![i] = r]
    /\ Heard(it[i]) => Heard(r)
    /\ it[i].at = "settled" => r.at = "settled"

\* Whoever listened still does or has settled, and a settlement is final.
Onward ==
    /\ it' \in [Intent -> IntentRecord] /\ OnPlan'
    /\ \A j \in Intent : Heard(it[j]) => Heard(it'[j])
    /\ \A j \in Intent : it[j].at = "settled" => it'[j].at = "settled"

\* No other intent comes to wait for room.
LEMMA Moving ==
    ASSUME TypeOK, OnPlan, NEW i \in Intent, NEW r, Move(i, r)
    PROVE  /\ Onward /\ it'[i] = r
           /\ \A j \in Intent : j # i => it'[j] = it[j]
  <1>1. it \in [Intent -> IntentRecord]
    BY DEF TypeOK, IntentRecord, Ends
  <1>2. it'[i] = r /\ (\A j \in Intent : j # i => it'[j] = it[j]) /\ it' \in [Intent -> IntentRecord]
    BY <1>1 DEF Move
  <1>3. OnPlan'
    BY <1>2 DEF Move, OnPlan
  <1> QED  BY <1>2, <1>3 DEF Move, Onward

LEMMA Staying ==
    ASSUME TypeOK, OnPlan, it' = it
    PROVE  Onward
  BY DEF Onward, OnPlan, TypeOK, IntentRecord, Ends

\* The record of an intent that settles.
Over(i, end) == [it[i] EXCEPT !.at = "settled", !.end = end, !.slot = "none"]

LEMMA Settling ==
    ASSUME TypeOK, OnPlan, NEW i \in Intent, NEW end \in Ends, Settle(i, end)
    PROVE  Move(i, Over(i, end)) /\ Over(i, end).at = "settled"
  <1>1. it \in [Intent -> IntentRecord] /\ it[i] \in IntentRecord
    BY DEF TypeOK, IntentRecord, Ends
  <1>2. it' = [it EXCEPT ![i] = Over(i, end)]
    BY DEF Settle, Over
  <1>3. Over(i, end) \in IntentRecord
    BY <1>1 DEF Over, IntentRecord
  <1>4. /\ Over(i, end).at = "settled" /\ Over(i, end).kind = it[i].kind
        /\ Over(i, end).step = it[i].step
    BY <1>1 DEF Over, IntentRecord
  <1>5. Fits(Over(i, end))
    BY <1>4 DEF Fits, OnPlan
  <1> QED  BY <1>2, <1>3, <1>4, <1>5 DEF Move, Heard

\* A walk that ends settles or lets go first.
LEMMA EndingWalk ==
    ASSUME TypeOK, OnPlan, NEW i \in Intent, NEW end \in Ends, EndWalk(i, end),
           ~Heard(it[i])
    PROVE  \E r : Move(i, r) /\ r.at # "room"
  <1>1. CASE ~it[i].held
    <2>1. Settle(i, end)
      BY <1>1 DEF EndWalk
    <2> QED  BY <2>1, Settling
  <1>2. CASE it[i].held
    <2> DEFINE r == [it[i] EXCEPT !.at = "letgo", !.end = end]
    <2>1. it[i] \in IntentRecord
      BY DEF TypeOK, IntentRecord, Ends
    <2>2. it' = [it EXCEPT ![i] = r]
      BY <1>2 DEF EndWalk
    <2>3. /\ r \in IntentRecord /\ r.at = "letgo" /\ r.kind = it[i].kind /\ r.step = it[i].step
      BY <2>1 DEF IntentRecord
    <2> HIDE DEF r
    <2>4. Fits(r)
      BY <2>3 DEF Fits, OnPlan
    <2>5. it[i].at # "settled"
      BY DEF Heard
    <2>6. Move(i, r)
      BY <2>2, <2>3, <2>4, <2>5 DEF Move
    <2> QED  BY <2>3, <2>6
  <1> QED  BY <1>1, <1>2

-----------------------------------------------------------------------------
(* What makes a state good again. *)

LEMMA Collected ==
    ASSUME Inv, Onward,
           {driver', fenced', chosen'} \subseteq Grant \cup {None},
           changes' \in 0..MaxChanges,
           sweep' \in [Sweeper -> {Idle, "buttons", "keys", "confirm"}],
           chan' \in Seq(CommandRecord), OneWait(chan'), Presses(chan'),
           AgentOnce(chan', answers'),
           \A n \in DOMAIN chan' : chan'[n].what = "agent" => Heard(it'[chan'[n].by]),
           answers' \subseteq Intent, \A j \in answers' : Heard(it'[j]),
           unheard' \subseteq Intent, \A j \in unheard' : it'[j].at = "settled",
           open' \in BOOLEAN, down' \subseteq Intent \X {"key", "button"},
           late' \in [Intent -> Nat], madeUp' \in [Intent -> Nat], Straggling', logged' \in BOOLEAN
    PROVE  Inv'
  <1>1. Len(chan') <= Capacity + Cardinality(Sweeper) + Cardinality(Intent)
    BY LineBound
  <1>2. it' \in [Intent -> IntentRecord] /\ OnPlan'
    BY DEF Onward
  <1>3. TypeOK'
    BY <1>1, <1>2 DEF TypeOK, IntentRecord, Ends, CommandRecord
  <1>4. Listening' /\ AnswersAreHeard'
    BY DEF Listening, AnswersAreHeard
  <1>5. OneWait(chan)' /\ AgentOnce(chan, answers)' /\ Presses(chan)'
    BY DEF OneWait, AgentOnce, Presses
  <1> QED  BY <1>2, <1>3, <1>4, <1>5 DEF Inv

\* What the invariant says, as the lemmas above ask for it.
LEMMA Given ==
    ASSUME Inv
    PROVE  /\ TypeOK /\ OnPlan /\ it \in [Intent -> IntentRecord]
           /\ {driver, fenced, chosen} \subseteq Grant \cup {None}
           /\ changes \in 0..MaxChanges
           /\ sweep \in [Sweeper -> {Idle, "buttons", "keys", "confirm"}]
           /\ chan \in Seq(CommandRecord) /\ OneWait(chan) /\ AgentOnce(chan, answers)
           /\ Presses(chan)
           /\ \A n \in DOMAIN chan :
                  chan[n].what = "agent" => chan[n].by \in Intent /\ Heard(it[chan[n].by])
           /\ answers \subseteq Intent /\ \A j \in answers : Heard(it[j])
           /\ unheard \subseteq Intent /\ \A j \in unheard : it[j].at = "settled"
           /\ open \in BOOLEAN /\ down \subseteq Intent \X {"key", "button"}
           /\ late \in [Intent -> Nat] /\ Straggling /\ logged \in BOOLEAN
  BY DEF Inv, TypeOK, IntentRecord, Ends, CommandRecord, Listening, AnswersAreHeard, AgentOnce

LEMMA Counted ==
    ASSUME Inv
    PROVE  madeUp \in [Intent -> Nat]
  BY DEF Inv, TypeOK

\* A step that moves one intent and nothing else.
LEMMA OnlyMoves ==
    ASSUME Inv, NEW i \in Intent, NEW r, Move(i, r), r.at = "room" => late[i] = 0,
           UNCHANGED <<lease, sweep, chan, open, down, answers, history>>
    PROVE  Inv'
  <1>1. /\ Onward /\ it'[i] = r /\ \A j \in Intent : j # i => it'[j] = it[j]
    BY Given, Moving
  <1>2. Straggling'
    BY <1>1, Given DEF Straggling, lease, history
  <1>3. \A n \in DOMAIN chan : chan[n].what = "agent" => Heard(it'[chan[n].by])
    BY <1>1, Given DEF Onward
  <1>4. (\A j \in answers : Heard(it'[j])) /\ \A j \in unheard : it'[j].at = "settled"
    BY <1>1, Given DEF Onward
  <1>5. UNCHANGED <<driver, fenced, chosen, changes, sweep, chan, open, down, answers,
                    unheard, late, madeUp, logged>>
    BY DEF lease, history
  <1> QED  BY <1>1, <1>2, <1>3, <1>4, <1>5, Given, Counted, Collected

-----------------------------------------------------------------------------
(* The steps of an intent. *)

LEMMA RefuseKeeps ==
    ASSUME Inv, NEW i \in Intent, Refuse(i)
    PROVE  Inv'
  <1>1. Settle(i, "Refused") /\ UNCHANGED <<lease, sweep, chan, open, down, answers, history>>
    BY DEF Refuse
  <1>2. Move(i, Over(i, "Refused")) /\ Over(i, "Refused").at = "settled"
    BY <1>1, Given, Settling DEF Ends
  <1> QED  BY <1>1, <1>2, OnlyMoves

LEMMA StartKeeps ==
    ASSUME Inv, NEW i \in Intent, Start(i)
    PROVE  Inv'
  <1> DEFINE r == IF it[i].kind = "native"
                  THEN [it[i] EXCEPT !.at = "room", !.slot = "open"]
                  ELSE [it[i] EXCEPT !.at = "walk"]
  <1>1. it[i] \in IntentRecord /\ Fits(it[i]) /\ it[i].at = "new" /\ late[i] = 0
    BY Given DEF Start, OnPlan, Straggling
  <1>2. /\ it' = [it EXCEPT ![i] = r]
        /\ UNCHANGED <<lease, sweep, chan, open, down, answers, history>>
    BY DEF Start
  <1>3. /\ r \in IntentRecord /\ r.kind = it[i].kind /\ r.step = it[i].step
        /\ r.at = IF it[i].kind = "native" THEN "room" ELSE "walk"
        /\ it[i].kind = "native" => r.slot = "open"
    BY <1>1 DEF IntentRecord
  <1>4. it[i].kind = "native" => it[i].step = 1 /\ Len(Plan(it[i].kind)) = 1
    BY <1>1, Plans DEF Fits, IntentRecord
  <1> HIDE DEF r
  <1>5. Fits(r)
    BY <1>1, <1>3, <1>4 DEF Fits
  <1>6. Move(i, r)
    BY <1>1, <1>2, <1>3, <1>5 DEF Move, Heard
  <1> QED  BY <1>1, <1>2, <1>6, OnlyMoves

LEMMA CancelKeeps ==
    ASSUME Inv, NEW i \in Intent, Cancel(i)
    PROVE  Inv'
  <1> DEFINE r == [it[i] EXCEPT !.cancel = TRUE]
  <1>1. it[i] \in IntentRecord /\ Fits(it[i])
    BY Given DEF OnPlan
  <1>2. /\ it' = [it EXCEPT ![i] = r]
        /\ UNCHANGED <<lease, sweep, chan, open, down, answers, history>>
    BY DEF Cancel
  <1>3. /\ r \in IntentRecord /\ r.kind = it[i].kind /\ r.step = it[i].step
        /\ r.at = it[i].at /\ r.slot = it[i].slot
    BY <1>1 DEF IntentRecord
  <1> HIDE DEF r
  <1>4. Move(i, r)
    BY <1>1, <1>2, <1>3 DEF Move, Heard, Fits
  <1>5. r.at = "room" => late[i] = 0
    BY <1>3, Given DEF Straggling
  <1> QED  BY <1>2, <1>4, <1>5, OnlyMoves

LEMMA LookKeeps ==
    ASSUME Inv, NEW i \in Intent, Look(i)
    PROVE  Inv'
  <1>1. /\ it[i] \in IntentRecord /\ Fits(it[i]) /\ it[i].at = "walk" /\ ~Heard(it[i])
        /\ UNCHANGED <<lease, sweep, chan, open, down, answers, history>>
    BY Given DEF Look, OnPlan, Heard
  <1>2. it[i].step \in Nat /\ Len(Plan(it[i].kind)) \in Nat
    BY <1>1, Plans DEF IntentRecord
  <1>3. ASSUME NEW end \in Ends, EndWalk(i, end)
        PROVE  Inv'
    <2>1. PICK r : Move(i, r) /\ r.at # "room"
      BY <1>1, <1>3, Given, EndingWalk
    <2> QED  BY <1>1, <2>1, OnlyMoves
  <1>4. CASE it[i].step > Len(Plan(it[i].kind))
    <2>1. ~(it[i].step <= Len(Plan(it[i].kind)))
      BY <1>2, <1>4
    <2>2. EndWalk(i, "Done") \/ EndWalk(i, "Cancelled")
      BY <1>4, <2>1, Zenon DEF Look
    <2> QED  BY <1>3, <2>2 DEF Ends
  <1>5. CASE it[i].step <= Len(Plan(it[i].kind))
    <2>1. ~(it[i].step > Len(Plan(it[i].kind)))
      BY <1>2, <1>5
    <2>2. CASE it[i].cancel
      <3>1. EndWalk(i, "Cancelled")
        BY <1>5, <2>1, <2>2, Zenon DEF Look
      <3> QED  BY <1>3, <3>1 DEF Ends
    <2>3. CASE ~it[i].cancel /\ driver # GrantOf[i]
      <3>1. EndWalk(i, "Superseded")
        BY <1>5, <2>1, <2>3, Zenon DEF Look
      <3> QED  BY <1>3, <3>1 DEF Ends
    <2>4. CASE ~it[i].cancel /\ driver = GrantOf[i]
      <3> DEFINE r == [it[i] EXCEPT !.at = "room"]
      <3>1. it' = [it EXCEPT ![i].at = "room"]
        BY <2>1, <2>4, Zenon DEF Look
      <3>2. it' = [it EXCEPT ![i] = r]
        BY <3>1
      <3>3. r \in IntentRecord /\ r.kind = it[i].kind /\ r.step = it[i].step
        BY <1>1 DEF IntentRecord
      <3>4. it[i].kind # "native"
        BY <1>1 DEF Fits
      <3> HIDE DEF r
      <3>5. Move(i, r)
        BY <1>1, <1>5, <3>2, <3>3, <3>4 DEF Move, Heard, Fits
      <3>6. late[i] = 0
        BY <2>4, Given DEF Straggling
      <3> QED  BY <1>1, <3>5, <3>6, OnlyMoves
    <2> QED  BY <2>2, <2>3, <2>4
  <1> QED  BY <1>2, <1>4, <1>5

\* The next step of a walk.
LEMMA Stepping ==
    ASSUME Inv, NEW i \in Intent, NEW r \in IntentRecord, it[i].at = "room",
           it[i].kind # "native", r.kind = it[i].kind, r.at = "walk", r.step = it[i].step + 1
    PROVE  Fits(r)
  <1>1. it[i] \in IntentRecord /\ Fits(it[i])
    BY Given DEF OnPlan
  <1>2. it[i].step \in Nat /\ Len(Plan(it[i].kind)) \in Nat
    BY <1>1, Plans DEF IntentRecord
  <1> QED  BY <1>1, <1>2 DEF Fits

LEMMA StepBound == \A s \in 1..5, l \in 1..4 : s <= l => s + 1 \in 1..5
  OBVIOUS

LEMMA ShedKeeps ==
    ASSUME Inv, NEW i \in Intent, Shed(i)
    PROVE  Inv'
  <1> DEFINE r == [it[i] EXCEPT !.at = "walk", !.step = it[i].step + 1]
  <1>1. /\ it[i] \in IntentRecord /\ Fits(it[i]) /\ it[i].at = "room" /\ it[i].kind = "move"
        /\ UNCHANGED <<lease, sweep, chan, open, down, answers, history>>
    BY Given DEF Shed, OnPlan
  <1>2. it' = [it EXCEPT ![i] = r]
    BY DEF Shed
  <1>3. it[i].step + 1 \in 1..5
    <2>1. Len(Plan(it[i].kind)) \in 1..4 /\ it[i].step \in 1..5
      BY <1>1, Plans DEF IntentRecord
    <2> QED  BY <1>1, <2>1, StepBound DEF Fits
  <1>4. r \in IntentRecord /\ r.kind = it[i].kind /\ r.at = "walk" /\ r.step = it[i].step + 1
    BY <1>1, <1>3 DEF IntentRecord
  <1> HIDE DEF r
  <1>5. Fits(r)
    BY <1>1, <1>4, Stepping
  <1>6. Move(i, r)
    BY <1>1, <1>2, <1>4, <1>5 DEF Move, Heard
  <1> QED  BY <1>1, <1>4, <1>6, OnlyMoves

LEMMA BlockOrLoseKeeps ==
    ASSUME Inv, NEW i \in Intent, Block(i) \/ Lose(i)
    PROVE  Inv'
  <1>1. /\ it[i].at = "room" /\ ~Heard(it[i])
        /\ UNCHANGED <<lease, sweep, chan, open, down, answers, history>>
    BY DEF Block, Lose, Heard
  <1>2. \E end \in Ends : EndWalk(i, end)
    BY DEF Block, Lose, Ends
  <1>3. PICK end \in Ends : EndWalk(i, end)
    BY <1>2
  <1>4. PICK r : Move(i, r) /\ r.at # "room"
    BY <1>1, <1>3, Given, EndingWalk
  <1> QED  BY <1>1, <1>4, OnlyMoves

LEMMA AnswerKeeps ==
    ASSUME Inv, NEW i \in Intent, Answer(i)
    PROVE  Inv'
  <1>1. UNCHANGED <<lease, sweep, chan, open, down, answers, history>>
    BY DEF Answer
  <1>2. PICK end \in Ends : Settle(i, end)
    BY DEF Answer, Ends
  <1>3. Move(i, Over(i, end)) /\ Over(i, end).at = "settled"
    BY <1>2, Given, Settling
  <1> QED  BY <1>1, <1>3, OnlyMoves

\* The number of free slots.
LEMMA Slots ==
    ASSUME Inv
    PROVE  /\ Capacity \in Nat /\ Reserved \in Nat /\ Len(chan) \in Nat
           /\ Free > Reserved => Len(chan) < Capacity
           /\ Free > 0 => Len(chan) < Capacity
  BY PlaneAssumption, Given DEF Free

LEMMA SendKeeps ==
    ASSUME Inv, NEW i \in Intent, Send(i)
    PROVE  Inv'
  <1> DEFINE c == Command(i, Command1(i)[1], Command1(i)[2])
             r == Sent(i)
  <1>1. /\ it[i] \in IntentRecord /\ Fits(it[i]) /\ it[i].at = "room"
        /\ it' = [it EXCEPT ![i] = r] /\ chan' = Append(chan, c)
        /\ Len(chan) < Capacity
        /\ late' = IF driver = GrantOf[i] THEN late ELSE [late EXCEPT ![i] = @ + 1]
        /\ UNCHANGED <<driver, fenced, chosen, changes, sweep, open, down, answers,
                       unheard, madeUp, logged>>
    BY Given, Slots DEF Send, OnPlan, lease
  <1>2. /\ it[i].step \in 1..5 /\ Len(Plan(it[i].kind)) \in 1..4
        /\ it[i].step <= Len(Plan(it[i].kind)) /\ it[i].kind \in Kind
    BY <1>1, Plans DEF IntentRecord, Fits
  <1>3. /\ Command1(i)[1] \in {"press", "lift", "agent"} /\ Command1(i)[2] \in {"key", "button"}
        /\ Command1(i)[1] = "agent" <=> it[i].kind = "native"
    <2>1. it[i].step \in 1..Len(Plan(it[i].kind))
      BY <1>2
    <2> QED  BY <1>2, <2>1, Plans DEF Command1
  <1>4. /\ c \in CommandRecord /\ c.by = i
        /\ c.what = "agent" <=> it[i].kind = "native"
    BY <1>3 DEF Command, CommandRecord
  <1>5. /\ r \in IntentRecord /\ r.kind = it[i].kind
        /\ it[i].kind = "native" => r.at = "answer" /\ r.slot = it[i].slot /\ r.step = it[i].step
        /\ it[i].kind # "native" => r.at = "walk" /\ r.step = it[i].step + 1
    <2>1. CASE it[i].kind = "native"
      BY <1>1, <2>1 DEF Sent, IntentRecord
    <2>2. CASE it[i].kind # "native"
      <3> DEFINE b == (it[i].kind = "drag" /\ Command1(i) = <<"press", "button">>)
      <3>1. r = [it[i] EXCEPT !.at = "walk", !.step = @ + 1, !.held = b]
        BY <2>2 DEF Sent
      <3>2. b \in BOOLEAN /\ it[i].step + 1 \in 1..5
        BY <1>2, StepBound
      <3> HIDE DEF b, r
      <3> QED  BY <1>1, <2>2, <3>1, <3>2 DEF IntentRecord
    <2> QED  BY <2>1, <2>2
  <1> HIDE DEF c, r
  <1>6. Fits(r)
    <2>1. CASE it[i].kind = "native"
      BY <1>1, <1>5, <2>1 DEF Fits
    <2>2. CASE it[i].kind # "native"
      BY <1>1, <1>5, <2>2, Stepping
    <2> QED  BY <2>1, <2>2
  <1>7. Move(i, r) /\ (it[i].kind = "native" => Heard(r)) /\ r.at # "room"
    BY <1>1, <1>5, <1>6 DEF Move, Heard, Fits
  <1>8. /\ Onward /\ it'[i] = r /\ \A j \in Intent : j # i => it'[j] = it[j]
    BY <1>7, Given, Moving
  <1>9. ~Heard(it[i])
    BY <1>1 DEF Heard
  <1>10. /\ i \notin answers
         /\ \A n \in DOMAIN chan : chan[n].what = "agent" => chan[n].by # i
    BY <1>9, Given
  <1>11. /\ chan' \in Seq(CommandRecord) /\ OneWait(chan') /\ AgentOnce(chan', answers')
         /\ \A n \in DOMAIN chan' : chan'[n] = c \/ \E m \in DOMAIN chan : chan'[n] = chan[m]
    <2>1. c.what = "agent" => /\ c.by \in Intent \ answers
                              /\ \A n \in DOMAIN chan : chan[n].what = "agent" => chan[n].by # c.by
      BY <1>4, <1>10
    <2> QED  BY <1>1, <1>4, <2>1, Given, Appended
  <1>12. ASSUME NEW n \in DOMAIN chan'
         PROVE  /\ chan'[n].what = "agent" => Heard(it'[chan'[n].by])
                /\ chan'[n].what = "press" => chan'[n].by \in Intent
    <2>1. CASE chan'[n] = c
      BY <1>4, <1>7, <1>8, <2>1
    <2>2. CASE \E m \in DOMAIN chan : chan'[n] = chan[m]
      <3>1. PICK m \in DOMAIN chan : chan'[n] = chan[m]
        BY <2>2
      <3>2. /\ chan[m].what = "agent" => chan[m].by \in Intent /\ Heard(it[chan[m].by])
            /\ chan[m].what = "press" => chan[m].by \in Intent
        BY <3>1, Given DEF Presses
      <3> QED  BY <1>8, <3>1, <3>2 DEF Onward
    <2> QED  BY <1>11, <2>1, <2>2
  <1>15. Presses(chan')
    BY <1>12 DEF Presses
  <1>13. late' \in [Intent -> Nat] /\ Straggling'
    BY <1>1, <1>7, <1>8, Given DEF Straggling
  <1>14. (\A j \in answers : Heard(it'[j])) /\ \A j \in unheard : it'[j].at = "settled"
    BY <1>8, Given DEF Onward
  <1> QED  BY <1>1, <1>8, <1>11, <1>12, <1>13, <1>14, <1>15, Given, Counted, Collected

\* The line without the command of a task that waited in it.
LEMMA WithoutIt ==
    ASSUME Inv, NEW by, Waits(by)
    PROVE  /\ Without(by) \in Seq(CommandRecord) /\ OneWait(Without(by))
           /\ AgentOnce(Without(by), answers)
           /\ \A k \in DOMAIN Without(by) : \E m \in DOMAIN chan : Without(by)[k] = chan[m]
  <1> DEFINE n == CHOOSE n \in DOMAIN chan : n > Capacity /\ chan[n].by = by
  <1>1. n \in DOMAIN chan
    BY DEF Waits
  <1>2. Without(by) = RemoveAt(chan, n)
    BY DEF Without
  <1> HIDE DEF n
  <1>3. chan \in Seq(CommandRecord) /\ OneWait(chan) /\ AgentOnce(chan, answers)
    BY Given
  <1>4. /\ RemoveAt(chan, n) \in Seq(CommandRecord)
        /\ \A k \in DOMAIN RemoveAt(chan, n) : \E m \in DOMAIN chan : RemoveAt(chan, n)[k] = chan[m]
        /\ OneWait(RemoveAt(chan, n)) /\ AgentOnce(RemoveAt(chan, n), answers)
    BY <1>1, <1>3, LeftOut, Zenon
  <1> QED  BY <1>2, <1>4, Zenon

\* A step after which the channel holds no command that it did not hold, unless
\* it is one that nobody answers.
LEMMA OtherCommand ==
    ASSUME Inv, Onward, NEW c, c.what \notin {"agent", "press"},
           chan' \in Seq(CommandRecord), OneWait(chan'), AgentOnce(chan', answers),
           \A n \in DOMAIN chan' : chan'[n] = c \/ \E m \in DOMAIN chan : chan'[n] = chan[m],
           \A j \in Intent : it'[j].at = "room" => it[j].at = "room",
           sweep' \in [Sweeper -> {Idle, "buttons", "keys", "confirm"}],
           logged' \in BOOLEAN, madeUp' \in [Intent -> Nat],
           UNCHANGED <<lease, open, down, answers, unheard, late>>
    PROVE  Inv'
  <1>1. \A n \in DOMAIN chan' : chan'[n].what = "agent" => Heard(it'[chan'[n].by])
    <2> SUFFICES ASSUME NEW n \in DOMAIN chan', chan'[n].what = "agent"
                 PROVE  Heard(it'[chan'[n].by])
      OBVIOUS
    <2>1. PICK m \in DOMAIN chan : chan'[n] = chan[m]
      OBVIOUS
    <2>2. chan[m].by \in Intent /\ Heard(it[chan[m].by])
      BY <2>1, Given
    <2> QED  BY <2>1, <2>2 DEF Onward
  <1>2. Presses(chan')
    <2> SUFFICES ASSUME NEW n \in DOMAIN chan', chan'[n].what = "press"
                 PROVE  chan'[n].by \in Intent
      BY DEF Presses
    <2>1. PICK m \in DOMAIN chan : chan'[n] = chan[m]
      OBVIOUS
    <2> QED  BY <2>1, Given DEF Presses
  <1>3. UNCHANGED <<driver, fenced, chosen, changes>>
    BY DEF lease
  <1>4. Straggling'
    BY <1>3, Given DEF Straggling
  <1>5. (\A j \in answers : Heard(it'[j])) /\ \A j \in unheard : it'[j].at = "settled"
    BY Given DEF Onward
  <1>6. AgentOnce(chan', answers')
    OBVIOUS
  <1> QED  BY <1>1, <1>3, <1>4, <1>5, <1>6, <1>2, Given, Collected

LEMMA LetGoKeeps ==
    ASSUME Inv, NEW i \in Intent, LetGo(i)
    PROVE  Inv'
  <1> DEFINE c == Command(i, "lift", "button")
  <1>1. /\ chan' = Append(chan, c) /\ ~Waits(i)
        /\ UNCHANGED <<lease, sweep, open, down, answers, unheard, late, logged>>
    BY DEF LetGo
  <1>2. c \in CommandRecord /\ c.what \notin {"agent", "press"} /\ c.by = i
    BY DEF Command, CommandRecord
  <1> HIDE DEF c
  <1>3. /\ chan' \in Seq(CommandRecord) /\ OneWait(chan') /\ AgentOnce(chan', answers)
        /\ \A n \in DOMAIN chan' : chan'[n] = c \/ \E m \in DOMAIN chan : chan'[n] = chan[m]
    BY <1>1, <1>2, Given, Appended DEF Waits
  <1>4. Onward /\ \A j \in Intent : it'[j].at = "room" => it[j].at = "room"
    <2>1. CASE Settle(i, it[i].end)
      <3>1. it[i].end \in Ends
        BY Given DEF IntentRecord
      <3>2. Move(i, Over(i, it[i].end)) /\ Over(i, it[i].end).at = "settled"
        BY <2>1, <3>1, Given, Settling
      <3> QED  BY <3>2, Given, Moving
    <2>2. CASE it' = it
      BY <2>2, Given, Staying
    <2> QED  BY <2>1, <2>2 DEF LetGo
  <1>5. sweep' \in [Sweeper -> {Idle, "buttons", "keys", "confirm"}] /\ logged' \in BOOLEAN
    BY <1>1, Given
  <1>7. madeUp' \in [Intent -> Nat]
    BY Counted DEF LetGo, Released
  <1>6. UNCHANGED <<lease, open, down, answers, unheard, late>>
    BY <1>1
  <1> QED  BY <1>2, <1>3, <1>4, <1>5, <1>6, <1>7, OtherCommand

LEMMA LetGoFailsKeeps ==
    ASSUME Inv, NEW i \in Intent, LetGoFails(i)
    PROVE  Inv'
  <1> DEFINE r == [it[i] EXCEPT !.at = "settled", !.kept = TRUE]
             c == Command(None, "other", "key")
  <1>1. /\ it' = [it EXCEPT ![i] = r] /\ it[i].at = "letgo"
        /\ chan' = chan \/ (Waits(i) /\ chan' = Without(i))
        /\ UNCHANGED <<lease, sweep, open, down, answers, unheard, late, madeUp, logged>>
    BY DEF LetGoFails, history
  <1>2. it[i] \in IntentRecord /\ Fits(it[i])
    BY Given DEF OnPlan
  <1>3. /\ r \in IntentRecord /\ r.at = "settled" /\ r.kind = it[i].kind /\ r.step = it[i].step
    BY <1>2 DEF IntentRecord
  <1>4. c.what \notin {"agent", "press"}
    BY DEF Command
  <1> HIDE DEF r, c
  <1>5. Move(i, r)
    BY <1>1, <1>2, <1>3 DEF Move, Heard, Fits
  <1>6. Onward /\ \A j \in Intent : it'[j].at = "room" => it[j].at = "room"
    BY <1>3, <1>5, Given, Moving
  <1>7. /\ chan' \in Seq(CommandRecord) /\ OneWait(chan') /\ AgentOnce(chan', answers)
        /\ \A n \in DOMAIN chan' : \E m \in DOMAIN chan : chan'[n] = chan[m]
    BY <1>1, Given, WithoutIt
  <1> QED  BY <1>1, <1>4, <1>6, <1>7, Given, Counted, OtherCommand

LEMMA NoteKeeps ==
    ASSUME Inv, NEW i \in Intent, Note(i)
    PROVE  Inv'
  <1>1. /\ i \in answers /\ answers' = answers \ {i} /\ Heard(it[i])
        /\ UNCHANGED <<driver, fenced, chosen, changes, sweep, chan, open, down, late, madeUp, logged>>
    BY Given DEF Note, lease
  <1>2. AgentOnce(chan', answers')
    BY <1>1, Given DEF AgentOnce
  <1>3. \A n \in DOMAIN chan : chan[n].what = "agent" => chan[n].by \in Intent /\ chan[n].by # i
    BY <1>1, Given DEF AgentOnce
  <1>4. CASE it[i].slot = "open"
    <2> DEFINE r == [it[i] EXCEPT !.slot = "full"]
    <2>1. it' = [it EXCEPT ![i] = r] /\ unheard' = unheard
      BY <1>4 DEF Note
    <2>2. it \in [Intent -> IntentRecord] /\ it[i] \in IntentRecord /\ Fits(it[i])
      BY Given DEF OnPlan
    <2>3. /\ r \in IntentRecord /\ r.at = it[i].at /\ r.kind = it[i].kind /\ r.step = it[i].step
      BY <2>2 DEF IntentRecord
    <2> HIDE DEF r
    <2>4. it[i].at # "room"
      BY <1>1 DEF Heard
    <2>5. Fits(r)
      BY <2>2, <2>3, <2>4 DEF Fits
    <2>6. /\ it' \in [Intent -> IntentRecord] /\ it'[i] = r
          /\ \A j \in Intent : j # i => it'[j] = it[j]
      BY <2>1, <2>2, <2>3
    <2>7. OnPlan'
      BY <2>5, <2>6, Given DEF OnPlan
    <2>8. \A j \in Intent : it'[j].at = it[j].at
      BY <2>3, <2>6
    <2>9. Straggling'
      BY <1>1, <2>8, Given DEF Straggling
    <2>10. (\A j \in answers' : Heard(it'[j])) /\ \A j \in unheard : it'[j].at = "settled"
      BY <1>1, <2>6, <2>8, Given
    <2>11. \A n \in DOMAIN chan : chan[n].what = "agent" => Heard(it'[chan[n].by])
      BY <1>3, <2>6, Given
    <2>12. /\ chan' \in Seq(CommandRecord) /\ OneWait(chan') /\ answers' \subseteq Intent
           /\ Presses(chan')
           /\ Len(chan') <= Capacity + Cardinality(Sweeper) + Cardinality(Intent)
      BY <1>1, Given, LineBound
    <2>13. TypeOK'
      BY <1>1, <2>1, <2>6, <2>12, Given DEF TypeOK, IntentRecord, Ends, CommandRecord
    <2>14. Listening' /\ AnswersAreHeard'
      BY <1>1, <2>1, <2>10, <2>11 DEF Listening, AnswersAreHeard
    <2> QED  BY <1>2, <2>7, <2>9, <2>12, <2>13, <2>14 DEF Inv
  <1>5. CASE it[i].slot # "open"
    <2>1. it' = it /\ unheard' = unheard \cup {i} /\ it[i].at = "settled"
      BY <1>1, <1>5 DEF Note, Heard
    <2>2. Onward
      BY <2>1, Given, Staying
    <2>3. Straggling'
      BY <1>1, <2>1, Given DEF Straggling
    <2> QED  BY <1>1, <1>2, <2>1, <2>2, <2>3, Given, Counted, Collected
  <1> QED  BY <1>4, <1>5

-----------------------------------------------------------------------------
(* The lease and its sweeps. *)

LEMMA NextSweeps == \A s : NextSweep(s) \in {"keys", "confirm"}
  BY DEF NextSweep

LEMMA ChangeKeeps ==
    ASSUME Inv, NEW f \in Grant \cup {None}, NEW c \in Grant \cup {None}, Change(f, c)
    PROVE  Inv'
  <1>1. /\ changes < MaxChanges /\ changes' = changes + 1
        /\ driver' = None /\ fenced' = f /\ chosen' = c
        /\ UNCHANGED <<it, chan, open, down, answers, unheard, late, madeUp, logged>>
    BY DEF Change, history
  <1>2. changes' \in 0..MaxChanges
    BY <1>1, Given, PlaneAssumption
  <1>3. sweep' \in [Sweeper -> {Idle, "buttons", "keys", "confirm"}]
    BY Given DEF Change
  <1>4. Onward
    BY <1>1, Given, Staying
  <1>5. Straggling'
    BY <1>1, Given, PlaneAssumption DEF Straggling
  <1>6. \A n \in DOMAIN chan' : chan'[n].what = "agent" => Heard(it'[chan'[n].by])
    BY <1>1, Given
  <1> QED  BY <1>1, <1>2, <1>3, <1>4, <1>5, <1>6, Given, Counted, Collected

LEMMA SweepSendsKeeps ==
    ASSUME Inv, NEW s \in Sweeper, SweepSends(s)
    PROVE  Inv'
  <1> DEFINE c == Command(s, "sweep", IF sweep[s] = "keys" THEN "key" ELSE "button")
  <1>1. /\ chan' = Append(chan, c) /\ ~Waits(s)
        /\ UNCHANGED <<lease, it, open, down, answers, unheard, late, madeUp, logged>>
    BY DEF SweepSends, history
  <1>2. c \in CommandRecord /\ c.what \notin {"agent", "press"} /\ c.by = s
    BY DEF Command, CommandRecord
  <1> HIDE DEF c
  <1>3. /\ chan' \in Seq(CommandRecord) /\ OneWait(chan') /\ AgentOnce(chan', answers)
        /\ \A n \in DOMAIN chan' : chan'[n] = c \/ \E m \in DOMAIN chan : chan'[n] = chan[m]
    BY <1>1, <1>2, Given, Appended DEF Waits
  <1>4. sweep' \in [Sweeper -> {Idle, "buttons", "keys", "confirm"}]
    BY Given, NextSweeps DEF SweepSends
  <1>5. Onward
    BY <1>1, Given, Staying
  <1> QED  BY <1>1, <1>2, <1>3, <1>4, <1>5, Given, Counted, OtherCommand

LEMMA SweepFailsKeeps ==
    ASSUME Inv, NEW s \in Sweeper, SweepFails(s)
    PROVE  Inv'
  <1> DEFINE c == Command(None, "other", "key")
  <1>1. /\ chan' = chan \/ (Waits(s) /\ chan' = Without(s))
        /\ logged' = TRUE
        /\ UNCHANGED <<lease, it, open, down, answers, unheard, late, madeUp>>
    BY DEF SweepFails
  <1>2. c.what \notin {"agent", "press"}
    BY DEF Command
  <1> HIDE DEF c
  <1>3. /\ chan' \in Seq(CommandRecord) /\ OneWait(chan') /\ AgentOnce(chan', answers)
        /\ \A n \in DOMAIN chan' : \E m \in DOMAIN chan : chan'[n] = chan[m]
    BY <1>1, Given, WithoutIt
  <1>4. sweep' \in [Sweeper -> {Idle, "buttons", "keys", "confirm"}]
    BY Given, NextSweeps DEF SweepFails
  <1>5. Onward
    BY <1>1, Given, Staying
  <1> QED  BY <1>1, <1>2, <1>3, <1>4, <1>5, Counted, OtherCommand

LEMMA ConfirmKeeps ==
    ASSUME Inv, NEW s \in Sweeper, Confirm(s)
    PROVE  Inv'
  <1>1. UNCHANGED <<changes, it, chan, open, down, answers, unheard, madeUp, logged>>
    BY DEF Confirm, lease
  <1>2. sweep' \in [Sweeper -> {Idle, "buttons", "keys", "confirm"}]
    BY Given DEF Confirm
  <1>3. Onward
    BY <1>1, Given, Staying
  <1>4. /\ {driver', fenced', chosen'} \subseteq Grant \cup {None}
        /\ late' \in [Intent -> Nat] /\ Straggling'
    <2>1. CASE chosen = None
      BY <1>1, <2>1, Given DEF Confirm, lease, Straggling
    <2>2. CASE chosen # None
      <3>1. /\ driver' = chosen /\ fenced' = None /\ chosen' = None
            /\ late' = [i \in Intent |-> IF GrantOf[i] = chosen THEN 0 ELSE late[i]]
        BY <2>2 DEF Confirm
      <3>2. late' \in [Intent -> Nat]
        BY <3>1, Given
      <3>3. Straggling'
        BY <1>1, <3>1, Given DEF Straggling
      <3> QED  BY <3>1, <3>2, <3>3, Given
    <2> QED  BY <2>1, <2>2
  <1>5. \A n \in DOMAIN chan' : chan'[n].what = "agent" => Heard(it'[chan'[n].by])
    BY <1>1, Given
  <1> QED  BY <1>1, <1>2, <1>3, <1>4, <1>5, Given, Counted, Collected

-----------------------------------------------------------------------------
(* The session. *)

LEMMA OtherPutsKeeps ==
    ASSUME Inv, OtherPuts
    PROVE  Inv'
  <1> DEFINE c == Command(None, "other", "key")
  <1>1. /\ chan' = Append(chan, c) /\ Free > 0
        /\ UNCHANGED <<lease, sweep, it, open, down, answers, unheard, late, madeUp, logged>>
    BY DEF OtherPuts, history
  <1>2. c \in CommandRecord /\ c.what \notin {"agent", "press"}
    BY DEF Command, CommandRecord
  <1> HIDE DEF c
  <1>3. /\ chan' \in Seq(CommandRecord) /\ OneWait(chan') /\ AgentOnce(chan', answers)
        /\ \A n \in DOMAIN chan' : chan'[n] = c \/ \E m \in DOMAIN chan : chan'[n] = chan[m]
    BY <1>1, <1>2, Given, Slots, Appended
  <1>4. Onward
    BY <1>1, Given, Staying
  <1> QED  BY <1>1, <1>2, <1>3, <1>4, Given, Counted, OtherCommand

LEMMA CloseKeeps ==
    ASSUME Inv, Close
    PROVE  Inv'
  <1>1. /\ chan' = << >> /\ open' = FALSE
        /\ UNCHANGED <<driver, fenced, chosen, changes, sweep, it, down, answers, unheard,
                       late, madeUp, logged>>
    BY DEF Close, history, lease
  <1>2. /\ OneWait(chan') /\ AgentOnce(chan', answers') /\ chan' \in Seq(CommandRecord)
        /\ Presses(chan')
    BY <1>1 DEF OneWait, AgentOnce, Presses
  <1>3. Onward
    BY <1>1, Given, Staying
  <1>4. Straggling'
    BY <1>1, Given DEF Straggling
  <1>5. \A n \in DOMAIN chan' : chan'[n].what = "agent" => Heard(it'[chan'[n].by])
    BY <1>1
  <1> QED  BY <1>1, <1>2, <1>3, <1>4, <1>5, Given, Counted, Collected

LEMMA ServeKeeps ==
    ASSUME Inv, Serve
    PROVE  Inv'
  <1> DEFINE c == Head(chan)
             w == chan[Capacity + 1]
  <1>1. /\ chan # << >> /\ chan' = Tail(chan) /\ down' = Applied(down, c)
        /\ answers' = IF c.what = "agent" THEN answers \cup {c.by} ELSE answers
        /\ UNCHANGED <<driver, fenced, chosen, changes, open, unheard, late, logged>>
    BY DEF Serve, lease
  <1>2. 1 \in DOMAIN chan /\ c = chan[1] /\ c \in CommandRecord
    BY <1>1, Given
  <1> HIDE DEF c
  <1>3. chan \in Seq(CommandRecord) /\ OneWait(chan) /\ AgentOnce(chan, answers)
    BY Given
  <1>4. chan' = RemoveAt(chan, 1)
    BY <1>1, <1>2, <1>3, LeftOut
  <1>5. /\ chan' \in Seq(CommandRecord) /\ OneWait(chan')
        /\ \A k \in DOMAIN chan' : \E m \in DOMAIN chan : chan'[k] = chan[m]
    <2>1. /\ RemoveAt(chan, 1) \in Seq(CommandRecord) /\ OneWait(RemoveAt(chan, 1))
          /\ \A k \in DOMAIN RemoveAt(chan, 1) : \E m \in DOMAIN chan : RemoveAt(chan, 1)[k] = chan[m]
      BY <1>2, <1>3, LeftOut, Zenon
    <2> QED  BY <1>4, <2>1, Zenon
  <1>6. AgentOnce(chan', answers')
    <2>1. CASE c.what = "agent"
      BY <1>1, <1>2, <1>3, <2>1, LeftOut
    <2>2. CASE c.what # "agent"
      <3>1. AgentOnce(RemoveAt(chan, 1), answers)
        BY <1>2, <1>3, LeftOut, Zenon
      <3> QED  BY <1>1, <1>4, <2>2, <3>1
    <2> QED  BY <2>1, <2>2
  <1>7. Presses(chan')
    BY <1>5, Given DEF Presses
  <1>8. /\ Onward /\ \A j \in Intent : it'[j].at = "room" => it[j].at = "room"
        /\ sweep' \in [Sweeper -> {Idle, "buttons", "keys", "confirm"}]
    <2>1. CASE Len(chan) > Capacity
      <3>1. Admitted(w)
        BY <2>1 DEF Serve
      <3> HIDE DEF w
      <3>2. sweep' \in [Sweeper -> {Idle, "buttons", "keys", "confirm"}]
        BY <3>1, Given, NextSweeps DEF Admitted
      <3>3. CASE w.by \in Intent
        <4>1. Settle(w.by, it[w.by].end) /\ it[w.by].end \in Ends
          BY <3>1, <3>3, Given DEF Admitted, IntentRecord
        <4>2. /\ Move(w.by, Over(w.by, it[w.by].end))
              /\ Over(w.by, it[w.by].end).at = "settled"
          BY <3>3, <4>1, Given, Settling
        <4> QED  BY <3>2, <3>3, <4>2, Given, Moving
      <3>4. CASE w.by \notin Intent
        <4>1. it' = it
          BY <3>1, <3>4 DEF Admitted
        <4> QED  BY <3>2, <4>1, Given, Staying
      <3> QED  BY <3>3, <3>4
    <2>2. CASE ~(Len(chan) > Capacity)
      <3>1. it' = it /\ sweep' = sweep
        BY <2>2 DEF Serve
      <3> QED  BY <3>1, Given, Staying
    <2> QED  BY <2>1, <2>2
  <1>9. /\ answers' \subseteq Intent /\ \A j \in answers' : Heard(it'[j])
        /\ \A j \in unheard : it'[j].at = "settled"
    BY <1>1, <1>2, <1>8, Given DEF Onward
  <1>10. \A n \in DOMAIN chan' : chan'[n].what = "agent" => Heard(it'[chan'[n].by])
    BY <1>5, <1>8, Given DEF Onward
  <1>11. down' \subseteq Intent \X {"key", "button"}
    <2>1. c.what = "press" => c.by \in Intent
      BY <1>2, Given DEF Presses
    <2>2. Applied(down, c) \subseteq down \cup (IF c.what = "press" THEN {<<c.by, c.part>>} ELSE {})
      BY DEF Applied, Buttons
    <2>3. c.part \in {"key", "button"} /\ down \subseteq Intent \X {"key", "button"}
      BY <1>2, Given DEF CommandRecord
    <2> QED  BY <1>1, <2>1, <2>2, <2>3
  <1>12. Straggling'
    BY <1>1, <1>8, Given DEF Straggling
  <1>13. madeUp' \in [Intent -> Nat]
    BY Counted DEF Serve, Admitted, Released
  <1> QED  BY <1>1, <1>5, <1>6, <1>8, <1>9, <1>10, <1>11, <1>12, <1>13, <1>7, Given, Counted, Collected

-----------------------------------------------------------------------------
(* The theorems. *)

LEMMA InitInv == Init => Inv
  <1> SUFFICES ASSUME Init
               PROVE  Inv
    OBVIOUS
  <1>1. PICK mix \in Mixes :
            it = [i \in Intent |->
                    [kind |-> mix[i], at |-> "new", step |-> 1, held |-> FALSE,
                     cancel |-> FALSE, slot |-> "none", end |-> "none", kept |-> FALSE]]
    BY DEF Init
  <1>2. mix \in [Intent -> Kind]
    BY PlaneAssumption
  <1>3. it \in [Intent -> IntentRecord]
    BY <1>1, <1>2 DEF IntentRecord, Ends
  <1>4. \A i \in Intent : it[i].at = "new" /\ it[i].step = 1 /\ it[i].kind \in Kind
    BY <1>1, <1>2
  <1>5. OnPlan
    BY <1>4, Plans DEF OnPlan, Fits
  <1>6. OneWait(chan) /\ Presses(chan) /\ AgentOnce(chan, answers) /\ chan \in Seq(CommandRecord)
    BY DEF Init, OneWait, Presses, AgentOnce
  <1>7. Listening /\ AnswersAreHeard /\ Straggling
    BY DEF Init, Listening, AnswersAreHeard, Straggling
  <1>8. Len(chan) <= Capacity + Cardinality(Sweeper) + Cardinality(Intent)
    BY <1>6, LineBound
  <1>9. /\ changes \in 0..MaxChanges /\ late \in [Intent -> Nat] /\ madeUp \in [Intent -> Nat]
        /\ sweep \in [Sweeper -> {Idle, "buttons", "keys", "confirm"}]
    BY PlaneAssumption DEF Init
  <1>10. TypeOK
    BY <1>3, <1>6, <1>8, <1>9 DEF Init, TypeOK, IntentRecord, Ends, CommandRecord
  <1> QED  BY <1>5, <1>6, <1>7, <1>10 DEF Inv

\* Every reachable state of the plane satisfies Inv.
THEOREM Invariance == Spec => []Inv
  <1>1. Inv /\ [Next]_vars => Inv'
    <2> SUFFICES ASSUME Inv, [Next]_vars
                 PROVE  Inv'
      OBVIOUS
    <2>1. CASE (\E g \in Grant : HandTo(g)) \/ Fence \/ Vacate
      <3>1. driver \in Grant \cup {None}
        BY Given
      <3> QED  BY <2>1, <3>1, ChangeKeeps DEF HandTo, Fence, Vacate
    <2>2. CASE \E s \in Sweeper : SweepSends(s) \/ SweepFails(s) \/ Confirm(s)
      BY <2>2, SweepSendsKeeps, SweepFailsKeeps, ConfirmKeeps
    <2>3. CASE \E i \in Intent : Refuse(i) \/ Start(i) \/ Cancel(i) \/ Look(i) \/ Send(i) \/ Shed(i)
      BY <2>3, RefuseKeeps, StartKeeps, CancelKeeps, LookKeeps, SendKeeps, ShedKeeps
    <2>4. CASE \E i \in Intent : Block(i) \/ Lose(i) \/ LetGo(i) \/ LetGoFails(i) \/ Answer(i) \/ Note(i)
      BY <2>4, BlockOrLoseKeeps, LetGoKeeps, LetGoFailsKeeps, AnswerKeeps, NoteKeeps
    <2>5. CASE Serve \/ OtherPuts \/ Close
      BY <2>5, ServeKeeps, OtherPutsKeeps, CloseKeeps
    <2>6. CASE UNCHANGED vars
      <3>1. UNCHANGED <<driver, fenced, chosen, changes, sweep, it, chan, open, down, answers,
                        unheard, late, madeUp, logged>>
        BY <2>6 DEF vars, lease, history
      <3>2. Onward /\ Straggling'
        BY <3>1, Given, Staying DEF Straggling
      <3>3. \A n \in DOMAIN chan' : chan'[n].what = "agent" => Heard(it'[chan'[n].by])
        BY <3>1, Given
      <3> QED  BY <3>1, <3>2, <3>3, Given, Counted, Collected
    <2> QED  BY <2>1, <2>2, <2>3, <2>4, <2>5, <2>6 DEF Next
  <1> QED  BY InitInv, <1>1, PTL DEF Spec

\* The variables keep their types, and the line for the channel never gets
\* longer than its bound and one place for every task.
THEOREM TypeCorrect == Spec => []TypeOK
  BY Invariance, PTL DEF Inv

\* However many intents, answers and deadlines race, an answer that finds
\* nobody waiting is one whose intent has settled.
THEOREM AnswersFindTheirIntent == Spec => []AnswersAreHeard
  BY Invariance, PTL DEF Inv

-----------------------------------------------------------------------------
(* What stays down.  The rest of this module is about the keys and buttons *)
(* that intents hold: a second invariant, which builds on the first.       *)

\* What a task that waits for a slot waits with: the walk of a drag with the
\* release it was made up, a sweep with what its honour has come to.
Patience(c, t, w) ==
    \/ /\ c.by \in Intent /\ t[c.by].at = "letgo"
       /\ c.what = "lift" /\ c.part = "button"
    \/ /\ c.by \in Sweeper /\ c.what = "sweep"
       /\ w[c.by] = IF c.part = "button" THEN "buttons" ELSE "keys"
Patient == \A n \in DOMAIN chan : n > Capacity => Patience(chan[n], it, sweep)

Part == {"key", "button"}

\* What remains of d and q for x when only the commands at the places R
\* release it.
Left(d, q, x, R) ==
    \/ x \in d /\ R = {}
    \/ \E n \in DOMAIN q : Pressing(q[n], x) /\ \A m \in R : m < n

\* The releases that are the intent's own, and those that nobody takes back:
\* a walk may leave the line with its made up release.
Own(q, x) ==
    {m \in DOMAIN q : q[m].what = "lift" /\ q[m].part = x[2] /\ q[m].by = x[1]}
Firm(q, x) ==
    {m \in DOMAIN q : Releasing(q[m], x) /\ (m <= Capacity \/ q[m].by \in Sweeper)}

\* An intent has something of its own down, or on its way down, only between
\* its press and its release; and a drag only until it is let go of.
MayHold(r, part) ==
    \/ part = "key" /\ r.kind = "type" /\ r.step = 2
    \/ part = "button" /\ r.kind = "click" /\ r.step = 3
    \/ /\ part = "button" /\ r.kind = "drag"
       /\ \/ r.at \in {"walk", "room"} /\ r.held
          \/ r.at = "letgo"
          \/ r.at = "settled" /\ r.kept
OwnReleases ==
    open => \A x \in Intent \X Part :
                Left(down, chan, x, Own(chan, x)) => MayHold(it[x[1]], x[2])

\* A walk is done only at its end, and only a drag has a button to let go of.
Walk(r) ==
    /\ r.end = "Done" => r.step > Len(Plan(r.kind))
    /\ r.held \/ r.at = "letgo" => r.kind = "drag"
Walks == \A i \in Intent : Walk(it[i])

\* A hand over waits only while nobody may dispatch.
NobodyMeanwhile == chosen # None => driver = None

\* As long as every release went, whatever is down for a grant that may not
\* dispatch, stragglers apart, has a sweep still to come.
Owes(w, part) == w = "buttons" \/ (part = "key" /\ w = "keys")
SweepsOwed ==
    open /\ ~logged =>
        \A x \in Intent \X Part :
            /\ Left(down, chan, x, Firm(chan, x))
            /\ GrantOf[x[1]] # driver /\ late[x[1]] = 0
            => \E s \in Sweeper : Owes(sweep[s], x[2])

\* Nothing is on a channel that is closed.
Drained == ~open => chan = << >>

Hands ==
    /\ Patient /\ OwnReleases /\ Walks /\ NobodyMeanwhile /\ SweepsOwed /\ Drained

-----------------------------------------------------------------------------
(* What a command does to what will be down. *)

LEMMA AppliedIs ==
    ASSUME NEW d, NEW c \in CommandRecord, NEW x \in Intent \X Part
    PROVE  /\ x \in Applied(d, c) <=> Pressing(c, x) \/ (x \in d /\ ~Releasing(c, x))
           /\ ~(Pressing(c, x) /\ Releasing(c, x))
  <1>1. x = <<x[1], x[2]>> /\ x[1] \in Intent /\ x[2] \in Part
    BY DEF Part
  <1>2. /\ c.what \in {"press", "lift", "agent", "sweep", "other"}
        /\ c.part \in {"key", "button"}
    BY DEF CommandRecord
  <1>3. \A by, part : x = <<by, part>> <=> x[1] = by /\ x[2] = part
    BY <1>1
  <1>4. ~(Pressing(c, x) /\ Releasing(c, x))
    BY <1>1 DEF Pressing, Releasing, Part
  <1>5. CASE c.what = "press"
    <2>1. CASE c.part = "button"
      <3>1. Applied(d, c) = (d \ Buttons(d)) \cup {<<c.by, "button">>}
        BY <1>5, <2>1 DEF Applied
      <3> QED  BY <1>1, <1>3, <1>5, <2>1, <3>1 DEF Buttons, Pressing, Releasing, Part
    <2>2. CASE c.part = "key"
      <3>1. Applied(d, c) = d \cup {<<c.by, "key">>}
        BY <1>5, <2>2 DEF Applied
      <3> QED  BY <1>1, <1>3, <1>5, <2>2, <3>1 DEF Pressing, Releasing, Part
    <2> QED  BY <1>2, <1>4, <2>1, <2>2
  <1>6. CASE c.what = "lift"
    <2>1. CASE c.part = "button"
      <3>1. Applied(d, c) = d \ Buttons(d)
        BY <1>6, <2>1 DEF Applied
      <3> QED  BY <1>1, <1>4, <1>6, <2>1, <3>1 DEF Buttons, Pressing, Releasing, Part
    <2>2. CASE c.part = "key"
      <3>1. Applied(d, c) = d \ {<<c.by, "key">>}
        BY <1>6, <2>2 DEF Applied
      <3> QED  BY <1>1, <1>3, <1>4, <1>6, <2>2, <3>1 DEF Pressing, Releasing, Part
    <2> QED  BY <1>2, <2>1, <2>2
  <1>7. CASE c.what = "sweep"
    <2>1. CASE c.part = "button"
      <3>1. Applied(d, c) = d \ Buttons(d)
        BY <1>7, <2>1 DEF Applied
      <3> QED  BY <1>1, <1>4, <1>7, <2>1, <3>1 DEF Buttons, Pressing, Releasing, Part
    <2>2. CASE c.part = "key"
      <3>1. Applied(d, c) = Buttons(d)
        BY <1>7, <2>2 DEF Applied
      <3> QED  BY <1>1, <1>4, <1>7, <2>2, <3>1 DEF Buttons, Pressing, Releasing, Part
    <2> QED  BY <1>2, <2>1, <2>2
  <1>8. CASE c.what \in {"agent", "other"}
    <2>1. Applied(d, c) = d
      BY <1>8 DEF Applied
    <2> QED  BY <1>4, <1>8, <2>1 DEF Pressing, Releasing
  <1> QED  BY <1>2, <1>5, <1>6, <1>7, <1>8

\* A command at the end of the line.
LEMMA LeftAppended ==
    ASSUME NEW q \in Seq(CommandRecord), NEW c \in CommandRecord, NEW d, NEW x,
           NEW R \in SUBSET DOMAIN q, NEW S, R \subseteq S,
           Left(d, Append(q, c), x, S)
    PROVE  Pressing(c, x) \/ (Left(d, q, x, R) /\ Len(q) + 1 \notin S)
  <1> DEFINE s == Append(q, c)
  <1>1. /\ DOMAIN s = 1..(Len(q) + 1) /\ DOMAIN q = 1..Len(q) /\ Len(q) \in Nat
        /\ s[Len(q) + 1] = c /\ \A n \in 1..Len(q) : s[n] = q[n]
    OBVIOUS
  <1> HIDE DEF s
  <1>2. CASE x \in d /\ S = {}
    BY <1>2 DEF Left
  <1>3. CASE \E n \in DOMAIN s : Pressing(s[n], x) /\ \A m \in S : m < n
    <2>1. PICK n \in DOMAIN s : Pressing(s[n], x) /\ \A m \in S : m < n
      BY <1>3
    <2>2. CASE n = Len(q) + 1
      BY <1>1, <2>1, <2>2
    <2>3. CASE n \in DOMAIN q
      <3>1. Left(d, q, x, R)
        BY <1>1, <2>1, <2>3 DEF Left
      <3>2. Len(q) + 1 \notin S
        BY <1>1, <2>1, <2>3
      <3> QED  BY <3>1, <3>2
    <2> QED  BY <1>1, <2>2, <2>3
  <1> QED  BY <1>2, <1>3 DEF Left, s

\* A command that leaves the line from the place p and released nothing.
LEMMA LeftOmitted ==
    ASSUME NEW q \in Seq(CommandRecord), NEW p \in DOMAIN q, NEW d, NEW x,
           NEW R \in SUBSET DOMAIN q, NEW S \in SUBSET DOMAIN RemoveAt(q, p),
           \A m \in R : \E k \in S : m = Was(k, p),
           Left(d, RemoveAt(q, p), x, S)
    PROVE  Left(d, q, x, R)
  <1> DEFINE s == RemoveAt(q, p)
  <1>1. /\ DOMAIN s = 1..(Len(q) - 1) /\ DOMAIN q = 1..Len(q) /\ Len(q) \in Nat
        /\ \A k \in 1..(Len(q) - 1) : s[k] = q[Was(k, p)]
    BY Omitted
  <1> HIDE DEF s
  <1>2. CASE x \in d /\ S = {}
    BY <1>2 DEF Left
  <1>3. CASE \E n \in DOMAIN s : Pressing(s[n], x) /\ \A m \in S : m < n
    <2>1. PICK n \in DOMAIN s : Pressing(s[n], x) /\ \A m \in S : m < n
      BY <1>3
    <2>2. Was(n, p) \in DOMAIN q /\ Pressing(q[Was(n, p)], x)
      BY <1>1, <2>1 DEF Was
    <2>3. \A k \in S : Was(k, p) < Was(n, p)
      BY <1>1, <2>1 DEF Was, s
    <2> QED  BY <2>2, <2>3 DEF Left
  <1> QED  BY <1>2, <1>3 DEF Left, s

\* The first command is served.
LEMMA LeftServed ==
    ASSUME NEW q \in Seq(CommandRecord), q # << >>, NEW d, NEW x \in Intent \X Part,
           NEW R \in SUBSET DOMAIN q, NEW S \in SUBSET DOMAIN Tail(q),
           \A m \in R : (m = 1 /\ Releasing(q[1], x)) \/ m - 1 \in S,
           Left(Applied(d, q[1]), Tail(q), x, S)
    PROVE  Left(d, q, x, R)
  <1> DEFINE s == Tail(q)
  <1>1. /\ DOMAIN s = 1..(Len(q) - 1) /\ DOMAIN q = 1..Len(q) /\ Len(q) \in Nat
        /\ \A k \in 1..(Len(q) - 1) : s[k] = q[k + 1]
        /\ 1 \in DOMAIN q /\ q[1] \in CommandRecord
    OBVIOUS
  <1> HIDE DEF s
  <1>2. CASE x \in Applied(d, q[1]) /\ S = {}
    <2>1. Pressing(q[1], x) \/ (x \in d /\ ~Releasing(q[1], x))
      BY <1>1, <1>2, AppliedIs
    <2>2. ~(Pressing(q[1], x) /\ Releasing(q[1], x))
      BY <1>1, AppliedIs
    <2>3. R = {}
      BY <1>2, <2>1, <2>2
    <2> QED  BY <1>1, <2>1, <2>3 DEF Left
  <1>3. CASE \E n \in DOMAIN s : Pressing(s[n], x) /\ \A m \in S : m < n
    <2>1. PICK n \in DOMAIN s : Pressing(s[n], x) /\ \A m \in S : m < n
      BY <1>3
    <2>2. n + 1 \in DOMAIN q /\ Pressing(q[n + 1], x)
      BY <1>1, <2>1
    <2>3. \A m \in R : m < n + 1
      BY <1>1, <2>1
    <2> QED  BY <2>2, <2>3 DEF Left
  <1> QED  BY <1>2, <1>3 DEF Left, s

\* What remains of a command and a line is what the command leaves and the
\* rest of the line makes of it: Coming is what the machine will hold down when
\* it has taken the commands one by one, as Serve does.
THEOREM RemainingIsServed ==
    ASSUME NEW q \in Seq(CommandRecord), NEW d \in SUBSET (Intent \X {"key", "button"})
    PROVE  /\ Remaining(d, << >>) = d
           /\ q # << >> => Remaining(d, q) = Remaining(Applied(d, q[1]), Tail(q))
  <1>1. Remaining(d, << >>) = d
    BY DEF Remaining
  <1>2. ASSUME q # << >>, NEW x \in Intent \X {"key", "button"}
        PROVE  x \in Remaining(d, q) <=> x \in Remaining(Applied(d, q[1]), Tail(q))
    <2> DEFINE s == Tail(q)
    <2>1. /\ DOMAIN s = 1..(Len(q) - 1) /\ DOMAIN q = 1..Len(q) /\ Len(q) \in Nat
          /\ \A k \in 1..(Len(q) - 1) : s[k] = q[k + 1]
          /\ \A m \in DOMAIN q : m = 1 \/ (m - 1 \in DOMAIN s /\ q[m] = s[m - 1])
          /\ 1 \in DOMAIN q /\ q[1] \in CommandRecord
      BY <1>2
    <2>2. /\ x \in Applied(d, q[1]) <=> Pressing(q[1], x) \/ (x \in d /\ ~Releasing(q[1], x))
          /\ ~(Pressing(q[1], x) /\ Releasing(q[1], x))
      BY <2>1, AppliedIs DEF Part
    <2> HIDE DEF s
    <2>3. ASSUME x \in Remaining(d, q)
          PROVE  x \in Remaining(Applied(d, q[1]), s)
      <3>1. CASE x \in d /\ \A m \in DOMAIN q : ~Releasing(q[m], x)
        <4>1. \A k \in DOMAIN s : k + 1 \in DOMAIN q /\ q[k + 1] = s[k]
          BY <2>1
        <4>2. x \in Applied(d, q[1])
          BY <2>1, <2>2, <3>1
        <4>3. \A k \in DOMAIN s : ~Releasing(s[k], x)
          BY <3>1, <4>1
        <4> QED  BY <4>2, <4>3 DEF Remaining
      <3>2. CASE \E n \in DOMAIN q :
                    Pressing(q[n], x) /\ \A m \in DOMAIN q : Releasing(q[m], x) => m < n
        <4>1. PICK n \in DOMAIN q :
                    Pressing(q[n], x) /\ \A m \in DOMAIN q : Releasing(q[m], x) => m < n
          BY <3>2
        <4>2. CASE n = 1
          <5>1. x \in Applied(d, q[1])
            BY <2>2, <4>1, <4>2
          <5>2. \A k \in DOMAIN s : ~Releasing(s[k], x)
            BY <2>1, <4>1, <4>2
          <5> QED  BY <5>1, <5>2 DEF Remaining
        <4>3. CASE n # 1
          <5>1. n - 1 \in DOMAIN s /\ Pressing(s[n - 1], x)
            BY <2>1, <4>1, <4>3
          <5>2. \A k \in DOMAIN s : k + 1 \in DOMAIN q /\ q[k + 1] = s[k]
            BY <2>1
          <5>3. \A k \in DOMAIN s : Releasing(s[k], x) => k + 1 < n
            BY <4>1, <5>2
          <5>4. \A k \in DOMAIN s : Releasing(s[k], x) => k < n - 1
            BY <2>1, <4>1, <5>3
          <5> QED  BY <5>1, <5>4 DEF Remaining
        <4> QED  BY <4>2, <4>3
      <3> QED  BY <2>3, <3>1, <3>2 DEF Remaining
    <2>4. ASSUME x \in Remaining(Applied(d, q[1]), s)
          PROVE  x \in Remaining(d, q)
      <3>1. CASE x \in Applied(d, q[1]) /\ \A k \in DOMAIN s : ~Releasing(s[k], x)
        <4>1. CASE Pressing(q[1], x)
          <5>1. \A m \in DOMAIN q : ~Releasing(q[m], x)
            BY <2>1, <2>2, <3>1, <4>1
          <5> QED  BY <2>1, <4>1, <5>1 DEF Remaining
        <4>2. CASE x \in d /\ ~Releasing(q[1], x)
          <5>1. \A m \in DOMAIN q : ~Releasing(q[m], x)
            BY <2>1, <3>1, <4>2
          <5> QED  BY <4>2, <5>1 DEF Remaining
        <4> QED  BY <2>2, <3>1, <4>1, <4>2
      <3>2. CASE \E n \in DOMAIN s :
                    Pressing(s[n], x) /\ \A m \in DOMAIN s : Releasing(s[m], x) => m < n
        <4>1. PICK n \in DOMAIN s :
                    Pressing(s[n], x) /\ \A m \in DOMAIN s : Releasing(s[m], x) => m < n
          BY <3>2
        <4>2. n + 1 \in DOMAIN q /\ Pressing(q[n + 1], x)
          BY <2>1, <4>1
        <4>3. \A m \in DOMAIN q : Releasing(q[m], x) => m < n + 1
          BY <2>1, <4>1
        <4> QED  BY <4>2, <4>3 DEF Remaining
      <3> QED  BY <2>4, <3>1, <3>2 DEF Remaining
    <2> QED  BY <2>3, <2>4 DEF s
  <1>3. ASSUME q # << >>
        PROVE  Remaining(d, q) = Remaining(Applied(d, q[1]), Tail(q))
    BY <1>2, <1>3 DEF Remaining
  <1> QED  BY <1>1, <1>3

-----------------------------------------------------------------------------
(* What makes a state good again for the hands. *)

LEMMA InHand ==
    ASSUME \A n \in DOMAIN chan' : n > Capacity => Patience(chan'[n], it', sweep'),
           open' => \A x \in Intent \X Part :
                        Left(down', chan', x, Own(chan', x)) => MayHold(it'[x[1]], x[2]),
           \A i \in Intent : Walk(it'[i]),
           chosen' # None => driver' = None,
           open' /\ ~logged' =>
               \A x \in Intent \X Part :
                   /\ Left(down', chan', x, Firm(chan', x))
                   /\ GrantOf[x[1]] # driver' /\ late'[x[1]] = 0
                   => \E s \in Sweeper : Owes(sweep'[s], x[2]),
           ~open' => chan' = << >>
    PROVE  Hands'
  <1>1. Patient'
    BY DEF Patient, Patience
  <1>2. OwnReleases'
    BY DEF OwnReleases, Left, Own, MayHold
  <1>3. Walks' /\ NobodyMeanwhile' /\ Drained'
    BY DEF Walks, Walk, NobodyMeanwhile, Drained
  <1>4. SweepsOwed'
    BY DEF SweepsOwed, Left, Firm, Owes
  <1> QED  BY <1>1, <1>2, <1>3, <1>4 DEF Hands

LEMMA HandsGiven ==
    ASSUME Hands
    PROVE  /\ \A n \in DOMAIN chan : n > Capacity => Patience(chan[n], it, sweep)
           /\ open => \A x \in Intent \X Part :
                        Left(down, chan, x, Own(chan, x)) => MayHold(it[x[1]], x[2])
           /\ \A i \in Intent : Walk(it[i])
           /\ chosen # None => driver = None
           /\ open /\ ~logged =>
               \A x \in Intent \X Part :
                   /\ Left(down, chan, x, Firm(chan, x))
                   /\ GrantOf[x[1]] # driver /\ late[x[1]] = 0
                   => \E s \in Sweeper : Owes(sweep[s], x[2])
           /\ ~open => chan = << >>
  BY DEF Hands, Patient, OwnReleases, Walks, NobodyMeanwhile, SweepsOwed, Drained

LEMMA Pairs == \A x \in Intent \X Part : x[1] \in Intent /\ x[2] \in Part
  OBVIOUS

\* A step of an intent that has, afterwards, as much leave to hold.
Gentle(o, r) ==
    /\ Walk(r) /\ (o.at = "letgo" => r.at = "letgo")
    /\ \A p \in Part : MayHold(o, p) => MayHold(r, p)

LEMMA OnlyGentle ==
    ASSUME Inv, Hands, NEW i \in Intent, NEW r, it' = [it EXCEPT ![i] = r], Gentle(it[i], r),
           UNCHANGED <<driver, chosen, sweep, chan, open, down, late, logged>>
    PROVE  Hands'
  <1>1. it'[i] = r /\ \A j \in Intent : j # i => it'[j] = it[j]
    BY Given
  <1>2. \A j \in Intent : /\ Walk(it'[j])
                          /\ it[j].at = "letgo" => it'[j].at = "letgo"
                          /\ \A p \in Part : MayHold(it[j], p) => MayHold(it'[j], p)
    BY <1>1, HandsGiven DEF Gentle
  <1>3. \A n \in DOMAIN chan' : n > Capacity => Patience(chan'[n], it', sweep')
    BY <1>2, HandsGiven DEF Patience
  <1>4. open' => \A x \in Intent \X Part :
                     Left(down', chan', x, Own(chan', x)) => MayHold(it'[x[1]], x[2])
    BY <1>2, HandsGiven, Pairs
  <1>5. open' /\ ~logged' =>
               \A x \in Intent \X Part :
                   /\ Left(down', chan', x, Firm(chan', x))
                   /\ GrantOf[x[1]] # driver' /\ late'[x[1]] = 0
                   => \E s \in Sweeper : Owes(sweep'[s], x[2])
    BY HandsGiven
  <1> QED  BY <1>2, <1>3, <1>4, <1>5, HandsGiven, InHand

\* An intent that settles without having held, or still holding what it may.
LEMMA GentlySettles ==
    ASSUME Inv, Hands, NEW i \in Intent, NEW end \in Ends, Settle(i, end),
           end = "Done" => it[i].step > Len(Plan(it[i].kind)),
           it[i].at # "letgo", ~it[i].held \/ it[i].at \notin {"walk", "room"}
    PROVE  /\ it' = [it EXCEPT ![i] = Over(i, end)]
           /\ Gentle(it[i], Over(i, end))
  <1>1. it[i] \in IntentRecord /\ Walk(it[i])
    BY Given, HandsGiven
  <1> DEFINE r == Over(i, end)
  <1>2. it' = [it EXCEPT ![i] = r]
    BY DEF Settle, Over
  <1>3. /\ r.at = "settled" /\ r.kind = it[i].kind /\ r.step = it[i].step /\ r.end = end
        /\ r.held = it[i].held /\ r.kept = it[i].kept
    BY <1>1 DEF Over, IntentRecord
  <1> HIDE DEF r
  <1>4. Walk(r)
    BY <1>1, <1>3 DEF Walk
  <1>5. \A p \in Part : MayHold(it[i], p) => MayHold(r, p)
    BY <1>3 DEF MayHold
  <1> QED  BY <1>2, <1>4, <1>5 DEF Gentle, r

LEMMA GentlyEnds ==
    ASSUME Inv, Hands, NEW i \in Intent, NEW end \in Ends, EndWalk(i, end),
           end = "Done" => it[i].step > Len(Plan(it[i].kind)),
           it[i].at \in {"walk", "room"}
    PROVE  \E r : it' = [it EXCEPT ![i] = r] /\ Gentle(it[i], r)
  <1>1. it[i] \in IntentRecord /\ Walk(it[i])
    BY Given, HandsGiven
  <1>2. CASE ~it[i].held
    <2>1. Settle(i, end)
      BY <1>2 DEF EndWalk
    <2> QED  BY <1>2, <2>1, GentlySettles
  <1>3. CASE it[i].held
    <2> DEFINE r == [it[i] EXCEPT !.at = "letgo", !.end = end]
    <2>1. it' = [it EXCEPT ![i] = r]
      BY <1>3 DEF EndWalk
    <2>2. /\ r.at = "letgo" /\ r.kind = it[i].kind /\ r.step = it[i].step /\ r.end = end
          /\ r.held = it[i].held
      BY <1>1 DEF IntentRecord
    <2> HIDE DEF r
    <2>3. Walk(r)
      BY <1>1, <1>3, <2>2 DEF Walk
    <2>4. \A p \in Part : MayHold(it[i], p) => MayHold(r, p)
      BY <2>2 DEF MayHold
    <2> QED  BY <2>1, <2>2, <2>3, <2>4 DEF Gentle
  <1> QED  BY <1>2, <1>3

-----------------------------------------------------------------------------
(* The gentle steps. *)

LEMMA GentleSteps ==
    ASSUME Inv, Hands, NEW i \in Intent,
           Refuse(i) \/ Start(i) \/ Cancel(i) \/ Look(i) \/ Shed(i) \/ Block(i) \/ Lose(i)
             \/ Answer(i) \/ Note(i)
    PROVE  Hands'
  <1>1. UNCHANGED <<driver, chosen, sweep, chan, open, down, late, logged>>
    BY DEF Refuse, Start, Cancel, Look, Shed, Block, Lose, Answer, Note, lease, history
  <1>2. it[i] \in IntentRecord /\ Walk(it[i]) /\ Fits(it[i])
    BY Given, HandsGiven DEF OnPlan
  <1>3. it[i].step \in Nat /\ Len(Plan(it[i].kind)) \in Nat
    BY <1>2, Plans DEF IntentRecord
  <1>4. SUFFICES \/ it' = it
                 \/ \E r : it' = [it EXCEPT ![i] = r] /\ Gentle(it[i], r)
    <2>1. CASE it' = it
      <3>1. it' = [it EXCEPT ![i] = it[i]] /\ Gentle(it[i], it[i])
        BY <1>2, <2>1, Given DEF Gentle
      <3> QED  BY <1>1, <3>1, OnlyGentle
    <2>2. CASE \E r : it' = [it EXCEPT ![i] = r] /\ Gentle(it[i], r)
      BY <1>1, <2>2, OnlyGentle
    <2> QED  BY <1>4, <2>1, <2>2
  <1>5. CASE Refuse(i)
    <2>1. Settle(i, "Refused") /\ it[i].at = "new" /\ "Refused" \in Ends
      BY <1>5 DEF Refuse, Ends
    <2> QED  BY <2>1, GentlySettles
  <1>6. CASE Start(i)
    <2> DEFINE r == IF it[i].kind = "native"
                    THEN [it[i] EXCEPT !.at = "room", !.slot = "open"]
                    ELSE [it[i] EXCEPT !.at = "walk"]
    <2>1. it' = [it EXCEPT ![i] = r] /\ it[i].at = "new"
      BY <1>6 DEF Start
    <2>2. /\ r.kind = it[i].kind /\ r.step = it[i].step /\ r.end = it[i].end
          /\ r.held = it[i].held /\ r.at \in {"room", "walk"}
      BY <1>2 DEF IntentRecord
    <2> HIDE DEF r
    <2>3. Walk(r) /\ \A p \in Part : MayHold(it[i], p) => MayHold(r, p)
      BY <1>2, <2>1, <2>2 DEF Walk, MayHold
    <2> QED  BY <2>1, <2>3 DEF Gentle
  <1>7. CASE Cancel(i)
    <2> DEFINE r == [it[i] EXCEPT !.cancel = TRUE]
    <2>1. it' = [it EXCEPT ![i] = r]
      BY <1>7 DEF Cancel
    <2>2. /\ r.kind = it[i].kind /\ r.step = it[i].step /\ r.end = it[i].end
          /\ r.held = it[i].held /\ r.at = it[i].at /\ r.kept = it[i].kept
      BY <1>2 DEF IntentRecord
    <2> HIDE DEF r
    <2>3. Walk(r) /\ \A p \in Part : MayHold(it[i], p) => MayHold(r, p)
      BY <1>2, <2>2 DEF Walk, MayHold
    <2> QED  BY <2>1, <2>2, <2>3 DEF Gentle
  <1>8. CASE Look(i)
    <2>1. it[i].at = "walk"
      BY <1>8 DEF Look
    <2>2. CASE it[i].step > Len(Plan(it[i].kind))
      <3>1. ~(it[i].step <= Len(Plan(it[i].kind)))
        BY <1>3, <2>2
      <3>2. EndWalk(i, "Done") \/ EndWalk(i, "Cancelled")
        BY <1>8, <2>2, <3>1, Zenon DEF Look
      <3> QED  BY <2>1, <2>2, <3>2, GentlyEnds DEF Ends
    <2>3. CASE it[i].step <= Len(Plan(it[i].kind))
      <3>1. ~(it[i].step > Len(Plan(it[i].kind)))
        BY <1>3, <2>3
      <3>2. CASE it[i].cancel
        <4>1. EndWalk(i, "Cancelled")
          BY <1>8, <2>3, <3>1, <3>2, Zenon DEF Look
        <4> QED  BY <2>1, <4>1, GentlyEnds DEF Ends
      <3>3. CASE ~it[i].cancel /\ driver # GrantOf[i]
        <4>1. EndWalk(i, "Superseded")
          BY <1>8, <2>3, <3>1, <3>3, Zenon DEF Look
        <4> QED  BY <2>1, <4>1, GentlyEnds DEF Ends
      <3>4. CASE ~it[i].cancel /\ driver = GrantOf[i]
        <4> DEFINE r == [it[i] EXCEPT !.at = "room"]
        <4>1. it' = [it EXCEPT ![i].at = "room"]
          BY <1>8, <3>1, <3>4, Zenon DEF Look
        <4>2. it' = [it EXCEPT ![i] = r]
          BY <4>1
        <4>3. /\ r.kind = it[i].kind /\ r.step = it[i].step /\ r.end = it[i].end
              /\ r.held = it[i].held /\ r.at = "room" /\ r.kept = it[i].kept
          BY <1>2 DEF IntentRecord
        <4> HIDE DEF r
        <4>4. Walk(r) /\ \A p \in Part : MayHold(it[i], p) => MayHold(r, p)
          BY <1>2, <2>1, <4>3 DEF Walk, MayHold
        <4> QED  BY <2>1, <4>2, <4>4 DEF Gentle
      <3> QED  BY <3>2, <3>3, <3>4
    <2> QED  BY <1>3, <2>2, <2>3
  <1>9. CASE Shed(i)
    <2> DEFINE r == [it[i] EXCEPT !.at = "walk", !.step = it[i].step + 1]
    <2>1. it' = [it EXCEPT ![i] = r] /\ it[i].kind = "move" /\ it[i].at = "room"
      BY <1>9 DEF Shed
    <2>2. /\ r.kind = it[i].kind /\ r.step = it[i].step + 1 /\ r.end = it[i].end
          /\ r.held = it[i].held /\ r.at = "walk"
      BY <1>2 DEF IntentRecord
    <2> HIDE DEF r
    <2>3. Walk(r)
      BY <1>2, <1>3, <2>2 DEF Walk
    <2>4. \A p \in Part : ~MayHold(it[i], p)
      BY <2>1 DEF MayHold
    <2> QED  BY <2>1, <2>3, <2>4 DEF Gentle
  <1>10. CASE Block(i) \/ Lose(i)
    <2>1. it[i].at = "room" /\ \E end \in Ends : end # "Done" /\ EndWalk(i, end)
      BY <1>10 DEF Block, Lose, Ends
    <2> QED  BY <2>1, GentlyEnds
  <1>11. CASE Answer(i)
    <2>1. it[i].at = "answer" /\ \E end \in Ends : end # "Done" /\ Settle(i, end)
      BY <1>11 DEF Answer, Ends
    <2> QED  BY <2>1, GentlySettles
  <1>12. CASE Note(i)
    <2>1. CASE it[i].slot = "open"
      <3> DEFINE r == [it[i] EXCEPT !.slot = "full"]
      <3>1. it' = [it EXCEPT ![i] = r]
        BY <1>12, <2>1 DEF Note
      <3>2. /\ r.kind = it[i].kind /\ r.step = it[i].step /\ r.end = it[i].end
            /\ r.held = it[i].held /\ r.at = it[i].at /\ r.kept = it[i].kept
        BY <1>2 DEF IntentRecord
      <3> HIDE DEF r
      <3>3. Walk(r) /\ \A p \in Part : MayHold(it[i], p) => MayHold(r, p)
        BY <1>2, <3>2 DEF Walk, MayHold
      <3> QED  BY <3>1, <3>2, <3>3 DEF Gentle
    <2>2. CASE it[i].slot # "open"
      BY <1>12, <2>2 DEF Note
    <2> QED  BY <2>1, <2>2
  <1> QED  BY <1>5, <1>6, <1>7, <1>8, <1>9, <1>10, <1>11, <1>12

-----------------------------------------------------------------------------
(* Lines that grow and shrink. *)

\* What a plan presses, and what it lets go of afterwards.
LEMMA PlanHands ==
    ASSUME NEW k \in Kind, NEW n \in 1..Len(Plan(k))
    PROVE  /\ Plan(k)[n] = <<Plan(k)[n][1], Plan(k)[n][2]>>
           /\ Plan(k)[n][1] = "press" =>
                  \/ k = "type" /\ n = 1 /\ Plan(k)[n][2] = "key"
                  \/ k = "click" /\ n = 2 /\ Plan(k)[n][2] = "button"
                  \/ k = "drag" /\ Plan(k)[n][2] = "button"
           /\ k = "type" /\ n = 2 => Plan(k)[n] = <<"lift", "key">>
           /\ k = "click" /\ n = 3 => Plan(k)[n] = <<"lift", "button">>
           /\ k = "drag" => Plan(k)[n] \in {<<"lift", "button">>, <<"press", "button">>}
  <1>1. CASE k = "type"
    <2>1. Plan(k) = << <<"press", "key">>, <<"lift", "key">> >>
      BY <1>1 DEF Plan
    <2>2. n \in {1, 2}
      BY <2>1
    <2> QED  BY <1>1, <2>1, <2>2
  <1>2. CASE k = "move"
    <2>1. Plan(k) = << <<"lift", "button">> >>
      BY <1>2 DEF Plan
    <2>2. n = 1
      BY <2>1
    <2> QED  BY <1>2, <2>1, <2>2
  <1>3. CASE k = "click"
    <2>1. Plan(k) = << <<"lift", "button">>, <<"press", "button">>, <<"lift", "button">> >>
      BY <1>3 DEF Plan
    <2>2. n \in {1, 2, 3}
      BY <2>1
    <2> QED  BY <1>3, <2>1, <2>2
  <1>4. CASE k = "drag"
    <2>1. Plan(k) = << <<"lift", "button">>, <<"press", "button">>,
                       <<"press", "button">>, <<"lift", "button">> >>
      BY <1>4 DEF Plan
    <2>2. n \in {1, 2, 3, 4}
      BY <2>1
    <2> QED  BY <1>4, <2>1, <2>2
  <1>5. CASE k = "native"
    <2>1. Plan(k) = << <<"agent", "key">> >>
      BY <1>5 DEF Plan
    <2>2. n = 1
      BY <2>1
    <2> QED  BY <1>5, <2>1, <2>2
  <1> QED  BY <1>1, <1>2, <1>3, <1>4, <1>5 DEF Kind

\* A command at the end of the line takes no release away.
LEMMA GrownLine ==
    ASSUME NEW q \in Seq(CommandRecord), NEW c \in CommandRecord, NEW d,
           NEW x \in Intent \X Part
    PROVE  /\ Left(d, Append(q, c), x, Own(Append(q, c), x)) =>
                  \/ Pressing(c, x)
                  \/ /\ Left(d, q, x, Own(q, x))
                     /\ ~(c.what = "lift" /\ c.part = x[2] /\ c.by = x[1])
           /\ Left(d, Append(q, c), x, Firm(Append(q, c), x)) =>
                  \/ Pressing(c, x)
                  \/ /\ Left(d, q, x, Firm(q, x))
                     /\ ~(Releasing(c, x) /\ c.by \in Sweeper)
  <1> DEFINE s == Append(q, c)
  <1>1. /\ DOMAIN s = 1..(Len(q) + 1) /\ DOMAIN q = 1..Len(q) /\ Len(q) \in Nat
        /\ s[Len(q) + 1] = c /\ \A n \in 1..Len(q) : s[n] = q[n]
    OBVIOUS
  <1>2. /\ Own(q, x) \in SUBSET DOMAIN q /\ Firm(q, x) \in SUBSET DOMAIN q
    BY DEF Own, Firm
  <1> HIDE DEF s
  <1>3. Len(q) + 1 \in DOMAIN s
    BY <1>1
  <1>4. /\ Own(q, x) \subseteq Own(s, x)
        /\ c.what = "lift" /\ c.part = x[2] /\ c.by = x[1] => Len(q) + 1 \in Own(s, x)
    BY <1>1, <1>3 DEF Own
  <1>5. /\ Firm(q, x) \subseteq Firm(s, x)
        /\ Releasing(c, x) /\ c.by \in Sweeper => Len(q) + 1 \in Firm(s, x)
    BY <1>1, <1>3 DEF Firm
  <1>6. ASSUME Left(d, s, x, Own(s, x))
        PROVE  Pressing(c, x) \/ (Left(d, q, x, Own(q, x)) /\ Len(q) + 1 \notin Own(s, x))
    BY <1>2, <1>4, <1>6, LeftAppended DEF s
  <1>7. ASSUME Left(d, s, x, Firm(s, x))
        PROVE  Pressing(c, x) \/ (Left(d, q, x, Firm(q, x)) /\ Len(q) + 1 \notin Firm(s, x))
    BY <1>2, <1>5, <1>7, LeftAppended DEF s
  <1> QED  BY <1>4, <1>5, <1>6, <1>7 DEF s

\* The task by leaves the line: where it was, and what is left of the line.
LEMMA Leaving ==
    ASSUME Inv, NEW by, Waits(by)
    PROVE  \E p \in DOMAIN chan :
              /\ p > Capacity /\ chan[p].by = by /\ Without(by) = RemoveAt(chan, p)
              /\ \A k \in DOMAIN Without(by) :
                     \E m \in DOMAIN chan \ {p} :
                         Without(by)[k] = chan[m] /\ m = Was(k, p) /\ k <= m
              /\ \A m \in DOMAIN chan \ {p} :
                     \E k \in DOMAIN Without(by) :
                         Without(by)[k] = chan[m] /\ m = Was(k, p) /\ k <= m
              /\ \A m \in DOMAIN chan \ {p} : m > Capacity => chan[m].by # by
  <1> DEFINE n == CHOOSE n \in DOMAIN chan : n > Capacity /\ chan[n].by = by
  <1>1. n \in DOMAIN chan /\ n > Capacity /\ chan[n].by = by
    BY DEF Waits
  <1>2. Without(by) = RemoveAt(chan, n)
    BY DEF Without
  <1> HIDE DEF n
  <1>3. chan \in Seq(CommandRecord) /\ OneWait(chan)
    BY Given
  <1>4. /\ Len(chan) \in Nat /\ DOMAIN chan = 1..Len(chan) /\ n \in 1..Len(chan)
    BY <1>1, <1>3
  <1>5. /\ DOMAIN RemoveAt(chan, n) = 1..(Len(chan) - 1)
        /\ \A k \in 1..(Len(chan) - 1) : RemoveAt(chan, n)[k] = chan[Was(k, n)]
    BY <1>1, <1>3, Omitted, Zenon
  <1> DEFINE s == Without(by)
  <1>6. /\ DOMAIN s = 1..(Len(chan) - 1)
        /\ \A k \in 1..(Len(chan) - 1) : s[k] = chan[Was(k, n)]
    BY <1>2, <1>5, Zenon
  <1> HIDE DEF s
  <1>7. \A k \in DOMAIN s : Was(k, n) \in DOMAIN chan \ {n} /\ k <= Was(k, n)
    BY <1>4, <1>6 DEF Was
  <1>8. ASSUME NEW m \in DOMAIN chan \ {n}
        PROVE  \E k \in DOMAIN s : m = Was(k, n)
    <2>1. CASE m < n
      <3>1. m \in DOMAIN s /\ m = Was(m, n)
        BY <1>4, <1>6, <2>1 DEF Was
      <3> QED  BY <3>1
    <2>2. CASE m > n
      <3>1. m - 1 \in DOMAIN s /\ m = Was(m - 1, n)
        BY <1>4, <1>6, <2>2 DEF Was
      <3> QED  BY <3>1
    <2> QED  BY <1>4, <2>1, <2>2
  <1>9. \A k \in DOMAIN s : \E m \in DOMAIN chan \ {n} :
            s[k] = chan[m] /\ m = Was(k, n) /\ k <= m
    BY <1>6, <1>7
  <1>10. \A m \in DOMAIN chan \ {n} : \E k \in DOMAIN s :
            s[k] = chan[m] /\ m = Was(k, n) /\ k <= m
    BY <1>6, <1>7, <1>8
  <1>11. \A m \in DOMAIN chan \ {n} : m > Capacity => chan[m].by # by
    BY <1>1, <1>3 DEF OneWait
  <1> QED  BY <1>1, <1>2, <1>9, <1>10, <1>11 DEF s

\* What was left behind it, when what it took along was no release of x.
LEMMA ShrunkLine ==
    ASSUME Inv, NEW by, Waits(by), NEW x \in Intent \X Part
    PROVE  /\ /\ Left(down, Without(by), x, Own(Without(by), x))
              /\ \A p \in DOMAIN chan : p > Capacity /\ chan[p].by = by => p \notin Own(chan, x)
              => Left(down, chan, x, Own(chan, x))
           /\ /\ Left(down, Without(by), x, Firm(Without(by), x))
              /\ by \notin Sweeper
              => Left(down, chan, x, Firm(chan, x))
  <1> DEFINE s == Without(by)
  <1>1. PICK p \in DOMAIN chan :
              /\ p > Capacity /\ chan[p].by = by /\ s = RemoveAt(chan, p)
              /\ \A k \in DOMAIN s :
                     \E m \in DOMAIN chan \ {p} : s[k] = chan[m] /\ m = Was(k, p) /\ k <= m
              /\ \A m \in DOMAIN chan \ {p} :
                     \E k \in DOMAIN s : s[k] = chan[m] /\ m = Was(k, p) /\ k <= m
    BY Leaving
  <1>2. chan \in Seq(CommandRecord) /\ s \in Seq(CommandRecord) /\ Capacity \in Nat
    BY Given, WithoutIt, PlaneAssumption
  <1> HIDE DEF s
  <1>3. /\ Own(chan, x) \in SUBSET DOMAIN chan /\ Own(s, x) \in SUBSET DOMAIN s
        /\ Firm(chan, x) \in SUBSET DOMAIN chan /\ Firm(s, x) \in SUBSET DOMAIN s
    BY DEF Own, Firm
  <1>4. ASSUME Left(down, s, x, Own(s, x)), p \notin Own(chan, x)
        PROVE  Left(down, chan, x, Own(chan, x))
    <2>1. \A m \in Own(chan, x) : \E k \in Own(s, x) : m = Was(k, p)
      BY <1>1, <1>4 DEF Own
    <2>2. /\ Left(down, RemoveAt(chan, p), x, Own(s, x))
          /\ Own(s, x) \in SUBSET DOMAIN RemoveAt(chan, p)
      BY <1>1, <1>3, <1>4, Zenon
    <2> QED  BY <1>2, <1>3, <2>1, <2>2, LeftOmitted, Zenon
  <1>5. ASSUME Left(down, s, x, Firm(s, x)), by \notin Sweeper
        PROVE  Left(down, chan, x, Firm(chan, x))
    <2>1. p \notin Firm(chan, x)
      BY <1>1, <1>2, <1>5 DEF Firm
    <2>2. \A m \in Firm(chan, x) : \E k \in Firm(s, x) : m = Was(k, p)
      <3> SUFFICES ASSUME NEW m \in Firm(chan, x)
                   PROVE  \E k \in Firm(s, x) : m = Was(k, p)
        OBVIOUS
      <3>1. PICK k \in DOMAIN s : s[k] = chan[m] /\ m = Was(k, p) /\ k <= m
        BY <1>1, <2>1 DEF Firm
      <3>2. m <= Capacity => k <= Capacity
        BY <1>2, <3>1 DEF Firm
      <3> QED  BY <3>1, <3>2 DEF Firm
    <2>3. /\ Left(down, RemoveAt(chan, p), x, Firm(s, x))
          /\ Firm(s, x) \in SUBSET DOMAIN RemoveAt(chan, p)
      BY <1>1, <1>3, <1>5, Zenon
    <2> QED  BY <1>2, <1>3, <2>2, <2>3, LeftOmitted, Zenon
  <1> QED  BY <1>1, <1>4, <1>5 DEF s

-----------------------------------------------------------------------------
(* The other steps. *)

LEMMA SendHands ==
    ASSUME Inv, Hands, NEW i \in Intent, Send(i)
    PROVE  Hands'
  <1> DEFINE c == Command(i, Command1(i)[1], Command1(i)[2])
             r == Sent(i)
  <1>1. /\ it[i] \in IntentRecord /\ Fits(it[i]) /\ Walk(it[i]) /\ it[i].at = "room" /\ open
        /\ it' = [it EXCEPT ![i] = r] /\ chan' = Append(chan, c)
        /\ Len(chan) < Capacity
        /\ late' = IF driver = GrantOf[i] THEN late ELSE [late EXCEPT ![i] = @ + 1]
        /\ UNCHANGED <<driver, chosen, sweep, open, down, logged>>
    BY Given, HandsGiven, Slots DEF Send, OnPlan, lease
  <1>2. /\ it[i].kind \in Kind /\ it[i].step \in 1..Len(Plan(it[i].kind))
        /\ it[i].step \in Nat /\ Len(Plan(it[i].kind)) \in Nat
    BY <1>1, Plans DEF IntentRecord, Fits
  <1> DEFINE k == it[i].kind
             n == it[i].step
             a == Command1(i)[1]
             p == Command1(i)[2]
  <1>3. /\ Command1(i) = <<a, p>>
        /\ a = "press" => \/ k = "type" /\ n = 1 /\ p = "key"
                          \/ k = "click" /\ n = 2 /\ p = "button"
                          \/ k = "drag" /\ p = "button"
        /\ k = "type" /\ n = 2 => a = "lift" /\ p = "key"
        /\ k = "click" /\ n = 3 => a = "lift" /\ p = "button"
        /\ k = "drag" => a \in {"lift", "press"} /\ p = "button"
        /\ a \in {"press", "lift", "agent"} /\ p \in Part
        /\ a = "agent" <=> k = "native"
    <2>1. /\ Command1(i) = <<Command1(i)[1], Command1(i)[2]>>
          /\ Command1(i)[1] = "press" =>
                  \/ k = "type" /\ n = 1 /\ Command1(i)[2] = "key"
                  \/ k = "click" /\ n = 2 /\ Command1(i)[2] = "button"
                  \/ k = "drag" /\ Command1(i)[2] = "button"
          /\ k = "type" /\ n = 2 => Command1(i) = <<"lift", "key">>
          /\ k = "click" /\ n = 3 => Command1(i) = <<"lift", "button">>
          /\ k = "drag" => Command1(i) \in {<<"lift", "button">>, <<"press", "button">>}
      BY <1>2, PlanHands DEF Command1
    <2>2. /\ a \in {"press", "lift", "agent"} /\ p \in Part /\ (a = "agent" <=> k = "native")
      BY <1>2, Plans DEF Command1, Part
    <2> QED  BY <2>1, <2>2
  <1>4. c \in CommandRecord /\ c.by = i /\ c.what = a /\ c.part = p
    BY <1>3 DEF Command, CommandRecord, Part
  <1>5. /\ r.kind = k /\ r.end = it[i].end
        /\ r.at = IF k = "native" THEN "answer" ELSE "walk"
        /\ k = "native" => r.held = it[i].held /\ r.step = n
        /\ k # "native" => /\ r.step = n + 1
                           /\ r.held = (k = "drag" /\ a = "press" /\ p = "button")
    <2>1. CASE k = "native"
      BY <1>1, <2>1 DEF Sent, IntentRecord
    <2>2. CASE k # "native"
      <3> DEFINE b == (it[i].kind = "drag" /\ Command1(i) = <<"press", "button">>)
      <3>1. r = [it[i] EXCEPT !.at = "walk", !.step = @ + 1, !.held = b]
        BY <2>2 DEF Sent
      <3>2. b = (k = "drag" /\ a = "press" /\ p = "button")
        BY <1>3
      <3> HIDE DEF b, r
      <3> QED  BY <1>1, <2>2, <3>1, <3>2 DEF IntentRecord
    <2> QED  BY <2>1, <2>2
  <1> HIDE DEF c, r, a, p
  <1>6. it'[i] = r /\ \A j \in Intent : j # i => it'[j] = it[j]
    BY <1>1, Given
  <1>7. Walk(r)
    <2>1. it[i].end # "Done"
      BY <1>1, <1>2 DEF Walk
    <2> QED  BY <1>1, <1>5, <2>1 DEF Walk
  <1>8. chan \in Seq(CommandRecord)
    BY Given
  <1>9. \A m \in DOMAIN chan' : ~(m > Capacity)
    BY <1>1, <1>8, Slots
  <1>10. ASSUME NEW x \in Intent \X Part, Left(down, chan', x, Own(chan', x))
         PROVE  MayHold(it'[x[1]], x[2])
    <2>1. x[1] \in Intent /\ x[2] \in Part
      BY Pairs
    <2>2. CASE Pressing(c, x)
      <3>1. x[1] = i /\ x[2] = p /\ a = "press"
        BY <1>4, <2>2 DEF Pressing
      <3>2. CASE k = "type" /\ n = 1 /\ p = "key"
        <4>1. r.kind = "type" /\ r.step = 2
          BY <1>5, <3>2
        <4> QED  BY <1>6, <3>1, <3>2, <4>1 DEF MayHold
      <3>3. CASE k = "click" /\ n = 2 /\ p = "button"
        <4>1. r.kind = "click" /\ r.step = 3
          BY <1>5, <3>3
        <4> QED  BY <1>6, <3>1, <3>3, <4>1 DEF MayHold
      <3>4. CASE k = "drag" /\ p = "button"
        <4>1. r.kind = "drag" /\ r.at = "walk" /\ r.held
          BY <1>5, <3>1, <3>4
        <4> QED  BY <1>6, <3>1, <3>4, <4>1 DEF MayHold
      <3> QED  BY <1>3, <3>1, <3>2, <3>3, <3>4
    <2>3. CASE /\ Left(down, chan, x, Own(chan, x))
               /\ ~(c.what = "lift" /\ c.part = x[2] /\ c.by = x[1])
      <3>1. MayHold(it[x[1]], x[2])
        BY <1>1, <2>3, HandsGiven
      <3>2. CASE x[1] # i
        BY <1>6, <2>1, <3>1, <3>2
      <3>3. CASE x[1] = i
        <4>1. ~(a = "lift" /\ p = x[2]) /\ MayHold(it[i], x[2])
          BY <1>4, <2>3, <3>1, <3>3
        <4>2. k = "drag" /\ x[2] = "button" /\ a = "press"
          BY <1>1, <1>3, <4>1 DEF MayHold
        <4> QED  BY <1>3, <1>5, <1>6, <3>3, <4>2 DEF MayHold
      <3> QED  BY <3>2, <3>3
    <2> QED  BY <1>1, <1>4, <1>8, <1>10, <2>2, <2>3, GrownLine
  <1>11. ASSUME ~logged, NEW x \in Intent \X Part, Left(down, chan', x, Firm(chan', x)),
                GrantOf[x[1]] # driver, late'[x[1]] = 0
         PROVE  \E s \in Sweeper : Owes(sweep[s], x[2])
    <2>1. x[1] \in Intent /\ late[x[1]] \in Nat
      BY Pairs, Given
    <2>2. x[1] # i /\ late[x[1]] = 0
      BY <1>1, <1>11, <2>1, Given
    <2>3. ~Pressing(c, x)
      BY <1>4, <2>2 DEF Pressing
    <2>4. Left(down, chan, x, Firm(chan, x))
      BY <1>1, <1>4, <1>8, <1>11, <2>3, GrownLine
    <2> QED  BY <1>1, <1>11, <2>2, <2>4, HandsGiven
  <1>12. \A j \in Intent : Walk(it'[j])
    BY <1>6, <1>7, HandsGiven
  <1> QED  BY <1>1, <1>9, <1>10, <1>11, <1>12, HandsGiven, InHand

LEMMA LetGoHands ==
    ASSUME Inv, Hands, NEW i \in Intent, LetGo(i)
    PROVE  Hands'
  <1> DEFINE c == Command(i, "lift", "button")
  <1>1. /\ chan' = Append(chan, c) /\ ~Waits(i) /\ open /\ it[i].at = "letgo"
        /\ it[i] \in IntentRecord /\ Walk(it[i])
        /\ UNCHANGED <<driver, chosen, sweep, open, down, late, logged>>
    BY Given, HandsGiven DEF LetGo, lease
  <1>2. c \in CommandRecord /\ c.what = "lift" /\ c.by = i /\ c.part = "button"
    BY DEF Command, CommandRecord
  <1> HIDE DEF c
  <1>3. /\ chan \in Seq(CommandRecord) /\ Len(chan) \in Nat /\ Capacity \in Nat
        /\ it[i].kind = "drag"
    BY <1>1, Given, Slots DEF Walk
  <1>4. /\ DOMAIN chan' = 1..(Len(chan) + 1) /\ DOMAIN chan = 1..Len(chan)
        /\ chan'[Len(chan) + 1] = c /\ \A n \in 1..Len(chan) : chan'[n] = chan[n]
    BY <1>1, <1>2, <1>3
  <1>5. \A x \in Intent \X Part : ~Pressing(c, x)
    BY <1>2 DEF Pressing
  <1>6. \A x \in Intent \X Part :
            Left(down, chan', x, Own(chan', x)) =>
                Left(down, chan, x, Own(chan, x)) /\ ~(x[1] = i /\ x[2] = "button")
    BY <1>1, <1>2, <1>3, <1>5, GrownLine
  <1>7. \A x \in Intent \X Part :
            Left(down, chan', x, Firm(chan', x)) => Left(down, chan, x, Firm(chan, x))
    BY <1>1, <1>2, <1>3, <1>5, GrownLine
  <1>8. ~MayHold(it[i], "key")
    BY <1>3 DEF MayHold
  <1>9. CASE Free > 0
    <2> DEFINE r == Over(i, it[i].end)
    <2>1. it' = [it EXCEPT ![i] = r]
      BY <1>9 DEF LetGo, Settle, Over
    <2>2. r.at = "settled" /\ r.kind = it[i].kind /\ r.step = it[i].step /\ r.end = it[i].end
      BY <1>1 DEF Over, IntentRecord
    <2>3. r.held = it[i].held
      BY <1>1 DEF Over, IntentRecord
    <2> HIDE DEF r
    <2>4. it'[i] = r /\ \A j \in Intent : j # i => it'[j] = it[j]
      BY <2>1, Given
    <2>5. Walk(r)
      BY <1>1, <2>2, <2>3 DEF Walk
    <2>6. \A m \in DOMAIN chan' : ~(m > Capacity)
      BY <1>3, <1>4, <1>9, Slots
    <2>7. \A x \in Intent \X Part :
              Left(down, chan', x, Own(chan', x)) => MayHold(it'[x[1]], x[2])
      <3> SUFFICES ASSUME NEW x \in Intent \X Part, Left(down, chan', x, Own(chan', x))
                   PROVE  MayHold(it'[x[1]], x[2])
        OBVIOUS
      <3>1. MayHold(it[x[1]], x[2]) /\ x[1] \in Intent /\ x[2] \in Part
        BY <1>1, <1>6, HandsGiven, Pairs
      <3>2. x[1] # i
        BY <1>6, <1>8, <3>1 DEF Part
      <3> QED  BY <2>4, <3>1, <3>2
    <2>8. \A j \in Intent : Walk(it'[j])
      BY <2>4, <2>5, HandsGiven
    <2> QED  BY <1>1, <1>7, <2>6, <2>7, <2>8, HandsGiven, InHand
  <1>10. CASE ~(Free > 0)
    <2>1. it' = it
      BY <1>10 DEF LetGo
    <2>2. Patience(c, it, sweep)
      BY <1>1, <1>2 DEF Patience
    <2>3. \A n \in DOMAIN chan' : n > Capacity => Patience(chan'[n], it', sweep')
      BY <1>1, <1>4, <2>1, <2>2, HandsGiven
    <2> QED  BY <1>1, <1>6, <1>7, <2>1, <2>3, HandsGiven, InHand
  <1> QED  BY <1>9, <1>10

LEMMA LetGoFailsHands ==
    ASSUME Inv, Hands, NEW i \in Intent, LetGoFails(i)
    PROVE  Hands'
  <1> DEFINE r == [it[i] EXCEPT !.at = "settled", !.kept = TRUE]
  <1>1. /\ it' = [it EXCEPT ![i] = r] /\ it[i].at = "letgo"
        /\ it[i] \in IntentRecord /\ Walk(it[i])
        /\ UNCHANGED <<driver, chosen, sweep, open, down, late, logged>>
    BY Given, HandsGiven DEF LetGoFails, history, lease
  <1>2. /\ r.at = "settled" /\ r.kind = "drag" /\ r.step = it[i].step /\ r.end = it[i].end
        /\ r.kept = TRUE /\ r.held = it[i].held /\ it[i].kind = "drag"
    BY <1>1 DEF IntentRecord, Walk
  <1> HIDE DEF r
  <1>3. it'[i] = r /\ \A j \in Intent : j # i => it'[j] = it[j]
    BY <1>1, Given
  <1>4. \A j \in Intent : Walk(it'[j])
    BY <1>1, <1>2, <1>3, HandsGiven DEF Walk
  <1>5. CASE ~open
    <2>1. chan' = << >> /\ ~open'
      BY <1>1, <1>5, HandsGiven DEF LetGoFails
    <2> QED  BY <1>1, <1>4, <2>1, HandsGiven, InHand
  <1>6. CASE open
    <2>1. Waits(i) /\ chan' = Without(i)
      BY <1>6 DEF LetGoFails
    <2>2. PICK p \in DOMAIN chan :
              /\ p > Capacity /\ chan[p].by = i
              /\ \A k \in DOMAIN chan' :
                     \E m \in DOMAIN chan \ {p} : chan'[k] = chan[m] /\ k <= m
              /\ \A m \in DOMAIN chan \ {p} : m > Capacity => chan[m].by # i
      BY <2>1, Leaving
    <2>3. Capacity \in Nat /\ DOMAIN chan \subseteq Nat /\ DOMAIN chan' \subseteq Nat
      <3>1. chan \in Seq(CommandRecord) /\ chan' \in Seq(CommandRecord)
        BY <2>1, Given, WithoutIt
      <3> QED  BY <3>1, PlaneAssumption
    <2>4. ASSUME NEW k \in DOMAIN chan', k > Capacity
          PROVE  Patience(chan'[k], it', sweep')
      <3>1. PICK m \in DOMAIN chan : chan'[k] = chan[m] /\ k <= m /\ m # p
        BY <2>2
      <3>2. m > Capacity
        BY <2>3, <2>4, <3>1
      <3>3. chan[m].by # i /\ Patience(chan[m], it, sweep)
        BY <2>2, <3>1, <3>2, HandsGiven
      <3> QED  BY <1>1, <1>3, <3>1, <3>3 DEF Patience
    <2>5. \A x \in Intent \X Part :
              Left(down', chan', x, Own(chan', x)) => MayHold(it'[x[1]], x[2])
      <3> SUFFICES ASSUME NEW x \in Intent \X Part, Left(down, chan', x, Own(chan', x))
                   PROVE  MayHold(it'[x[1]], x[2])
        BY <1>1
      <3>1. x[1] \in Intent /\ x[2] \in Part
        BY Pairs
      <3>2. CASE x[1] = i /\ x[2] = "button"
        BY <1>2, <1>3, <3>2 DEF MayHold
      <3>3. CASE ~(x[1] = i /\ x[2] = "button")
        <4>1. \A n \in DOMAIN chan : n > Capacity /\ chan[n].by = i => n \notin Own(chan, x)
          <5>1. \A n \in DOMAIN chan : n > Capacity /\ chan[n].by = i =>
                    chan[n].part = "button"
            BY HandsGiven, PlaneAssumption DEF Patience
          <5> QED  BY <3>3, <5>1 DEF Own
        <4>2. Left(down, chan, x, Own(chan, x))
          BY <2>1, <4>1, ShrunkLine
        <4>3. MayHold(it[x[1]], x[2])
          BY <1>6, <4>2, HandsGiven
        <4>4. x[1] # i
          BY <1>2, <3>3, <4>3 DEF MayHold
        <4> QED  BY <1>3, <3>1, <4>3, <4>4
      <3> QED  BY <3>2, <3>3
    <2>6. \A x \in Intent \X Part :
              Left(down', chan', x, Firm(chan', x)) => Left(down, chan, x, Firm(chan, x))
      <3>1. i \notin Sweeper
        BY PlaneAssumption
      <3> QED  BY <1>1, <2>1, <3>1, ShrunkLine
    <2> QED  BY <1>1, <1>4, <1>6, <2>4, <2>5, <2>6, HandsGiven, InHand
  <1> QED  BY <1>5, <1>6

LEMMA ChangeHands ==
    ASSUME Inv, Hands, NEW f, NEW c, Change(f, c)
    PROVE  Hands'
  <1>1. driver' = None /\ UNCHANGED <<it, chan, open, down, late, logged>>
    BY DEF Change, history
  <1>2. PICK s \in Sweeper : sweep[s] = Idle /\ sweep' = [sweep EXCEPT ![s] = "buttons"]
    BY DEF Change
  <1>3. sweep'[s] = "buttons" /\ \A t \in Sweeper : t # s => sweep'[t] = sweep[t]
    BY <1>2, Given
  <1>4. \A n \in DOMAIN chan' : n > Capacity => Patience(chan'[n], it', sweep')
    <2> SUFFICES ASSUME NEW n \in DOMAIN chan, n > Capacity
                 PROVE  Patience(chan[n], it, sweep')
      BY <1>1
    <2>1. Patience(chan[n], it, sweep)
      BY HandsGiven
    <2>2. chan[n].by \in Sweeper /\ chan[n].by # s => sweep'[chan[n].by] = sweep[chan[n].by]
      BY <1>3
    <2> QED  BY <1>2, <2>1, <2>2 DEF Patience, Idle
  <1>5. \A x \in Intent \X Part : \E t \in Sweeper : Owes(sweep'[t], x[2])
    BY <1>3 DEF Owes
  <1> QED  BY <1>1, <1>4, <1>5, HandsGiven, InHand

LEMMA SweepSendsHands ==
    ASSUME Inv, Hands, NEW s \in Sweeper, SweepSends(s)
    PROVE  Hands'
  <1> DEFINE part == IF sweep[s] = "keys" THEN "key" ELSE "button"
             c == Command(s, "sweep", part)
  <1>1. /\ chan' = Append(chan, c) /\ ~Waits(s) /\ open /\ sweep[s] \in {"buttons", "keys"}
        /\ sweep' = IF Free > 0 THEN [sweep EXCEPT ![s] = NextSweep(s)] ELSE sweep
        /\ UNCHANGED <<driver, chosen, it, open, down, late, logged>>
    BY DEF SweepSends, history, lease
  <1>2. /\ c \in CommandRecord /\ c.what = "sweep" /\ c.by = s /\ c.part = part
        /\ sweep[s] = IF part = "button" THEN "buttons" ELSE "keys"
        /\ part \in Part
    BY <1>1 DEF Command, CommandRecord, Part
  <1> HIDE DEF c, part
  <1>3. /\ chan \in Seq(CommandRecord) /\ Len(chan) \in Nat /\ Capacity \in Nat
    BY Given, Slots
  <1>4. /\ DOMAIN chan' = 1..(Len(chan) + 1) /\ DOMAIN chan = 1..Len(chan)
        /\ chan'[Len(chan) + 1] = c /\ \A n \in 1..Len(chan) : chan'[n] = chan[n]
    BY <1>1, <1>2, <1>3
  <1>5. \A x \in Intent \X Part : ~Pressing(c, x) /\ (Releasing(c, x) <=> x[2] = part)
    BY <1>2 DEF Pressing, Releasing
  <1>6. \A x \in Intent \X Part :
            Left(down, chan', x, Own(chan', x)) => Left(down, chan, x, Own(chan, x))
    BY <1>1, <1>2, <1>3, <1>5, GrownLine
  <1>7. \A x \in Intent \X Part :
            Left(down, chan', x, Firm(chan', x)) =>
                Left(down, chan, x, Firm(chan, x)) /\ x[2] # part
    BY <1>1, <1>2, <1>3, <1>5, GrownLine
  <1>8. /\ sweep'[s] = IF Free > 0 THEN NextSweep(s) ELSE sweep[s]
        /\ \A t \in Sweeper : t # s => sweep'[t] = sweep[t]
    BY <1>1, Given
  <1>9. \A n \in DOMAIN chan' : n > Capacity => Patience(chan'[n], it', sweep')
    <2>1. CASE Free > 0
      BY <1>3, <1>4, <2>1, Slots
    <2>2. CASE ~(Free > 0)
      <3>1. Patience(c, it, sweep) /\ sweep' = sweep
        BY <1>1, <1>2, <2>2 DEF Patience
      <3> QED  BY <1>1, <1>4, <3>1, HandsGiven
    <2> QED  BY <2>1, <2>2
  <1>10. ASSUME ~logged, NEW x \in Intent \X Part, Left(down, chan', x, Firm(chan', x)),
                GrantOf[x[1]] # driver, late[x[1]] = 0
         PROVE  \E t \in Sweeper : Owes(sweep'[t], x[2])
    <2>1. x[2] # part /\ x[2] \in Part
      BY <1>7, <1>10, Pairs
    <2>2. PICK t \in Sweeper : Owes(sweep[t], x[2])
      BY <1>1, <1>7, <1>10, HandsGiven
    <2>3. CASE t # s
      BY <1>8, <2>2, <2>3
    <2>4. CASE t = s
      <3>1. sweep[s] = "buttons" /\ x[2] = "key"
        BY <1>2, <2>1, <2>2, <2>4 DEF Owes, Part
      <3>2. sweep'[s] \in {"buttons", "keys"}
        BY <1>8, <3>1 DEF NextSweep
      <3> QED  BY <3>1, <3>2 DEF Owes
    <2> QED  BY <2>3, <2>4
  <1> QED  BY <1>1, <1>6, <1>9, <1>10, HandsGiven, InHand

LEMMA SweepFailsHands ==
    ASSUME Inv, Hands, NEW s \in Sweeper, SweepFails(s)
    PROVE  Hands'
  <1>1. /\ sweep' = [sweep EXCEPT ![s] = NextSweep(s)] /\ logged' = TRUE
        /\ UNCHANGED <<driver, chosen, it, open, down, late>>
    BY DEF SweepFails, lease
  <1>2. \A t \in Sweeper : t # s => sweep'[t] = sweep[t]
    BY <1>1, Given
  <1>3. CASE ~open
    <2>1. chan' = << >> /\ ~open'
      BY <1>1, <1>3, HandsGiven DEF SweepFails
    <2> QED  BY <1>1, <2>1, HandsGiven, InHand
  <1>4. CASE open
    <2>1. Waits(s) /\ chan' = Without(s)
      BY <1>4 DEF SweepFails
    <2>2. PICK p \in DOMAIN chan :
              /\ p > Capacity /\ chan[p].by = s
              /\ \A k \in DOMAIN chan' :
                     \E m \in DOMAIN chan \ {p} : chan'[k] = chan[m] /\ k <= m
              /\ \A m \in DOMAIN chan \ {p} : m > Capacity => chan[m].by # s
      BY <2>1, Leaving
    <2>3. Capacity \in Nat /\ DOMAIN chan \subseteq Nat /\ DOMAIN chan' \subseteq Nat
      <3>1. chan \in Seq(CommandRecord) /\ chan' \in Seq(CommandRecord)
        BY <2>1, Given, WithoutIt
      <3> QED  BY <3>1, PlaneAssumption
    <2>4. ASSUME NEW k \in DOMAIN chan', k > Capacity
          PROVE  Patience(chan'[k], it', sweep')
      <3>1. PICK m \in DOMAIN chan : chan'[k] = chan[m] /\ k <= m /\ m # p
        BY <2>2
      <3>2. m > Capacity
        BY <2>3, <2>4, <3>1
      <3>3. chan[m].by # s /\ Patience(chan[m], it, sweep)
        BY <2>2, <3>1, <3>2, HandsGiven
      <3> QED  BY <1>1, <1>2, <3>1, <3>3 DEF Patience
    <2>5. \A x \in Intent \X Part :
              Left(down', chan', x, Own(chan', x)) => MayHold(it'[x[1]], x[2])
      <3> SUFFICES ASSUME NEW x \in Intent \X Part, Left(down, chan', x, Own(chan', x))
                   PROVE  MayHold(it[x[1]], x[2])
        BY <1>1
      <3>1. \A n \in DOMAIN chan : n > Capacity /\ chan[n].by = s => n \notin Own(chan, x)
        BY Pairs, PlaneAssumption DEF Own
      <3>2. Left(down, chan, x, Own(chan, x))
        BY <2>1, <3>1, ShrunkLine
      <3> QED  BY <1>4, <3>2, HandsGiven
    <2> QED  BY <1>1, <1>4, <2>4, <2>5, HandsGiven, InHand
  <1> QED  BY <1>3, <1>4

LEMMA ConfirmHands ==
    ASSUME Inv, Hands, NEW s \in Sweeper, Confirm(s)
    PROVE  Hands'
  <1>1. /\ sweep[s] = "confirm" /\ sweep' = [sweep EXCEPT ![s] = Idle]
        /\ UNCHANGED <<it, chan, open, down, logged>>
    BY DEF Confirm
  <1>2. \A t \in Sweeper : t # s => sweep'[t] = sweep[t]
    BY <1>1, Given
  <1>3. \A n \in DOMAIN chan' : n > Capacity => Patience(chan'[n], it', sweep')
    <2> SUFFICES ASSUME NEW n \in DOMAIN chan, n > Capacity
                 PROVE  Patience(chan[n], it, sweep')
      BY <1>1
    <2>1. Patience(chan[n], it, sweep)
      BY HandsGiven
    <2>2. chan[n].by \in Sweeper /\ chan[n].by # s => sweep'[chan[n].by] = sweep[chan[n].by]
      BY <1>2
    <2> QED  BY <1>1, <2>1, <2>2 DEF Patience
  <1>4. \A p : \A t \in Sweeper : Owes(sweep[t], p) => Owes(sweep'[t], p)
    BY <1>1, <1>2 DEF Owes
  <1>5. /\ chosen' # None => driver' = None
        /\ \A j \in Intent : GrantOf[j] # driver' /\ late'[j] = 0 =>
               GrantOf[j] # driver /\ late[j] = 0
    <2>1. CASE chosen = None
      BY <2>1, HandsGiven DEF Confirm, lease
    <2>2. CASE chosen # None
      <3>1. /\ driver' = chosen /\ chosen' = None /\ driver = None
            /\ late' = [i \in Intent |-> IF GrantOf[i] = chosen THEN 0 ELSE late[i]]
        BY <2>2, HandsGiven DEF Confirm
      <3>2. \A j \in Intent : GrantOf[j] # None
        BY PlaneAssumption
      <3> QED  BY <3>1, <3>2
    <2> QED  BY <2>1, <2>2
  <1> QED  BY <1>1, <1>3, <1>4, <1>5, HandsGiven, InHand, Pairs

LEMMA OtherPutsHands ==
    ASSUME Inv, Hands, OtherPuts
    PROVE  Hands'
  <1> DEFINE c == Command(None, "other", "key")
  <1>1. /\ chan' = Append(chan, c) /\ Free > 0 /\ open
        /\ UNCHANGED <<driver, chosen, sweep, it, open, down, late, logged>>
    BY DEF OtherPuts, history, lease
  <1>2. c \in CommandRecord /\ c.what = "other"
    BY DEF Command, CommandRecord
  <1> HIDE DEF c
  <1>3. chan \in Seq(CommandRecord)
    BY Given
  <1>4. \A m \in DOMAIN chan' : ~(m > Capacity)
    BY <1>1, <1>2, <1>3, Slots
  <1>5. \A x \in Intent \X Part :
            /\ Left(down, chan', x, Own(chan', x)) => Left(down, chan, x, Own(chan, x))
            /\ Left(down, chan', x, Firm(chan', x)) => Left(down, chan, x, Firm(chan, x))
    <2>1. \A x \in Intent \X Part : ~Pressing(c, x)
      BY <1>2 DEF Pressing
    <2> QED  BY <1>1, <1>2, <1>3, <2>1, GrownLine
  <1> QED  BY <1>1, <1>4, <1>5, HandsGiven, InHand

LEMMA CloseHands ==
    ASSUME Inv, Hands, Close
    PROVE  Hands'
  <1>1. ~open' /\ chan' = << >> /\ UNCHANGED <<driver, chosen, it>>
    BY DEF Close, lease
  <1> QED  BY <1>1, HandsGiven, InHand

\* The line moves up and, behind the bound, the first who waits is let in.
LEMMA ServeHands ==
    ASSUME Inv, Hands, Serve
    PROVE  Hands'
  <1> DEFINE w == chan[Capacity + 1]
  <1>1. /\ chan # << >> /\ chan' = Tail(chan) /\ down' = Applied(down, Head(chan)) /\ open
        /\ UNCHANGED <<driver, chosen, open, late, logged>>
    BY DEF Serve, lease, history
  <1>2. /\ chan \in Seq(CommandRecord) /\ Len(chan) \in Nat /\ DOMAIN chan = 1..Len(chan)
        /\ Capacity \in Nat /\ Capacity >= 1
    BY Given, PlaneAssumption
  <1>3. /\ DOMAIN chan' = 1..(Len(chan) - 1) /\ Head(chan) = chan[1]
        /\ \A k \in 1..(Len(chan) - 1) : chan'[k] = chan[k + 1]
        /\ \A m \in DOMAIN chan : m = 1 \/ (m - 1 \in DOMAIN chan' /\ chan'[m - 1] = chan[m])
    BY <1>1, <1>2
  <1>4. ASSUME NEW x \in Intent \X Part
        PROVE  /\ Left(down', chan', x, Own(chan', x)) => Left(down, chan, x, Own(chan, x))
               /\ Left(down', chan', x, Firm(chan', x)) => Left(down, chan, x, Firm(chan, x))
    <2>1. /\ Own(chan, x) \in SUBSET DOMAIN chan /\ Own(chan', x) \in SUBSET DOMAIN chan'
          /\ Firm(chan, x) \in SUBSET DOMAIN chan /\ Firm(chan', x) \in SUBSET DOMAIN chan'
      BY DEF Own, Firm
    <2>2. \A m \in Own(chan, x) : (m = 1 /\ Releasing(chan[1], x)) \/ m - 1 \in Own(chan', x)
      BY <1>3 DEF Own, Releasing
    <2>3. \A m \in Firm(chan, x) : (m = 1 /\ Releasing(chan[1], x)) \/ m - 1 \in Firm(chan', x)
      BY <1>2, <1>3 DEF Firm
    <2>4. Left(down', chan', x, Own(chan', x)) => Left(down, chan, x, Own(chan, x))
      BY <1>1, <1>2, <1>3, <2>1, <2>2, LeftServed
    <2>5. Left(down', chan', x, Firm(chan', x)) => Left(down, chan, x, Firm(chan, x))
      BY <1>1, <1>2, <1>3, <2>1, <2>3, LeftServed
    <2> QED  BY <2>4, <2>5
  <1>5. CASE ~(Len(chan) > Capacity)
    <2>1. it' = it /\ sweep' = sweep
      BY <1>5 DEF Serve
    <2>2. \A n \in DOMAIN chan' : ~(n > Capacity)
      BY <1>2, <1>3, <1>5
    <2> QED  BY <1>1, <1>4, <2>1, <2>2, HandsGiven, InHand
  <1>6. CASE Len(chan) > Capacity
    <2>1. /\ sweep' = IF w.by \in Sweeper THEN [sweep EXCEPT ![w.by] = NextSweep(w.by)] ELSE sweep
          /\ IF w.by \in Intent THEN Settle(w.by, it[w.by].end) ELSE it' = it
      BY <1>6 DEF Serve, Admitted
    <2>2. /\ Capacity + 1 \in DOMAIN chan /\ Capacity \in DOMAIN chan' /\ chan'[Capacity] = w
          /\ Capacity + 1 > Capacity
      BY <1>2, <1>3, <1>6
    <2>3. Patience(w, it, sweep) /\ w.part \in Part
      <3>1. w \in CommandRecord
        BY <1>2, <2>2
      <3> QED  BY <2>2, <3>1, HandsGiven DEF CommandRecord, Part
    <2> HIDE DEF w
    <2>4. /\ \A t \in Sweeper : t # w.by => sweep'[t] = sweep[t]
          /\ w.by \in Sweeper => sweep'[w.by] = NextSweep(w.by)
      BY <2>1, Given
    <2>5. /\ \A j \in Intent : j # w.by => it'[j] = it[j]
          /\ w.by \in Intent => it'[w.by] = Over(w.by, it[w.by].end)
      BY <2>1, Given DEF Settle, Over
    \* Who waits behind it is somebody else, with nothing that presses.
    <2>6. ASSUME NEW n \in DOMAIN chan', n > Capacity
          PROVE  /\ Patience(chan'[n], it, sweep) /\ chan'[n].by # w.by
                 /\ chan'[n].what # "press"
      <3>1. n + 1 \in DOMAIN chan /\ chan'[n] = chan[n + 1] /\ n + 1 > Capacity /\ n + 1 # Capacity + 1
        BY <1>2, <1>3, <2>6
      <3>2. Patience(chan[n + 1], it, sweep)
        BY <3>1, HandsGiven
      <3>3. chan[n + 1].by # w.by
        BY <2>2, <3>1, Given DEF OneWait, w
      <3> QED  BY <3>1, <3>2, <3>3 DEF Patience
    <2>7. ASSUME NEW n \in DOMAIN chan', n > Capacity
          PROVE  Patience(chan'[n], it', sweep')
      BY <2>4, <2>5, <2>6, <2>7 DEF Patience
    \* Whatever it lets go of is let go of.
    <2>8. ASSUME NEW x \in Intent \X Part, NEW R \in SUBSET DOMAIN chan', Capacity \in R,
                 Left(down', chan', x, R), w.what # "press"
          PROVE  FALSE
      <3>1. PICK n \in DOMAIN chan' : Pressing(chan'[n], x) /\ \A m \in R : m < n
        BY <2>8 DEF Left
      <3>2. n > Capacity
        BY <1>2, <1>3, <2>8, <3>1
      <3> QED  BY <2>6, <3>1, <3>2 DEF Pressing
    <2>9. ASSUME NEW x \in Intent \X Part, Left(down', chan', x, Own(chan', x))
          PROVE  MayHold(it'[x[1]], x[2])
      <3>1. MayHold(it[x[1]], x[2]) /\ x[1] \in Intent /\ x[2] \in Part
        BY <1>1, <1>4, <2>9, HandsGiven, Pairs
      <3>2. CASE x[1] # w.by
        BY <2>5, <3>1, <3>2
      <3>3. CASE x[1] = w.by
        <4>1. w.what = "lift" /\ w.part = "button" /\ it[x[1]].at = "letgo"
          BY <2>3, <3>1, <3>3, PlaneAssumption DEF Patience
        <4>2. x[2] = "button"
          BY <3>1, <4>1, HandsGiven DEF Walk, MayHold
        <4>3. Own(chan', x) \in SUBSET DOMAIN chan' /\ Capacity \in Own(chan', x)
          BY <2>2, <3>3, <4>1, <4>2 DEF Own
        <4>4. FALSE
          BY <2>8, <2>9, <4>1, <4>3
        <4> QED  BY <4>4
      <3> QED  BY <3>2, <3>3
    <2>10. ASSUME ~logged, NEW x \in Intent \X Part, Left(down', chan', x, Firm(chan', x)),
                  GrantOf[x[1]] # driver, late[x[1]] = 0
           PROVE  \E t \in Sweeper : Owes(sweep'[t], x[2])
      <3>1. x[2] \in Part
        BY Pairs
      <3>2. PICK t \in Sweeper : Owes(sweep[t], x[2])
        BY <1>1, <1>4, <2>10, HandsGiven
      <3>3. CASE t # w.by
        BY <2>4, <3>2, <3>3
      <3>4. CASE t = w.by
        <4>1. /\ w.what = "sweep" /\ w.by \in Sweeper
              /\ sweep[t] = IF w.part = "button" THEN "buttons" ELSE "keys"
          BY <2>3, <3>4, PlaneAssumption DEF Patience
        <4>2. x[2] # w.part
          <5> SUFFICES ASSUME x[2] = w.part
                       PROVE  FALSE
            OBVIOUS
          <5>1. Firm(chan', x) \in SUBSET DOMAIN chan' /\ Capacity \in Firm(chan', x)
            BY <1>2, <2>2, <4>1 DEF Firm, Releasing
          <5> QED  BY <2>8, <2>10, <4>1, <5>1
        <4>3. sweep[t] = "buttons" /\ x[2] = "key"
          BY <2>3, <3>1, <3>2, <4>1, <4>2 DEF Owes, Part
        <4>4. sweep'[t] = "keys"
          BY <2>4, <3>4, <4>3 DEF NextSweep
        <4> QED  BY <4>3, <4>4 DEF Owes
      <3> QED  BY <3>3, <3>4
    <2>11. \A j \in Intent : Walk(it'[j])
      <3> SUFFICES ASSUME NEW j \in Intent
                   PROVE  Walk(it'[j])
        OBVIOUS
      <3>1. Walk(it[j]) /\ it[j] \in IntentRecord
        BY Given, HandsGiven
      <3>2. CASE j # w.by
        BY <2>5, <3>1, <3>2
      <3>3. CASE j = w.by
        <4> DEFINE r == Over(j, it[j].end)
        <4>1. it'[j] = r
          BY <2>5, <3>3
        <4>2. /\ r.at = "settled" /\ r.kind = it[j].kind /\ r.step = it[j].step
              /\ r.end = it[j].end /\ r.held = it[j].held
          BY <3>1 DEF Over, IntentRecord
        <4> HIDE DEF r
        <4> QED  BY <3>1, <4>1, <4>2 DEF Walk
      <3> QED  BY <3>2, <3>3
    <2> QED  BY <1>1, <2>7, <2>9, <2>10, <2>11, HandsGiven, InHand
  <1> QED  BY <1>5, <1>6

-----------------------------------------------------------------------------
(* The theorems about what stays down. *)

LEMMA InitHands == Init => Hands
  <1> SUFFICES ASSUME Init
               PROVE  Hands
    OBVIOUS
  <1>1. chan = << >> /\ down = {} /\ chosen = None /\ DOMAIN chan = {}
    BY DEF Init
  <1>2. \A i \in Intent : it[i].end = "none" /\ it[i].held = FALSE /\ it[i].at = "new"
    BY DEF Init
  <1>3. \A x, R : ~Left(down, chan, x, R)
    BY <1>1 DEF Left
  <1>4. Patient /\ OwnReleases /\ SweepsOwed
    BY <1>1, <1>3 DEF Patient, OwnReleases, SweepsOwed
  <1>5. Walks /\ NobodyMeanwhile /\ Drained
    BY <1>1, <1>2 DEF Walks, Walk, NobodyMeanwhile, Drained
  <1> QED  BY <1>4, <1>5 DEF Hands

\* Every reachable state satisfies Hands as well: who waits for a slot waits
\* with a release, and whatever is down or on its way down has its release to
\* come, from the intent that pressed it or from a sweep.
THEOREM HandsInvariance == Spec => [](Inv /\ Hands)
  <1>1. Inv /\ Hands /\ [Next]_vars => Hands'
    <2> SUFFICES ASSUME Inv, Hands, [Next]_vars
                 PROVE  Hands'
      OBVIOUS
    <2>1. CASE (\E g \in Grant : HandTo(g)) \/ Fence \/ Vacate
      BY <2>1, ChangeHands DEF HandTo, Fence, Vacate
    <2>2. CASE \E s \in Sweeper : SweepSends(s) \/ SweepFails(s) \/ Confirm(s)
      BY <2>2, SweepSendsHands, SweepFailsHands, ConfirmHands
    <2>3. CASE \E i \in Intent :
                  Refuse(i) \/ Start(i) \/ Cancel(i) \/ Look(i) \/ Shed(i) \/ Block(i)
                    \/ Lose(i) \/ Answer(i) \/ Note(i)
      BY <2>3, GentleSteps
    <2>4. CASE \E i \in Intent : Send(i) \/ LetGo(i) \/ LetGoFails(i)
      BY <2>4, SendHands, LetGoHands, LetGoFailsHands
    <2>5. CASE Serve \/ OtherPuts \/ Close
      BY <2>5, ServeHands, OtherPutsHands, CloseHands
    <2>6. CASE UNCHANGED vars
      <3>1. UNCHANGED <<driver, chosen, sweep, it, chan, open, down, late, logged>>
        BY <2>6 DEF vars, lease, history
      <3> QED  BY <3>1, HandsGiven, InHand
    <2> QED  BY <2>1, <2>2, <2>3, <2>4, <2>5, <2>6 DEF Next
  <1> QED  BY InitHands, Invariance, <1>1, PTL DEF Spec

-----------------------------------------------------------------------------
(* Stragglers. *)

\* An intent that was made up a release is a drag, and it was its last command.
ReleasedOnce ==
    \A i \in Intent :
        madeUp[i] # 0 => madeUp[i] = 1 /\ it[i].at = "settled" /\ it[i].kind = "drag"

\* No step changes what an intent is, and a settlement is final.
LEMMA SameIntent ==
    ASSUME Inv, [Next]_vars
    PROVE  \A j \in Intent : /\ it'[j].kind = it[j].kind
                             /\ it[j].at = "settled" => it'[j].at = "settled"
  <1> DEFINE Q == \A j \in Intent : /\ it'[j].kind = it[j].kind
                                    /\ it[j].at = "settled" => it'[j].at = "settled"
  <1>1. it \in [Intent -> IntentRecord]
    BY Given
  <1>2. ASSUME NEW i \in Intent, NEW r, it' = [it EXCEPT ![i] = r], r.kind = it[i].kind,
               it[i].at = "settled" => r.at = "settled"
        PROVE  Q
    BY <1>1, <1>2
  <1>3. ASSUME NEW i \in Intent, NEW end, Settle(i, end)
        PROVE  Q
    <2>1. /\ it' = [it EXCEPT ![i] = Over(i, end)]
          /\ Over(i, end).kind = it[i].kind /\ Over(i, end).at = "settled"
      BY <1>1, <1>3 DEF Settle, Over, IntentRecord
    <2> QED  BY <1>2, <2>1
  <1>4. ASSUME NEW i \in Intent, NEW end, EndWalk(i, end), it[i].at # "settled"
        PROVE  Q
    <2>1. CASE it[i].held
      BY <1>1, <1>2, <1>4, <2>1 DEF EndWalk, IntentRecord
    <2>2. CASE ~it[i].held
      BY <1>3, <1>4, <2>2 DEF EndWalk
    <2> QED  BY <2>1, <2>2
  <1> SUFFICES Q
    OBVIOUS
  <1> HIDE DEF Q
  <1>5. ASSUME it' = it
        PROVE  Q
    BY <1>5 DEF Q
  <1>6. ASSUME NEW i \in Intent, Refuse(i) \/ Answer(i)
        PROVE  Q
    BY <1>3, <1>6 DEF Refuse, Answer
  <1>7. ASSUME NEW i \in Intent, Look(i) \/ Block(i) \/ Lose(i)
        PROVE  Q
    <2>1. it[i].at \in {"walk", "room"}
      BY <1>7 DEF Look, Block, Lose
    <2>2. \/ \E end : EndWalk(i, end)
          \/ it' = [it EXCEPT ![i].at = "room"]
      BY <1>7 DEF Look, Block, Lose
    <2>3. CASE it' = [it EXCEPT ![i].at = "room"]
      BY <1>1, <1>2, <2>1, <2>3 DEF IntentRecord
    <2> QED  BY <1>4, <2>1, <2>2, <2>3
  <1>8. ASSUME NEW i \in Intent, Start(i) \/ Cancel(i) \/ Shed(i) \/ LetGoFails(i) \/ Note(i)
        PROVE  Q
    <2>1. it[i] \in IntentRecord
      BY <1>1
    <2>2. CASE Start(i)
      BY <1>2, <2>1, <2>2 DEF Start, IntentRecord
    <2>3. CASE Cancel(i)
      BY <1>2, <2>1, <2>3 DEF Cancel, IntentRecord
    <2>4. CASE Shed(i)
      BY <1>2, <2>1, <2>4 DEF Shed, IntentRecord
    <2>5. CASE LetGoFails(i)
      BY <1>2, <2>1, <2>5 DEF LetGoFails, IntentRecord
    <2>6. CASE Note(i)
      BY <1>2, <1>5, <2>1, <2>6 DEF Note, IntentRecord
    <2> QED  BY <1>8, <2>2, <2>3, <2>4, <2>5, <2>6
  <1>9. ASSUME NEW i \in Intent, Send(i)
        PROVE  Q
    <2>1. Sent(i).kind = it[i].kind
      BY <1>1 DEF Sent, IntentRecord
    <2> QED  BY <1>2, <1>9, <2>1 DEF Send
  <1>10. ASSUME NEW i \in Intent, LetGo(i)
         PROVE  Q
    BY <1>3, <1>5, <1>10 DEF LetGo
  <1>11. ASSUME Serve
         PROVE  Q
    BY <1>3, <1>5, <1>11 DEF Serve, Admitted
  <1>12. CASE \/ \E g \in Grant : HandTo(g)
              \/ Fence \/ Vacate \/ OtherPuts \/ Close \/ UNCHANGED vars
              \/ \E s \in Sweeper : SweepSends(s) \/ SweepFails(s) \/ Confirm(s)
    BY <1>5, <1>12 DEF HandTo, Fence, Vacate, Change, OtherPuts, Close, vars, SweepSends,
      SweepFails, Confirm
  <1>13. CASE \E i \in Intent :
                 \/ Refuse(i) \/ Start(i) \/ Cancel(i) \/ Look(i) \/ Send(i) \/ Shed(i)
                 \/ Block(i) \/ Lose(i) \/ LetGo(i) \/ LetGoFails(i) \/ Answer(i) \/ Note(i)
    BY <1>6, <1>7, <1>8, <1>9, <1>10, <1>13
  <1> QED  BY <1>11, <1>12, <1>13 DEF Next

\* Only a release that goes counts, and it goes once.
LEMMA ReleasedKept ==
    ASSUME Inv, Hands, ReleasedOnce, [Next]_vars
    PROVE  ReleasedOnce'
  <1>1. madeUp \in [Intent -> Nat] /\ it \in [Intent -> IntentRecord]
    BY Given, Counted
  <1>2. CASE madeUp' = madeUp
    BY <1>2, SameIntent DEF ReleasedOnce
  <1>3. ASSUME NEW i \in Intent, it[i].at = "letgo", Settle(i, it[i].end), Released(i)
        PROVE  ReleasedOnce'
    <2>1. it[i].kind = "drag" /\ madeUp[i] = 0
      BY <1>1, <1>3, HandsGiven DEF Walk, ReleasedOnce
    <2>2. it'[i].at = "settled" /\ it'[i].kind = "drag"
      BY <1>1, <1>3, <2>1 DEF Settle, IntentRecord
    <2>3. \A j \in Intent : madeUp'[j] = IF j = i /\ driver # GrantOf[i] THEN 1 ELSE madeUp[j]
      BY <1>1, <1>3, <2>1 DEF Released
    <2> QED  BY <2>2, <2>3, SameIntent DEF ReleasedOnce
  <1>4. ASSUME NEW i \in Intent, LetGo(i)
        PROVE  ReleasedOnce'
    BY <1>2, <1>3, <1>4 DEF LetGo
  <1>5. CASE Serve
    <2>1. CASE Len(chan) > Capacity
      <3> DEFINE w == chan[Capacity + 1]
      <3>1. Admitted(w)
        BY <1>5, <2>1 DEF Serve
      <3>2. w.by \in Intent => it[w.by].at = "letgo"
        <4>1. Capacity + 1 \in DOMAIN chan /\ Capacity + 1 > Capacity
          BY <2>1, Slots, Given
        <4>2. Patience(w, it, sweep)
          BY <4>1, HandsGiven
        <4> QED  BY <4>2, PlaneAssumption DEF Patience
      <3> HIDE DEF w
      <3> QED  BY <1>2, <1>3, <3>1, <3>2 DEF Admitted
    <2>2. CASE ~(Len(chan) > Capacity)
      BY <1>2, <1>5, <2>2 DEF Serve
    <2> QED  BY <2>1, <2>2
  <1>6. CASE \/ \E g \in Grant : HandTo(g)
             \/ Fence \/ Vacate \/ OtherPuts \/ Close \/ UNCHANGED vars
             \/ \E s \in Sweeper : SweepSends(s) \/ SweepFails(s) \/ Confirm(s)
    BY <1>2, <1>6 DEF HandTo, Fence, Vacate, Change, OtherPuts, Close, vars, SweepSends,
      SweepFails, Confirm, history
  <1>7. CASE \E i \in Intent :
                \/ Refuse(i) \/ Start(i) \/ Cancel(i) \/ Look(i) \/ Send(i) \/ Shed(i)
                \/ Block(i) \/ Lose(i) \/ LetGoFails(i) \/ Answer(i) \/ Note(i)
    BY <1>2, <1>7 DEF Refuse, Start, Cancel, Look, Send, Shed, Block, Lose, LetGoFails, Answer,
      Note, history
  <1> QED  BY <1>4, <1>5, <1>6, <1>7 DEF Next

\* However often the lease changes and whatever the channel's bound, a grant
\* that lost the wheel gets at most one more step of an intent out, and after
\* it, of a drag alone, the one release that was made up for it.
THEOREM NoSecondStraggler == Spec => []OneStraggler
  <1>1. Init => ReleasedOnce
    BY DEF Init, ReleasedOnce
  <1>2. Inv /\ ReleasedOnce => OneStraggler
    <2> SUFFICES ASSUME Inv, ReleasedOnce, NEW i \in Intent
                 PROVE  /\ late[i] <= 1
                        /\ madeUp[i] <= IF it[i].kind = "drag" THEN 1 ELSE 0
      BY DEF OneStraggler
    <2>1. late[i] \in Nat /\ (late[i] # 0 => late[i] = 1)
      BY Given DEF Straggling
    <2>2. madeUp[i] \in Nat /\ (madeUp[i] # 0 => madeUp[i] = 1 /\ it[i].kind = "drag")
      BY Counted DEF ReleasedOnce
    <2> QED  BY <2>1, <2>2
  <1> QED  BY HandsInvariance, ReleasedKept, <1>1, <1>2, PTL DEF Spec

-----------------------------------------------------------------------------
(* The theorems about what stays down. *)

\* What remains is left whichever of the releases are counted.
LEMMA RemainingIsLeft ==
    ASSUME Inv, NEW x \in Coming
    PROVE  /\ x \in Intent \X Part
           /\ Left(down, chan, x, Own(chan, x)) /\ Left(down, chan, x, Firm(chan, x))
  <1>1. x \in Intent \X Part
    BY DEF Coming, Remaining, Part
  <1>2. \/ x \in down /\ \A m \in DOMAIN chan : ~Releasing(chan[m], x)
        \/ \E n \in DOMAIN chan :
              Pressing(chan[n], x) /\ \A m \in DOMAIN chan : Releasing(chan[m], x) => m < n
    BY DEF Coming, Remaining
  <1>3. /\ \A m \in Own(chan, x) : m \in DOMAIN chan /\ Releasing(chan[m], x)
        /\ \A m \in Firm(chan, x) : m \in DOMAIN chan /\ Releasing(chan[m], x)
    BY DEF Own, Firm, Releasing
  <1> QED  BY <1>1, <1>2, <1>3 DEF Left

\* However many intents and sweeps share the machine, an intent that settled
\* leaves nothing of its own down, but for the release that found no slot.
THEOREM NothingStaysDown == Spec => []SettledLetsGo
  <1>1. Inv /\ Hands => SettledLetsGo
    <2> SUFFICES ASSUME Inv, Hands, NEW i \in Intent,
                        it[i].at = "settled", ~it[i].kept, open,
                        it[i].kind = "drag" \/ it[i].end = "Done",
                        NEW x \in Coming, x[1] = i
                 PROVE  FALSE
      BY DEF SettledLetsGo
    <2>1. MayHold(it[i], x[2])
      BY RemainingIsLeft, HandsGiven
    <2>2. it[i].kind # "drag" => it[i].step > Len(Plan(it[i].kind))
      BY HandsGiven DEF Walk
    <2>3. CASE it[i].kind = "type" /\ it[i].step = 2
      <3>1. Len(Plan(it[i].kind)) = 2
        BY <2>3 DEF Plan
      <3>2. 2 > 2
        BY <2>2, <2>3, <3>1
      <3> QED  BY <3>2
    <2>4. CASE it[i].kind = "click" /\ it[i].step = 3
      <3>1. Len(Plan(it[i].kind)) = 3
        BY <2>4 DEF Plan
      <3>2. 3 > 3
        BY <2>2, <2>4, <3>1
      <3> QED  BY <3>2
    <2> QED  BY <2>1, <2>3, <2>4 DEF MayHold
  <1> QED  BY HandsInvariance, <1>1, PTL

\* However often the lease changes hands, when every sweep has ended and none
\* had to log a failure nothing stays down for a grant that may not dispatch.
THEOREM EveryChangeIsSwept == Spec => []SweptInTheEnd
  <1>1. Inv /\ Hands => SweptInTheEnd
    <2> SUFFICES ASSUME Inv, Hands, open, ~logged, \A s \in Sweeper : sweep[s] = Idle,
                        NEW x \in Coming, GrantOf[x[1]] # driver, ~(late[x[1]] > 0)
                 PROVE  FALSE
      BY DEF SweptInTheEnd
    <2>1. x \in Intent \X Part /\ Left(down, chan, x, Firm(chan, x))
      BY RemainingIsLeft
    <2>2. late[x[1]] = 0
      <3>1. late[x[1]] \in Nat
        BY <2>1, Pairs, Given
      <3> QED  BY <3>1
    <2>3. \E s \in Sweeper : Owes(sweep[s], x[2])
      BY <2>1, <2>2, HandsGiven
    <2> QED  BY <2>3 DEF Owes, Idle
  <1> QED  BY HandsInvariance, <1>1, PTL
==============================================================================
