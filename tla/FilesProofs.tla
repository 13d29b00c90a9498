---------------------------- MODULE FilesProofs ----------------------------
(***************************************************************************)
(* File transfers for any number of calls that open a sidecar, of          *)
(* transfers, of files and of chunks, any conflict policies and any number *)
(* of restarts of the process: a finished file is whole, a running         *)
(* transfer can be reached, and a cancelled one stops within a chunk.      *)
(***************************************************************************)
EXTENDS Files, FiniteSetTheorems, NaturalsInduction, TLAPS

(* The invariant. *)

\* A transfer is anything after its lookup of the sidecar and before its item
\* is forgotten, and has an entry in the queue once it is registered.
Begun(t) == st[t] \notin {"none", "gone"}
Running(t) == st[t] \in {"queued"} \cup Working

\* Everything of TypeOK but the slots.
Types ==
    /\ sidecar \in Caller \cup {None}
    /\ call \in [Caller -> {"idle", "dialling", "dialled", "done"}]
    /\ policy \in [Caller -> Policy]
    /\ live \in [Caller -> SUBSET Transfer]
    /\ token \subseteq Transfer
    /\ st \in [Transfer -> {"none", "gone"} \cup Waiting \cup Working \cup Ended]
    /\ via \in [Transfer -> Caller \cup {None}]
    /\ job \in [Transfer -> Job]
    /\ at \in [Transfer -> File] /\ name \in [Transfer -> Name] /\ pos \in [Transfer -> Nat]
    /\ version \in [File -> Nat] /\ \A f \in File : version[f] \in DOMAIN Size[f]
    /\ seen \in [Transfer -> [File -> Nat]] /\ from \in [Transfer -> Nat]
    /\ \A t \in Transfer : \A f \in File : seen[t][f] \in DOMAIN Size[f]
    /\ disk \in [File -> [Name -> Seq(Chunk) \cup {None}]]
    /\ scene \in Scenes /\ restarts \in 0..scene.restarts /\ adrift \subseteq Transfer
    /\ crossed \subseteq File \X Name /\ late \in [Transfer -> Nat]

Slots == \A c \in Caller : Cardinality(Busy(c)) <= scene.limit

\* Whoever holds a sidecar holds one whose call is over, and so does the map:
\* no call that is still dialling can give its name to a second sidecar.
Settled ==
    /\ sidecar # None => call[sidecar] = "done"
    /\ \A t \in Transfer : Begun(t) => via[t] \in Caller /\ call[via[t]] = "done"

\* A transfer is in the queue of the sidecar it runs over.
Listed == \A t \in Transfer : Running(t) \/ st[t] \in Ended => t \in live[via[t]]

\* A chunk is written after a cancellation only by a transfer that had passed
\* its look at the token, and which looks again before it writes another.
Stopping ==
    \A t \in Transfer :
        /\ t \notin token => late[t] = 0
        /\ late[t] = 1 => st[t] \in {"read"} \cup Ended

\* A destination is there from when it was opened, or was found and skipped.
Opened ==
    \A t \in Transfer :
        st[t] \in {"read", "write", "flush", "skipped"} => disk[at[t]][name[t]] # None

\* New names of a file are taken by the transfers that have opened one of it,
\* or can no longer do so.
Used(f) == {n \in 1..Cardinality(Transfer) : disk[f][n] # None}
Spent(f) ==
    {t \in Transfer : \/ st[t] \in {"gone"} \cup Ended
                      \/ at[t] = f /\ st[t] \in {"read", "write", "flush", "skipped"}
                      \/ at[t] > f /\ Begun(t)}
NamesLast == \A f \in File : Cardinality(Used(f)) <= Cardinality(Spent(f))

\* The chunks of a source as it is now, and the first p chunks of a version.
Now(f) == Size[f][version[f]]
Prefix(v, p) == [i \in 1..p |-> v]

\* A destination that was not crossed is a prefix of its source.  Whoever has
\* yet to write it has it alone, stands at its end and reads the source as it is
\* now; whoever is done with it finds it whole.
Kept(f, n) ==
    /\ disk[f][n] = None \/ \E p \in 0..Now(f) : disk[f][n] = Prefix(version[f], p)
    /\ \A t \in Writing(<<f, n>>) :
           /\ Using(<<f, n>>) = {t}
           /\ st[t] = "open" => pos[t] = 0 \/ (disk[f][n] = Prefix(version[f], pos[t]) /\ pos[t] <= Now(f))
           /\ st[t] = "read" => disk[f][n] = Prefix(version[f], pos[t]) /\ pos[t] <= Now(f)
           /\ st[t] = "write" => disk[f][n] = Prefix(version[f], pos[t]) /\ pos[t] < Now(f)
           /\ st[t] \in {"read", "write"} => from[t] = version[f]
    /\ \A t \in Using(<<f, n>>) :
           \/ st[t] = "flush"
           \/ st[t] = "skipped" /\ policy[via[t]] # "skip" /\ seen[t][f] = version[f]
           => disk[f][n] = Prefix(version[f], Now(f))

AllKept == \A f \in File : \A n \in Name : <<f, n>> \notin crossed => Kept(f, n)

Inv ==
    /\ TypeOK /\ Settled /\ Listed /\ TransfersCanBeStopped
    /\ Stopping /\ OneChunkMore /\ Opened /\ NamesLast /\ AllKept

-----------------------------------------------------------------------------
(* Types, and the free name. *)

LEMMA FileCount ==
  Len(Size) \in Nat /\ Len(Size) >= 1 /\ File \subseteq Nat /\ 1 \in File
  BY SizeAssumption DEF File

LEMMA SizeFacts ==
  ASSUME NEW f \in File
  PROVE  /\ f \in 1..Len(Size) /\ Size[f] \in Seq(Nat) /\ Len(Size[f]) \in Nat
         /\ 1 \in DOMAIN Size[f] /\ DOMAIN Size[f] = 1..Len(Size[f])
         /\ \A v \in DOMAIN Size[f] : v \in Nat /\ Size[f][v] \in Nat
  <1>1. f \in 1..Len(Size) /\ Size[f] \in Seq(Nat) /\ Size[f] # <<>>
    BY SizeAssumption DEF File
  <1> QED
    BY <1>1

\* The sizes that the plans and the sources have.
LEMMA NowFacts ==
  ASSUME Types, NEW f \in File
  PROVE  /\ version[f] \in Nat /\ Now(f) \in Nat
         /\ \A t \in Transfer : Size[f][seen[t][f]] \in Nat
  BY SizeFacts DEF Types, Now

\* The scene is one of the environments.
LEMMA SceneFacts ==
  ASSUME scene \in Scenes
  PROVE  /\ scene.callers \subseteq Caller /\ scene.policies \subseteq Policy
         /\ scene.jobs \subseteq Job /\ scene.items \subseteq Transfer
         /\ scene.found \subseteq Nat /\ scene.limit \in Nat /\ scene.limit >= 1
         /\ scene.restarts \in Nat
  BY FilesAssumption

LEMMA TransferCount == Cardinality(Transfer) \in Nat
  BY FilesAssumption, FS_CardinalityType

\* A non-empty set of naturals has a least element.
LEMMA LeastOf ==
  ASSUME NEW S \in SUBSET Nat, S # {}
  PROVE  \E m \in S : \A k \in 0..(m - 1) : k \notin S
  <1>1. PICK m \in S : \A y \in S : ~(<<y, m>> \in OpToRel(<, Nat))
    BY NatLessThanWellFounded, WFMin
  <1>2. ASSUME NEW k \in S  PROVE ~(k < m)
    BY <1>1, <1>2 DEF OpToRel
  <1> QED
    BY <1>2

\* A transfer that looks for a new name finds one, and takes the first.
LEMMA FreeName ==
  ASSUME Types, NamesLast, NEW t \in Transfer, st[t] \in {"look", "open"},
         NEW taken \in {Taken(at[t]), {}}
  PROVE  UniqueName(taken) \in Name
  <1> DEFINE f == at[t]
             C == Cardinality(Transfer)
             Free == {n \in Name : disk[f][n] = None}
  <1>0. f \in File /\ C \in Nat /\ f \in Nat
    BY TransferCount, FileCount DEF Types
  <1>1. t \notin Spent(f) /\ Spent(f) \subseteq Transfer \ {t}
    BY <1>0 DEF Spent, Ended
  <1>2. IsFiniteSet(Transfer \ {t}) /\ Cardinality(Transfer \ {t}) = C - 1
    BY FilesAssumption, FS_RemoveElement
  <1>3. Cardinality(Spent(f)) <= C - 1 /\ Cardinality(Spent(f)) \in Nat
    <2>1. Spent(f) \in SUBSET (Transfer \ {t})
      BY <1>1
    <2> QED
      BY <1>2, <2>1, FS_Subset, FS_CardinalityType
  <1>4. Cardinality(Used(f)) <= Cardinality(Spent(f))
    BY <1>0 DEF NamesLast
  <1>5. Cardinality(1..C) = C /\ IsFiniteSet(1..C)
    BY <1>0, FS_Interval
  <1>6. Used(f) # 1..C
    <2>1. SUFFICES ASSUME Used(f) = 1..C  PROVE FALSE
      OBVIOUS
    <2>2. Cardinality(Used(f)) = C
      BY <1>5, <2>1
    <2> QED
      BY <1>0, <1>3, <1>4, <2>2
  <1>7. Free # {}
    BY <1>0, <1>6 DEF Used, Name
  <1>8. Free \in SUBSET Nat
    BY <1>0 DEF Name
  <1>9. PICK n \in Free : \A k \in 0..(n - 1) : k \notin Free
    BY <1>7, <1>8, LeastOf
  <1>10. \A m \in 0..(n - 1) : m \in Name
    BY <1>0, <1>9 DEF Name
  <1>11. \E m \in Name : m \notin Taken(f) /\ \A k \in 0..(m - 1) : k \in Taken(f)
    BY <1>9, <1>10 DEF Taken
  <1>12. \E m \in Name : m \notin {} /\ \A k \in 0..(m - 1) : k \in {}
    BY <1>0 DEF Name
  <1>13. \E m \in Name : m \notin taken /\ \A k \in 0..(m - 1) : k \in taken
    BY <1>11, <1>12
  <1> QED
    BY <1>13 DEF UniqueName

\* Where a look ends: at the file's own name, left alone or taken from its end
\* or its start, or at a new name.
LEMMA LookEnds ==
  ASSUME Types, NamesLast, Settled, NEW t \in Transfer, Look(t)
  PROVE  \/ /\ st' = [st EXCEPT ![t] = "skipped"]
            /\ name' = [name EXCEPT ![t] = 0] /\ pos' = pos
            /\ crossed' = crossed \cup {x \in {<<at[t], 0>>} : Writing(x) # {}}
            /\ disk[at[t]][0] # None
            /\ policy[via[t]] = "skip" \/ Len(disk[at[t]][0]) >= Total(t)
         \/ \E n \in Name, k \in Nat :
            /\ st' = [st EXCEPT ![t] = "open"]
            /\ name' = [name EXCEPT ![t] = n] /\ pos' = [pos EXCEPT ![t] = k]
            /\ crossed' = crossed \cup {x \in {<<at[t], n>>} : Using(x) # {}}
            /\ k = 0 \/ (n = 0 /\ disk[at[t]][0] # None /\ k = Len(disk[at[t]][0]))
  <1> DEFINE f == at[t]
             p == policy[via[t]]
  <1>0. /\ f \in File /\ 0 \in Name /\ Total(t) \in Nat
        /\ disk[f][0] \in Seq(Chunk) \cup {None}
    BY NowFacts, TransferCount DEF Types, Name, Total
  <1>1. st[t] = "look" /\ via[t] \in Caller /\ p \in Policy
    BY DEF Look, Settled, Begun, Types
  <1>a. PICK existing \in {disk[f][0], None}, taken \in {Taken(f), {}} :
          LET plan == PlanTransfer(p, existing, Total(t), taken)
          IN IF plan = None
             THEN /\ Goto(t, "skipped")
                  /\ name' = [name EXCEPT ![t] = 0]
                  /\ crossed' = crossed \cup {x \in {<<f, 0>>} : Writing(x) # {}}
                  /\ UNCHANGED pos
             ELSE /\ Goto(t, "open")
                  /\ name' = [name EXCEPT ![t] = plan[1]]
                  /\ pos' = [pos EXCEPT ![t] = plan[2]]
                  /\ crossed' = crossed \cup {x \in {<<f, plan[1]>>} : Using(x) # {}}
    BY DEF Look
  <1> DEFINE plan == PlanTransfer(p, existing, Total(t), taken)
  <1>2. \/ /\ plan = None /\ disk[f][0] # None
           /\ p = "skip" \/ Len(disk[f][0]) >= Total(t)
        \/ \E n \in Name, k \in Nat :
             /\ plan = <<n, k>> /\ plan # None
             /\ k = 0 \/ (n = 0 /\ disk[f][0] # None /\ k = Len(disk[f][0]))
    <2>1. \A n, k \in Nat : <<n, k>> # None
      BY FilesAssumption
    <2>2. Name \subseteq Nat
      BY TransferCount DEF Name
    <2>3. CASE existing = None
      <3>1. plan = <<0, 0>>
        BY <2>3 DEF PlanTransfer
      <3> QED
        BY <1>0, <2>1, <3>1
    <2>a. existing # None => existing = disk[f][0] /\ existing \in Seq(Chunk)
      BY <1>0, <1>a
    <2>4. CASE existing # None /\ p = "skip"
      BY <2>4, <2>a DEF PlanTransfer
    <2>5. CASE existing # None /\ p = "overwrite"
      <3>1. plan = <<0, 0>>
        BY <2>5 DEF PlanTransfer
      <3> QED
        BY <1>0, <2>1, <3>1
    <2>6. CASE existing # None /\ p = "rename"
      <3>1. UniqueName(taken) \in Name
        BY <1>1, <1>a, FreeName
      <3>2. plan = <<UniqueName(taken), 0>>
        BY <2>6 DEF PlanTransfer
      <3> QED
        BY <2>1, <2>2, <3>1, <3>2
    <2>7. CASE existing # None /\ p = "resume"
      <3>1. Len(existing) \in Nat
        BY <2>7, <2>a
      <3>2. plan = IF Total(t) = 0 THEN <<0, 0>>
                   ELSE IF Len(existing) >= Total(t) THEN None ELSE <<0, Len(existing)>>
        BY <2>7 DEF PlanTransfer
      <3>3. CASE Total(t) = 0
        BY <1>0, <2>1, <3>2, <3>3
      <3>4. CASE Total(t) # 0 /\ Len(existing) >= Total(t)
        BY <2>7, <2>a, <3>2, <3>4
      <3>5. CASE Total(t) # 0 /\ ~(Len(existing) >= Total(t))
        <4>1. plan = <<0, Len(existing)>>
          BY <3>2, <3>5
        <4> QED
          BY <1>0, <2>1, <2>7, <2>a, <3>1, <4>1
      <3> QED
        BY <3>3, <3>4, <3>5
    <2> QED
      BY <1>1, <2>3, <2>4, <2>5, <2>6, <2>7 DEF Policy
  <1>3. /\ IF plan = None
           THEN /\ st' = [st EXCEPT ![t] = "skipped"]
                /\ name' = [name EXCEPT ![t] = 0]
                /\ crossed' = crossed \cup {x \in {<<f, 0>>} : Writing(x) # {}}
                /\ pos' = pos
           ELSE /\ st' = [st EXCEPT ![t] = "open"]
                /\ name' = [name EXCEPT ![t] = plan[1]]
                /\ pos' = [pos EXCEPT ![t] = plan[2]]
                /\ crossed' = crossed \cup {x \in {<<f, plan[1]>>} : Using(x) # {}}
    BY <1>a DEF Goto
  <1> HIDE DEF plan
  <1>4. CASE plan = None /\ disk[f][0] # None /\ (p = "skip" \/ Len(disk[f][0]) >= Total(t))
    BY <1>3, <1>4
  <1>5. ASSUME NEW n \in Name, NEW k \in Nat, plan = <<n, k>>, plan # None,
               k = 0 \/ (n = 0 /\ disk[f][0] # None /\ k = Len(disk[f][0]))
        PROVE  \E nn \in Name, kk \in Nat :
                 /\ st' = [st EXCEPT ![t] = "open"]
                 /\ name' = [name EXCEPT ![t] = nn] /\ pos' = [pos EXCEPT ![t] = kk]
                 /\ crossed' = crossed \cup {x \in {<<f, nn>>} : Using(x) # {}}
                 /\ kk = 0 \/ (nn = 0 /\ disk[f][0] # None /\ kk = Len(disk[f][0]))
    <2>1. plan[1] = n /\ plan[2] = k
      BY <1>5
    <2>2. /\ st' = [st EXCEPT ![t] = "open"]
          /\ name' = [name EXCEPT ![t] = n] /\ pos' = [pos EXCEPT ![t] = k]
          /\ crossed' = crossed \cup {x \in {<<f, n>>} : Using(x) # {}}
      BY <1>3, <1>5, <2>1
    <2> QED
      BY <1>5, <2>2
  <1> QED
    BY <1>2, <1>4, <1>5

\* Opening and writing change one destination.
LEMMA OpenDoes ==
  ASSUME Types, NEW t \in Transfer, Open(t)
  PROVE  /\ disk' \in [File -> [Name -> Seq(Chunk) \cup {None}]]
         /\ disk'[at[t]][name[t]] =
                IF pos[t] = 0 \/ disk[at[t]][name[t]] = None THEN <<>>
                ELSE disk[at[t]][name[t]]
         /\ \A f \in File : \A n \in Name :
                <<f, n>> # Target(t) => disk'[f][n] = disk[f][n]
  <1> DEFINE v == IF pos[t] = 0 \/ disk[at[t]][name[t]] = None THEN <<>>
                  ELSE disk[at[t]][name[t]]
  <1>1. at[t] \in File /\ name[t] \in Name
    BY DEF Types
  <1>2. disk' = [disk EXCEPT ![at[t]][name[t]] = v]
    BY DEF Open
  <1>3. v \in Seq(Chunk) \cup {None}
    BY <1>1 DEF Types
  <1> HIDE DEF v
  <1>4. disk' \in [File -> [Name -> Seq(Chunk) \cup {None}]]
    BY <1>1, <1>2, <1>3 DEF Types
  <1>5. disk'[at[t]][name[t]] = v
    BY <1>1, <1>2 DEF Types
  <1>6. ASSUME NEW f \in File, NEW n \in Name, <<f, n>> # Target(t)
        PROVE  disk'[f][n] = disk[f][n]
    BY <1>1, <1>2, <1>6 DEF Types, Target
  <1> QED
    BY <1>4, <1>5, <1>6 DEF v

LEMMA WriteDoes ==
  ASSUME Types, NEW t \in Transfer, Write(t), disk[at[t]][name[t]] # None
  PROVE  /\ disk' \in [File -> [Name -> Seq(Chunk) \cup {None}]]
         /\ disk'[at[t]][name[t]] = Written(disk[at[t]][name[t]], pos[t] + 1, from[t])
         /\ \A f \in File : \A n \in Name :
                <<f, n>> # Target(t) => disk'[f][n] = disk[f][n]
  <1> DEFINE file == disk[at[t]][name[t]]
             v == Written(file, pos[t] + 1, from[t])
             l == IF pos[t] + 1 > Len(file) THEN pos[t] + 1 ELSE Len(file)
  <1>1. at[t] \in File /\ name[t] \in Name /\ pos[t] \in Nat /\ from[t] \in Nat
    BY DEF Types
  <1>2. disk' = [disk EXCEPT ![at[t]][name[t]] = v]
    BY DEF Write
  <1>3. file \in Seq(Chunk)
    BY <1>1 DEF Types
  <1>4. Len(file) \in Nat /\ l \in Nat /\ \A i \in 1..Len(file) : file[i] \in Chunk
    BY <1>1, <1>3
  <1>5. v = [i \in 1..l |-> IF i = pos[t] + 1 THEN from[t]
                            ELSE IF i <= Len(file) THEN file[i] ELSE 0]
    BY DEF Written
  <1>6. \A i \in 1..l : v[i] \in Chunk
    BY <1>1, <1>4, <1>5 DEF Chunk
  <1>7. v \in [1..l -> Chunk]
    BY <1>5, <1>6
  <1>8. v \in Seq(Chunk)
    BY <1>4, <1>7
  <1> HIDE DEF v
  <1>9. disk' \in [File -> [Name -> Seq(Chunk) \cup {None}]]
    BY <1>1, <1>2, <1>8 DEF Types
  <1>10. disk'[at[t]][name[t]] = v
    BY <1>1, <1>2 DEF Types
  <1>11. ASSUME NEW f \in File, NEW n \in Name, <<f, n>> # Target(t)
        PROVE  disk'[f][n] = disk[f][n]
    BY <1>1, <1>2, <1>11 DEF Types, Target
  <1> QED
    BY <1>9, <1>10, <1>11 DEF v

\* Every step keeps the types.
LEMMA TypesStep ==
  ASSUME Types, Settled, Opened, NamesLast, [Next]_vars
  PROVE  Types'
  <1> USE FilesAssumption, SceneFacts, FileCount, TransferCount
          DEF callVars, fileVars, workVars, Waiting, Working, Ended
  <1>1. CASE UNCHANGED vars
    BY <1>1 DEF vars, Types
  <1>2. ASSUME NEW c \in Caller, \/ PanelLooks(c) \/ AgentLooks(c) \/ DialFails(c)
                                 \/ PanelInserts(c) \/ AgentInserts(c)
        PROVE  Types'
    <2>0. adrift' \subseteq Transfer
      BY <1>2 DEF Types, PanelLooks, AgentLooks, DialFails, PanelInserts, AgentInserts
    <2>1. /\ sidecar' \in Caller \cup {None}
          /\ call' \in [Caller -> {"idle", "dialling", "dialled", "done"}]
          /\ token' \subseteq Transfer
          /\ adrift' \subseteq Transfer
      <3> USE <2>0
      <3>1. CASE PanelLooks(c)
        BY <3>1 DEF Types, PanelLooks, Closed
      <3>2. CASE AgentLooks(c)
        BY <3>2 DEF Types, AgentLooks
      <3>3. CASE DialFails(c)
        BY <3>3 DEF Types, DialFails
      <3>4. CASE PanelInserts(c)
        BY <3>4 DEF Types, PanelInserts
      <3>5. CASE AgentInserts(c)
        BY <3>5 DEF Types, AgentInserts
      <3> QED  BY <1>2, <3>1, <3>2, <3>3, <3>4, <3>5
    <2>2. UNCHANGED <<policy, live, st, via, workVars, fileVars, restarts, scene>>
      BY <1>2 DEF PanelLooks, AgentLooks, DialFails, PanelInserts, AgentInserts
    <2> QED
      BY <2>1, <2>2 DEF Types
  <1>3. ASSUME NEW c \in Caller, Dialled(c)  PROVE Types'
    <2>1. policy' \in [Caller -> Policy]
      <3>1. PICK p \in IF c \in Panel THEN scene.policies ELSE {"overwrite"} :
                policy' = [policy EXCEPT ![c] = p]
        BY <1>3 DEF Dialled
      <3>2. p \in Policy
        BY <3>1 DEF Types, Policy
      <3> QED
        BY <3>1, <3>2 DEF Types
    <2>2. call' \in [Caller -> {"idle", "dialling", "dialled", "done"}]
      BY <1>3 DEF Types, Dialled
    <2> QED
      BY <1>3, <2>1, <2>2 DEF Types, Dialled
  <1>4. CASE Disconnect
    BY <1>4 DEF Types, Disconnect, Closed
  <1>5. CASE Restart
    <2>1. /\ sidecar' \in Caller \cup {None}
          /\ call' \in [Caller -> {"idle", "dialling", "dialled", "done"}]
          /\ policy' \in [Caller -> Policy]
          /\ live' \in [Caller -> SUBSET Transfer]
      BY <1>5 DEF Types, Restart, Policy
    <2>4. /\ scene' = scene /\ restarts' \in 0..scene.restarts
          /\ disk' = disk /\ crossed' = crossed /\ version' = version
      BY <1>5 DEF Types, Restart
    <2>5. adrift' = {}
      BY <1>5 DEF Restart
    <2>6. /\ seen' \in [Transfer -> [File -> Nat]] /\ from' \in [Transfer -> Nat]
          /\ \A t \in Transfer : \A f \in File : seen'[t][f] \in DOMAIN Size[f]
      BY <1>5, SizeFacts DEF Types, Restart, Forget, FirstVersion
    <2>2. /\ token' \subseteq Transfer
          /\ via' \in [Transfer -> Caller \cup {None}]
          /\ job' \in [Transfer -> Job]
          /\ at' \in [Transfer -> File] /\ name' \in [Transfer -> Name]
          /\ pos' \in [Transfer -> Nat] /\ late' \in [Transfer -> Nat]
      BY <1>5 DEF Types, Restart, Forget, NoJob, Job, File, Name
    <2>3. st' \in [Transfer -> {"none", "gone"} \cup Waiting \cup Working \cup Ended]
      BY <1>5 DEF Types, Restart
    <2> QED
      BY <2>1, <2>2, <2>3, <2>4, <2>5, <2>6 DEF Types
  <1>6. ASSUME NEW t \in Transfer, Start(t)  PROVE Types'
    <2>1. job' \in [Transfer -> Job]
      BY <1>6 DEF Types, Start
    <2>2. /\ st' \in [Transfer -> {"none", "gone"} \cup Waiting \cup Working \cup Ended]
          /\ via' \in [Transfer -> Caller \cup {None}]
      BY <1>6 DEF Types, Start
    <2> QED
      BY <1>6, <2>1, <2>2 DEF Types, Start
  <1>7. ASSUME NEW t \in Transfer, Register(t)  PROVE Types'
    <2>1. live' \in [Caller -> SUBSET Transfer]
      BY <1>7 DEF Types, Register
    <2>2. /\ st' \in [Transfer -> {"none", "gone"} \cup Waiting \cup Working \cup Ended]
          /\ adrift' \subseteq Transfer
      BY <1>7 DEF Types, Register
    <2> QED
      BY <1>7, <2>1, <2>2 DEF Types, Register
  <1>8. ASSUME NEW t \in Transfer, Cancel(t)  PROVE Types'
    BY <1>8 DEF Types, Cancel
  <1>9. ASSUME NEW t \in Transfer, \/ Acquire(t) \/ Fails(t) \/ Plan(t) \/ NextFile(t)
                                   \/ Read(t)
        PROVE  Types'
    <2>1. \E w \in Working \cup Ended : st' = [st EXCEPT ![t] = w]
      <3>1. CASE Acquire(t)
        BY <3>1 DEF Acquire
      <3>2. CASE Fails(t)
        BY <3>2 DEF Fails, EndAs
      <3>3. CASE Plan(t)
        BY <3>3 DEF Plan, Goto
      <3>4. CASE NextFile(t)
        BY <3>4 DEF NextFile, EndAs, Goto
      <3>5. CASE Read(t)
        BY <3>5 DEF Read, EndAs, Goto
      <3> QED
        BY <1>9, <3>1, <3>2, <3>3, <3>4, <3>5
    <2>3. st' \in [Transfer -> {"none", "gone"} \cup Waiting \cup Working \cup Ended]
      <3> HIDE DEF Waiting, Working, Ended
      <3> QED
        BY <2>1 DEF Types
    <2>2. UNCHANGED <<callVars, live, token, via, job, at, name, pos, fileVars, restarts, scene>>
      BY <1>9 DEF Acquire, Fails, Plan, NextFile, Read, EndAs
    <2>4. /\ seen' \in [Transfer -> [File -> Nat]]
          /\ \A u \in Transfer : \A f \in File : seen'[u][f] \in DOMAIN Size[f]
      <3>1. seen' = seen \/ seen' = [seen EXCEPT ![t] = version]
        BY <1>9 DEF Acquire, Fails, Plan, NextFile, Read, EndAs
      <3>2. version \in [File -> Nat] /\ seen \in [Transfer -> [File -> Nat]]
        BY DEF Types
      <3>3. seen' \in [Transfer -> [File -> Nat]]
        BY <3>1, <3>2
      <3>4. \A u \in Transfer : seen'[u] = seen[u] \/ seen'[u] = version
        BY <3>1, <3>2
      <3> QED
        BY <3>3, <3>4 DEF Types
    <2>5. from' \in [Transfer -> Nat]
      <3>1. from' = from \/ \E v \in {from[t], version[at[t]]} : from' = [from EXCEPT ![t] = v]
        BY <1>9 DEF Acquire, Fails, Plan, NextFile, Read, EndAs
      <3>2. from[t] \in Nat /\ version[at[t]] \in Nat
        BY DEF Types
      <3> QED
        BY <3>1, <3>2 DEF Types
    <2> QED
      BY <2>2, <2>3, <2>4, <2>5 DEF Types
  <1>10. ASSUME NEW t \in Transfer, Finish(t)  PROVE Types'
    <2>1. live' \in [Caller -> SUBSET Transfer]
      BY <1>10 DEF Types, Finish
    <2>2. /\ token' \subseteq Transfer
          /\ via' \in [Transfer -> Caller \cup {None}]
          /\ job' \in [Transfer -> Job]
          /\ at' \in [Transfer -> File] /\ name' \in [Transfer -> Name]
          /\ pos' \in [Transfer -> Nat] /\ late' \in [Transfer -> Nat]
      BY <1>10, SMTT(30) DEF Types, Finish, Forget, NoJob, Job, File, Name
    <2>3. st' \in [Transfer -> {"none", "gone"} \cup Waiting \cup Working \cup Ended]
      BY <1>10 DEF Types, Finish
    <2>4. /\ seen' \in [Transfer -> [File -> Nat]] /\ from' \in [Transfer -> Nat]
          /\ \A u \in Transfer : \A f \in File : seen'[u][f] \in DOMAIN Size[f]
      BY <1>10, SizeFacts DEF Types, Finish, Forget, FirstVersion
    <2> QED
      BY <1>10, <2>1, <2>2, <2>3, <2>4 DEF Types, Finish
  <1>11. ASSUME NEW t \in Transfer, Look(t)  PROVE Types'
    <2>0. at[t] \in File /\ 0 \in Name
      BY DEF Types, Name
    <2>1. /\ st' \in [Transfer -> {"none", "gone"} \cup Waiting \cup Working \cup Ended]
          /\ name' \in [Transfer -> Name] /\ pos' \in [Transfer -> Nat]
          /\ crossed' \subseteq File \X Name
      <3> HIDE DEF Working, Waiting, Ended
      <3>0. "skipped" \in Working /\ "open" \in Working
        BY DEF Working
      <3>1. \/ /\ st' = [st EXCEPT ![t] = "skipped"]
               /\ name' = [name EXCEPT ![t] = 0] /\ pos' = pos
               /\ crossed' = crossed \cup {x \in {<<at[t], 0>>} : Writing(x) # {}}
            \/ \E n \in Name, k \in Nat :
               /\ st' = [st EXCEPT ![t] = "open"]
               /\ name' = [name EXCEPT ![t] = n] /\ pos' = [pos EXCEPT ![t] = k]
               /\ crossed' = crossed \cup {x \in {<<at[t], n>>} : Using(x) # {}}
        BY <1>11, LookEnds
      <3>2. /\ st' \in [Transfer -> {"none", "gone"} \cup Waiting \cup Working \cup Ended]
            /\ name' \in [Transfer -> Name] /\ pos' \in [Transfer -> Nat]
        <4>1. \E w \in Working : st' = [st EXCEPT ![t] = w]
          BY <3>0, <3>1
        <4>2. \E n \in Name : name' = [name EXCEPT ![t] = n]
          BY <2>0, <3>1
        <4>3. pos' = pos \/ \E k \in Nat : pos' = [pos EXCEPT ![t] = k]
          BY <3>1
        <4> QED
          BY <4>1, <4>2, <4>3 DEF Types
      <3>3. \E n \in Name : crossed' \subseteq crossed \cup {<<at[t], n>>}
        BY <2>0, <3>1
      <3>4. crossed' \subseteq File \X Name
        BY <2>0, <3>3 DEF Types
      <3> QED
        BY <3>2, <3>4
    <2> QED
      BY <1>11, <2>1 DEF Types, Look
  <1>12. ASSUME NEW t \in Transfer, Open(t)  PROVE Types'
    <2>1. disk' \in [File -> [Name -> Seq(Chunk) \cup {None}]]
      BY <1>12, OpenDoes
    <2>2. /\ st' \in [Transfer -> {"none", "gone"} \cup Waiting \cup Working \cup Ended]
          /\ crossed' \subseteq File \X Name /\ from' \in [Transfer -> Nat]
      BY <1>12 DEF Types, Open, Goto
    <2> QED
      BY <1>12, <2>1, <2>2 DEF Types, Open
  <1>13. ASSUME NEW t \in Transfer, Write(t)  PROVE Types'
    <2>1. disk' \in [File -> [Name -> Seq(Chunk) \cup {None}]]
      BY <1>13, WriteDoes DEF Write, Opened
    <2>2. /\ st' \in [Transfer -> {"none", "gone"} \cup Waiting \cup Working \cup Ended]
          /\ pos' \in [Transfer -> Nat] /\ late' \in [Transfer -> Nat]
      BY <1>13, SMTT(30) DEF Types, Write, Goto
    <2> QED
      BY <1>13, <2>1, <2>2 DEF Types, Write
  <1>14. ASSUME NEW t \in Transfer, Flush(t)  PROVE Types'
    <2>1. st' \in [Transfer -> {"none", "gone"} \cup Waiting \cup Working \cup Ended]
      <3>1. \E w \in Working \cup Ended : st' = [st EXCEPT ![t] = w]
        BY <1>14 DEF Flush, Goto
      <3> HIDE DEF Waiting, Working, Ended
      <3> QED
        BY <3>1 DEF Types
    <2>2. at' \in [Transfer -> File]
      <3>1. at[t] \in 1..Len(Size) /\ at \in [Transfer -> 1..Len(Size)]
        BY DEF Types, File
      <3>2. at' = at \/ (at' = [at EXCEPT ![t] = @ + 1] /\ at[t] < Len(Size))
        BY <1>14 DEF Flush
      <3>3. at[t] < Len(Size) => at[t] + 1 \in 1..Len(Size)
        BY <3>1
      <3> QED
        BY <3>1, <3>2, <3>3, Zenon DEF File
    <2> QED
      BY <1>14, <2>1, <2>2 DEF Types, Flush
  <1>15. ASSUME NEW f \in File, SourceChanges(f)  PROVE Types'
    <2>1. /\ version' = [version EXCEPT ![f] = version[f] + 1]
          /\ version[f] < Len(Size[f]) /\ version[f] \in DOMAIN Size[f]
      BY <1>15 DEF SourceChanges, Types
    <2>2. version[f] + 1 \in DOMAIN Size[f] /\ version[f] + 1 \in Nat
      BY <2>1, SizeFacts
    <2>3. version' \in [File -> Nat] /\ \A g \in File : version'[g] \in DOMAIN Size[g]
      BY <2>1, <2>2 DEF Types
    <2>4. crossed' \subseteq File \X Name
      BY <1>15 DEF SourceChanges, Types
    <2> QED
      BY <1>15, <2>3, <2>4 DEF SourceChanges, Types
  <1> QED
    BY <1>1, <1>2, <1>3, <1>4, <1>5, <1>6, <1>7, <1>8, <1>9, <1>10, <1>11, <1>12,
       <1>13, <1>14, <1>15 DEF Next, Step

\* What a transfer does with its slot concerns nobody else, and keeps the slot
\* until it has ended.
LEMMA WorkFrame ==
  ASSUME Types, NEW t \in Transfer, \/ Fails(t) \/ Plan(t) \/ NextFile(t) \/ Look(t) \/ Open(t)
                                    \/ Read(t) \/ Write(t) \/ Flush(t)
  PROVE  /\ UNCHANGED <<sidecar, call, policy, adrift, live, token, via>>
         /\ st[t] \in Working /\ st'[t] \in Working \cup Ended
         /\ \A u \in Transfer : u # t => st'[u] = st[u]
  <1>1. UNCHANGED <<sidecar, call, policy, adrift, live, token, via>>
    BY DEF Fails, EndAs, Plan, NextFile, Look, Open, Read, Write, Flush, callVars
  <1>2. st[t] \in Working
    BY DEF Fails, Plan, NextFile, Look, Open, Read, Write, Flush, Working
  <1>3. \E w \in Working \cup Ended : st' = [st EXCEPT ![t] = w]
    <2> USE DEF Working, Ended
    <2>1. CASE Fails(t)
      BY <2>1 DEF Fails, EndAs
    <2>2. CASE Plan(t) \/ Open(t) \/ Write(t)
      BY <2>2 DEF Plan, Open, Write, Goto
    <2>3. CASE NextFile(t) \/ Read(t)
      BY <2>3 DEF NextFile, Read, EndAs, Goto
    <2>4. CASE Look(t) \/ Flush(t)
      BY <2>4 DEF Look, Flush, Goto
    <2> QED
      BY <2>1, <2>2, <2>3, <2>4
  <1> QED
    BY <1>1, <1>2, <1>3 DEF Types

\* A slot is taken by Acquire alone.
LEMMA SlotsStep ==
  ASSUME Types, Slots, Settled, [Next]_vars
  PROVE  Slots'
  <1> USE DEF callVars
  <1>0. /\ scene.limit \in Nat /\ scene' = scene /\ IsFiniteSet(Transfer)
        /\ \A c \in Caller : Busy(c) \in SUBSET Transfer /\ IsFiniteSet(Busy(c))
                             /\ Cardinality(Busy(c)) \in Nat
    <2>1. \A c : Busy(c) \in SUBSET Transfer
      BY DEF Busy
    <2>2. \A c : IsFiniteSet(Busy(c)) /\ Cardinality(Busy(c)) \in Nat
      BY <2>1, FilesAssumption, FS_Subset, FS_CardinalityType
    <2>3. scene' = scene
      BY DEF Next, Step, vars, PanelLooks, AgentLooks, DialFails, Dialled, PanelInserts,
             AgentInserts, Disconnect, Restart, Start, Cancel, Fails, EndAs, Register,
             Acquire, Plan, NextFile, Look, Open, Read, Write, Flush, Finish, SourceChanges
    <2> QED
      BY <2>1, <2>2, <2>3, FilesAssumption, SceneFacts DEF Types
  <1>1. ASSUME \A u \in Transfer : st'[u] \in Working => st[u] \in Working /\ via'[u] = via[u]
        PROVE  Slots'
    <2> SUFFICES ASSUME NEW c \in Caller  PROVE Cardinality(Busy(c)') <= scene.limit
      BY <1>0 DEF Slots
    <2>1. Busy(c)' \in SUBSET Busy(c)
      BY <1>1 DEF Busy
    <2>2. Cardinality(Busy(c)') <= Cardinality(Busy(c)) /\ Cardinality(Busy(c)') \in Nat
      BY <1>0, <2>1, FS_Subset, FS_CardinalityType
    <2> QED
      BY <1>0, <2>2 DEF Slots
  <1>2. CASE UNCHANGED vars
    BY <1>1, <1>2 DEF vars
  <1>3. ASSUME NEW c \in Caller, \/ PanelLooks(c) \/ AgentLooks(c) \/ DialFails(c)
                                 \/ Dialled(c) \/ PanelInserts(c) \/ AgentInserts(c)
        PROVE  Slots'
    BY <1>1, <1>3 DEF PanelLooks, AgentLooks, DialFails, Dialled, PanelInserts, AgentInserts
  <1>4. CASE Disconnect
    BY <1>1, <1>4 DEF Disconnect
  <1>11. ASSUME NEW f \in File, SourceChanges(f)  PROVE Slots'
    BY <1>1, <1>11 DEF SourceChanges
  <1>5. CASE Restart
    BY <1>1, <1>5 DEF Restart, Working
  <1>6. ASSUME NEW t \in Transfer, Start(t) \/ Register(t)  PROVE Slots'
    <2>1. /\ \A u \in Transfer : u # t => st'[u] = st[u] /\ via'[u] = via[u]
          /\ st'[t] \in {"picked", "queued"}
      BY <1>6 DEF Start, Register, Types
    <2> QED
      BY <1>1, <2>1 DEF Working
  <1>7. ASSUME NEW t \in Transfer, Cancel(t)  PROVE Slots'
    BY <1>1, <1>7 DEF Cancel
  <1>8. ASSUME NEW t \in Transfer, Acquire(t)  PROVE Slots'
    <2> SUFFICES ASSUME NEW c \in Caller  PROVE Cardinality(Busy(c)') <= scene.limit
      BY <1>0 DEF Slots
    <2>1. /\ st' = [st EXCEPT ![t] = "plan"] /\ via' = via
          /\ Cardinality(Busy(via[t])) < scene.limit
      BY <1>8 DEF Acquire
    <2>2. CASE c = via[t]
      <3>1. Busy(c)' \in SUBSET (Busy(c) \cup {t})
        BY <2>1 DEF Busy, Types
      <3>2. /\ IsFiniteSet(Busy(c) \cup {t})
            /\ Cardinality(Busy(c) \cup {t}) <= Cardinality(Busy(c)) + 1
            /\ Cardinality(Busy(c) \cup {t}) \in Nat
        <4>1. /\ IsFiniteSet(Busy(c) \cup {t})
              /\ Cardinality(Busy(c) \cup {t}) =
                     IF t \in Busy(c) THEN Cardinality(Busy(c)) ELSE Cardinality(Busy(c)) + 1
          BY <1>0, FS_AddElement
        <4> QED
          BY <1>0, <4>1
      <3>3. /\ Cardinality(Busy(c)') <= Cardinality(Busy(c) \cup {t})
            /\ Cardinality(Busy(c)') \in Nat
        BY <3>1, <3>2, FS_Subset, FS_CardinalityType
      <3> QED
        BY <1>0, <2>1, <2>2, <3>2, <3>3
    <2>3. CASE c # via[t]
      <3>1. Busy(c)' \in SUBSET Busy(c)
        BY <2>1, <2>3 DEF Busy, Types
      <3>2. Cardinality(Busy(c)') <= Cardinality(Busy(c)) /\ Cardinality(Busy(c)') \in Nat
        BY <1>0, <3>1, FS_Subset, FS_CardinalityType
      <3> QED
        BY <1>0, <3>2 DEF Slots
    <2> QED
      BY <2>2, <2>3
  <1>9. ASSUME NEW t \in Transfer, \/ Fails(t) \/ Plan(t) \/ NextFile(t) \/ Look(t) \/ Open(t)
                                   \/ Read(t) \/ Write(t) \/ Flush(t)
        PROVE  Slots'
    <2>1. /\ st[t] \in Working /\ via' = via
          /\ \A u \in Transfer : u # t => st'[u] = st[u]
      BY <1>9, WorkFrame
    <2> QED
      BY <1>1, <2>1
  <1>10. ASSUME NEW t \in Transfer, Finish(t)  PROVE Slots'
    <2>1. /\ st'[t] = "gone"
          /\ \A u \in Transfer : u # t => st'[u] = st[u] /\ via'[u] = via[u]
      BY <1>10 DEF Types, Finish, Forget
    <2> QED
      BY <1>1, <2>1 DEF Working
  <1> QED
    BY <1>2, <1>3, <1>4, <1>5, <1>6, <1>7, <1>8, <1>9, <1>10, <1>11 DEF Next, Step

-----------------------------------------------------------------------------
(* Sidecars and queues. *)

\* What the calls and the ends of transfers do to the map, the queues and the
\* tokens, without the files.
Sidecars == Settled /\ Listed /\ TransfersCanBeStopped

\* No step of a transfer at work reaches the map, the queues or the tokens.
LEMMA SidecarsWork ==
  ASSUME Types, Sidecars, NEW t \in Transfer,
         UNCHANGED <<sidecar, call, adrift, live, token, via>>,
         Running(t), st'[t] \in Working \cup Ended,
         \A u \in Transfer : u # t => st'[u] = st[u]
  PROVE  Sidecars'
  <1>1. /\ \A u \in Transfer : Begun(u)' => Begun(u)
        /\ \A u \in Transfer : Running(u)' => Running(u)
        /\ \A u \in Transfer : Running(u)' \/ st'[u] \in Ended => Running(u) \/ st[u] \in Ended
    BY DEF Begun, Running, Working, Ended
  <1>2. Settled'
    BY <1>1 DEF Sidecars, Settled
  <1>3. Listed'
    BY <1>1 DEF Sidecars, Listed
  <1>4. TransfersCanBeStopped'
    BY <1>1 DEF Sidecars, TransfersCanBeStopped, Running
  <1> QED
    BY <1>2, <1>3, <1>4 DEF Sidecars

\* A transfer that is neither cancelled nor adrift is in the queue of the map's
\* sidecar: whoever empties or displaces that queue has them all.
LEMMA ClosedReachesAll ==
  ASSUME Types, Sidecars, NEW t \in Transfer, Running(t)
  PROVE  t \in token \cup adrift \/ (sidecar # None /\ t \in live[sidecar])
  <1>1. via[t] \in Caller /\ t \in live[via[t]]
    BY DEF Sidecars, Settled, Listed, Begun, Running, Working
  <1>2. t \in token \cup adrift \/ via[t] = sidecar
    BY DEF Sidecars, TransfersCanBeStopped, Running
  <1> QED
    BY <1>1, <1>2, FilesAssumption

\* The calls that open a sidecar.
LEMMA SidecarsCall ==
  ASSUME Types, Sidecars, NEW c \in Caller,
         \/ PanelLooks(c) \/ AgentLooks(c) \/ DialFails(c)
         \/ Dialled(c) \/ PanelInserts(c) \/ AgentInserts(c)
  PROVE  Sidecars'
  <1>a. UNCHANGED <<st, via, live>>
    BY DEF PanelLooks, AgentLooks, DialFails, Dialled, PanelInserts, AgentInserts
  <1>b. \A t \in Transfer : /\ Begun(t)' = Begun(t) /\ Running(t)' = Running(t)
                            /\ (st'[t] \in Ended) = (st[t] \in Ended)
    BY <1>a DEF Begun, Running
  <1>c. /\ call[c] # "done"
        /\ \A d \in Caller : d # c => call'[d] = call[d]
    BY DEF Types, PanelLooks, AgentLooks, DialFails, Dialled, PanelInserts, AgentInserts
  <1>d. sidecar' = sidecar \/ sidecar' = None \/ (sidecar' = c /\ call'[c] = "done")
    BY DEF Types, PanelLooks, AgentLooks, DialFails, Dialled, PanelInserts, AgentInserts
  <1>1. Settled'
    BY <1>a, <1>b, <1>c, <1>d DEF Sidecars, Settled, Types
  <1>2. Listed'
    BY <1>a, <1>b DEF Sidecars, Listed
  <1>3. \/ UNCHANGED <<sidecar, token, adrift>>
        \/ \A t \in Transfer : Running(t) => t \in token' \cup adrift'
    <2>1. CASE PanelLooks(c)
      BY <2>1, ClosedReachesAll DEF PanelLooks, Closed
    <2>2. CASE AgentLooks(c) \/ DialFails(c) \/ Dialled(c)
      BY <2>2 DEF AgentLooks, DialFails, Dialled
    <2>3. CASE PanelInserts(c)
      BY <2>3, ClosedReachesAll DEF PanelInserts
    <2>4. CASE AgentInserts(c)
      BY <2>4, ClosedReachesAll DEF AgentInserts
    <2> QED
      BY <2>1, <2>2, <2>3, <2>4
  <1>4. TransfersCanBeStopped'
    BY <1>a, <1>b, <1>3 DEF Sidecars, TransfersCanBeStopped, Running
  <1> QED
    BY <1>1, <1>2, <1>4 DEF Sidecars

\* Every step keeps the map, the queues and the tokens in agreement.
LEMMA SidecarsStep ==
  ASSUME Types, Sidecars, [Next]_vars
  PROVE  Sidecars'
  <1> USE DEF callVars
  <1>1. ASSUME UNCHANGED <<callVars, live, token, st, via>>  PROVE Sidecars'
    BY <1>1 DEF Sidecars, Settled, Listed, TransfersCanBeStopped, Begun, Running
  <1>2. ASSUME NEW c \in Caller, \/ PanelLooks(c) \/ AgentLooks(c) \/ DialFails(c)
                                 \/ Dialled(c) \/ PanelInserts(c) \/ AgentInserts(c)
        PROVE  Sidecars'
    BY <1>2, SidecarsCall
  <1>3. CASE Disconnect
    <2>1. /\ sidecar # None /\ sidecar' = None /\ token' = token \cup live[sidecar]
          /\ UNCHANGED <<call, adrift, live, st, via>>
      BY <1>3 DEF Disconnect, Closed
    <2>2. \A t \in Transfer : Begun(t)' = Begun(t) /\ Running(t)' = Running(t)
      BY <2>1 DEF Begun, Running
    <2>3. \A t \in Transfer : Running(t) => t \in token' \cup adrift'
      BY <2>1, ClosedReachesAll
    <2>4. Settled' /\ Listed'
      BY <2>1, <2>2 DEF Sidecars, Settled, Listed
    <2>5. TransfersCanBeStopped'
      BY <2>1, <2>2, <2>3 DEF TransfersCanBeStopped, Running
    <2> QED
      BY <2>4, <2>5 DEF Sidecars
  <1>4. CASE Restart
    <2>1. /\ \A t \in Transfer : st'[t] \in {"none", "gone"}
          /\ sidecar' = None
      BY <1>4 DEF Restart
    <2>2. \A t \in Transfer : ~Begun(t)' /\ ~Running(t)' /\ st'[t] \notin Ended
      BY <2>1 DEF Begun, Running, Working, Ended
    <2> QED
      BY <2>1, <2>2 DEF Sidecars, Settled, Listed, TransfersCanBeStopped, Running
  <1>5. ASSUME NEW t \in Transfer, Start(t)  PROVE Sidecars'
    <2>1. /\ sidecar # None /\ st[t] = "none" /\ st'[t] = "picked" /\ via'[t] = sidecar
          /\ \A u \in Transfer : u # t => st'[u] = st[u] /\ via'[u] = via[u]
          /\ UNCHANGED <<sidecar, call, adrift, live, token>>
      BY <1>5 DEF Start, Types
    <2>2. ~Running(t)' /\ st'[t] \notin Ended
      BY <2>1 DEF Running, Working, Ended
    <2>3. \A u \in Transfer : u # t => /\ Begun(u)' = Begun(u) /\ Running(u)' = Running(u)
                                       /\ (st'[u] \in Ended) = (st[u] \in Ended)
      BY <2>1 DEF Begun, Running
    <2>4. Settled'
      BY <2>1, <2>3 DEF Sidecars, Settled, Types
    <2>5. Listed'
      BY <2>1, <2>2, <2>3 DEF Sidecars, Listed
    <2>6. TransfersCanBeStopped'
      BY <2>1, <2>2 DEF Sidecars, TransfersCanBeStopped, Running
    <2> QED
      BY <2>4, <2>5, <2>6 DEF Sidecars
  <1>6. ASSUME NEW t \in Transfer, Register(t)  PROVE Sidecars'
    <2>0. via[t] \in Caller
      BY <1>6 DEF Register, Sidecars, Settled, Begun
    <2>1. /\ st[t] = "picked" /\ st'[t] = "queued" /\ via' = via
          /\ \A u \in Transfer : u # t => st'[u] = st[u]
          /\ UNCHANGED <<sidecar, call, token>>
          /\ t \in live'[via[t]]
          /\ adrift \subseteq adrift' /\ (via[t] # sidecar => t \in adrift')
      BY <1>6, <2>0 DEF Register, Types
    <2>2. \A u \in Transfer : via[u] \in Caller => live[via[u]] \subseteq live'[via[u]]
      BY <1>6, <2>0 DEF Register, Types
    <2>3. \A u \in Transfer : u # t => /\ Begun(u)' = Begun(u) /\ Running(u)' = Running(u)
                                       /\ (st'[u] \in Ended) = (st[u] \in Ended)
      BY <2>1 DEF Begun, Running
    <2>4. Settled'
      BY <2>1, <2>3 DEF Sidecars, Settled, Begun
    <2>5. Listed'
      <3>1. \A u \in Transfer : Running(u) \/ st[u] \in Ended => via[u] \in Caller
        BY DEF Sidecars, Settled, Begun, Running, Working, Ended
      <3> QED
        BY <2>1, <2>2, <2>3, <3>1 DEF Sidecars, Listed
    <2>6. TransfersCanBeStopped'
      BY <2>1 DEF Sidecars, TransfersCanBeStopped
    <2> QED
      BY <2>4, <2>5, <2>6 DEF Sidecars
  <1>7. ASSUME NEW t \in Transfer, Cancel(t)  PROVE Sidecars'
    <2>1. /\ UNCHANGED <<sidecar, call, adrift, live, st, via>> /\ token \subseteq token'
      BY <1>7 DEF Cancel
    <2> QED
      BY <2>1 DEF Sidecars, Settled, Listed, TransfersCanBeStopped, Begun, Running
  <1>8. ASSUME NEW t \in Transfer, Acquire(t)  PROVE Sidecars'
    <2>1. /\ UNCHANGED <<sidecar, call, adrift, live, token, via>>
          /\ Running(t) /\ st'[t] \in Working \cup Ended
          /\ \A u \in Transfer : u # t => st'[u] = st[u]
      BY <1>8 DEF Acquire, Running, Working, Types
    <2> QED
      BY <2>1, SidecarsWork
  <1>9. ASSUME NEW t \in Transfer, \/ Fails(t) \/ Plan(t) \/ NextFile(t) \/ Look(t) \/ Open(t)
                                   \/ Read(t) \/ Write(t) \/ Flush(t)
        PROVE  Sidecars'
    <2>1. /\ UNCHANGED <<sidecar, call, adrift, live, token, via>>
          /\ st[t] \in Working /\ st'[t] \in Working \cup Ended
          /\ \A u \in Transfer : u # t => st'[u] = st[u]
      BY <1>9, WorkFrame
    <2> QED
      BY <2>1, SidecarsWork DEF Running
  <1>10. ASSUME NEW t \in Transfer, Finish(t)  PROVE Sidecars'
    <2>0. via[t] \in Caller
      BY <1>10 DEF Finish, Sidecars, Settled, Begun, Ended
    <2>1. /\ st'[t] = "gone" /\ st[t] \in Ended
          /\ UNCHANGED <<sidecar, call, adrift>>
          /\ \A u \in Transfer : u # t => /\ st'[u] = st[u] /\ via'[u] = via[u]
                                          /\ u \in token' <=> u \in token
      BY <1>10 DEF Finish, Forget, Types
    <2>2. \A u \in Transfer : u # t /\ via[u] \in Caller /\ u \in live[via[u]]
                                => u \in live'[via[u]]
      BY <1>10, <2>0 DEF Finish, Types
    <2>3. \A u \in Transfer : u # t => /\ Begun(u)' = Begun(u) /\ Running(u)' = Running(u)
                                       /\ (st'[u] \in Ended) = (st[u] \in Ended)
      BY <2>1 DEF Begun, Running
    <2>4. ~Begun(t)' /\ ~Running(t)' /\ st'[t] \notin Ended
      BY <2>1 DEF Begun, Running, Working, Ended
    <2>5. Settled'
      BY <2>1, <2>3, <2>4 DEF Sidecars, Settled
    <2>6. Listed'
      <3>1. \A u \in Transfer : Running(u) \/ st[u] \in Ended => via[u] \in Caller
        BY DEF Sidecars, Settled, Begun, Running, Working, Ended
      <3> QED
        BY <2>1, <2>2, <2>3, <2>4, <3>1 DEF Sidecars, Listed
    <2>7. TransfersCanBeStopped'
      BY <2>1, <2>4 DEF Sidecars, TransfersCanBeStopped, Running
    <2> QED
      BY <2>5, <2>6, <2>7 DEF Sidecars
  <1>11. CASE UNCHANGED vars
    BY <1>1, <1>11 DEF vars
  <1>12. ASSUME NEW f \in File, SourceChanges(f)  PROVE Sidecars'
    BY <1>1, <1>12 DEF SourceChanges
  <1> QED
    BY <1>2, <1>3, <1>4, <1>5, <1>6, <1>7, <1>8, <1>9, <1>10, <1>11, <1>12 DEF Next, Step

-----------------------------------------------------------------------------
(* Cancellation. *)

\* The token is read between two chunks, so a cancelled transfer writes the one
\* it has read, and comes to the token next.
LEMMA StoppingStep ==
  ASSUME Types, Stopping, OneChunkMore, [Next]_vars
  PROVE  Stopping' /\ OneChunkMore'
  <1> USE DEF Stopping, OneChunkMore
  <1> USE DEF callVars, fileVars, workVars
  <1>0. \A t \in Transfer : late[t] \in Nat /\ late[t] <= 1
    BY DEF Types
  <1>1. CASE UNCHANGED vars
    BY <1>1 DEF vars
  <1>2. ASSUME UNCHANGED <<st, late>>, token \subseteq token'
        PROVE  Stopping' /\ OneChunkMore'
    BY <1>2
  <1>3. ASSUME NEW c \in Caller, \/ PanelLooks(c) \/ AgentLooks(c) \/ DialFails(c)
                                 \/ Dialled(c) \/ PanelInserts(c) \/ AgentInserts(c)
        PROVE  Stopping' /\ OneChunkMore'
    <2>1. UNCHANGED <<st, late>> /\ token \subseteq token'
      BY <1>3 DEF PanelLooks, AgentLooks, DialFails, Dialled, PanelInserts, AgentInserts,
                  Closed
    <2> QED
      BY <1>2, <2>1
  <1>4. CASE Disconnect \/ (\E t \in Transfer : Cancel(t)) \/ \E f \in File : SourceChanges(f)
    <2>1. UNCHANGED <<st, late>> /\ token \subseteq token'
      BY <1>4 DEF Disconnect, Cancel, Closed, SourceChanges
    <2> QED
      BY <1>2, <2>1
  <1>5. CASE Restart
    BY <1>5 DEF Restart, Forget
  <1>6. ASSUME NEW t \in Transfer, UNCHANGED <<token, late>>, late[t] = 0,
               \A u \in Transfer : u # t => st'[u] = st[u]
        PROVE  Stopping' /\ OneChunkMore'
    BY <1>6
  <1>7. ASSUME NEW t \in Transfer,
               \/ Start(t) \/ Register(t) \/ Acquire(t) \/ Plan(t) \/ NextFile(t) \/ Look(t)
               \/ Open(t) \/ Flush(t)
        PROVE  Stopping' /\ OneChunkMore'
    <2>1. st[t] \notin {"read"} \cup Ended
      BY <1>7 DEF Start, Register, Acquire, Plan, NextFile, Look, Open, Flush, Ended
    <2>2. late[t] = 0
      BY <1>0, <2>1
    <2>3. UNCHANGED <<token, late>>
      BY <1>7 DEF Start, Register, Acquire, Plan, NextFile, EndAs, Look, Open, Flush
    <2>4. \A u \in Transfer : u # t => st'[u] = st[u]
      BY <1>7 DEF Start, Register, Acquire, Plan, NextFile, EndAs, Look, Open, Flush, Goto,
                  Types
    <2> QED
      BY <1>6, <2>2, <2>3, <2>4
  <1>8. ASSUME NEW t \in Transfer, Fails(t)  PROVE Stopping' /\ OneChunkMore'
    <2>1. /\ UNCHANGED <<token, late>> /\ st'[t] \in Ended
          /\ \A u \in Transfer : u # t => st'[u] = st[u]
      BY <1>8 DEF Fails, EndAs, Ended, Types
    <2> QED
      BY <1>0, <2>1
  <1>9. ASSUME NEW t \in Transfer, Read(t)  PROVE Stopping' /\ OneChunkMore'
    <2>1. /\ UNCHANGED <<token, late>>
          /\ \A u \in Transfer : u # t => st'[u] = st[u]
          /\ t \in token => st'[t] = "cancelled"
      BY <1>9 DEF Read, EndAs, CheckCancel, Goto, Types
    <2> QED
      BY <1>0, <2>1 DEF Ended
  <1>10. ASSUME NEW t \in Transfer, Write(t)  PROVE Stopping' /\ OneChunkMore'
    <2>1. late[t] = 0
      BY <1>0, <1>10 DEF Write, Ended
    <2>2. /\ token' = token /\ st'[t] = "read"
          /\ late'[t] = (IF t \in token THEN 1 ELSE 0)
          /\ \A u \in Transfer : u # t => st'[u] = st[u] /\ late'[u] = late[u]
      BY <1>10, <2>1 DEF Write, Goto, Types
    <2> QED
      BY <1>0, <2>2
  <1>11. ASSUME NEW t \in Transfer, Finish(t)  PROVE Stopping' /\ OneChunkMore'
    <2>1. /\ late'[t] = 0
          /\ \A u \in Transfer : u # t => /\ st'[u] = st[u] /\ late'[u] = late[u]
                                          /\ u \in token' <=> u \in token
      BY <1>11 DEF Finish, Forget, Types
    <2> QED
      BY <1>0, <2>1
  <1> QED
    BY <1>1, <1>3, <1>4, <1>5, <1>7, <1>8, <1>9, <1>10, <1>11 DEF Next, Step

-----------------------------------------------------------------------------
(* Destinations, and the names of them. *)

\* A destination that is there stays there, and only Open makes one.
LEMMA DiskStep ==
  ASSUME Types, Opened, [Next]_vars, NEW f \in File, NEW n \in Name
  PROVE  /\ disk[f][n] # None => disk'[f][n] # None
         /\ disk[f][n] = None /\ disk'[f][n] # None
              => \E t \in Transfer : Open(t) /\ Target(t) = <<f, n>>
  <1> USE DEF fileVars
  <1>0. None \notin Seq(Chunk)
    BY FilesAssumption
  <1>1. CASE disk' = disk
    BY <1>1
  <1>2. ASSUME NEW t \in Transfer, Open(t)
        PROVE  /\ disk[f][n] # None => disk'[f][n] # None
               /\ disk[f][n] = None /\ disk'[f][n] # None => Target(t) = <<f, n>>
    <2>1. CASE <<f, n>> # Target(t)
      BY <1>2, <2>1, OpenDoes
    <2>2. CASE <<f, n>> = Target(t)
      <3>1. at[t] = f /\ name[t] = n
        BY <2>2 DEF Target
      <3>2. disk'[f][n] = <<>> \/ (disk'[f][n] = disk[f][n] /\ disk[f][n] # None)
        BY <1>2, <3>1, OpenDoes
      <3>3. <<>> # None
        <4>1. <<>> \in Seq(Chunk)
          OBVIOUS
        <4> QED
          BY <1>0, <4>1
      <3> QED
        BY <2>2, <3>2, <3>3
    <2> QED
      BY <2>1, <2>2
  <1>3. ASSUME NEW t \in Transfer, Write(t)
        PROVE  (disk[f][n] # None) = (disk'[f][n] # None)
    <2>0. disk[at[t]][name[t]] # None
      BY <1>3 DEF Opened, Write
    <2>1. CASE <<f, n>> # Target(t)
      BY <1>3, <2>0, <2>1, WriteDoes
    <2>2. CASE <<f, n>> = Target(t)
      <3>1. at[t] = f /\ name[t] = n
        BY <2>2 DEF Target
      <3>2. /\ disk'[f][n] = Written(disk[f][n], pos[t] + 1, from[t])
            /\ pos[t] \in Nat /\ from[t] \in Nat
        BY <1>3, <2>0, <3>1, WriteDoes DEF Types
      <3>3. DOMAIN disk'[f][n] = 1..(IF pos[t] + 1 > Len(disk[f][n]) THEN pos[t] + 1
                                     ELSE Len(disk[f][n]))
        BY <3>2 DEF Written
      <3>4. disk'[f][n] \in Seq(Chunk) \cup {None}
        BY <1>3, <2>0, WriteDoes
      <3>5. disk'[f][n] \in Seq(Chunk)
        <4> DEFINE l == IF pos[t] + 1 > Len(disk[f][n]) THEN pos[t] + 1 ELSE Len(disk[f][n])
        <4>1. disk[f][n] \in Seq(Chunk)
          BY <2>0, <3>1 DEF Types
        <4>2. l \in Nat /\ \A i \in 1..Len(disk[f][n]) : disk[f][n][i] \in Chunk
          BY <3>2, <4>1
        <4>3. disk'[f][n] = [i \in 1..l |-> IF i = pos[t] + 1 THEN from[t]
                               ELSE IF i <= Len(disk[f][n]) THEN disk[f][n][i] ELSE 0]
          BY <3>2 DEF Written
        <4>4. \A i \in 1..l : i <= Len(disk[f][n]) => i \in 1..Len(disk[f][n])
          BY <4>1
        <4>5. \A i \in 1..l : disk'[f][n][i] \in Chunk
          BY <3>2, <4>2, <4>3, <4>4 DEF Chunk
        <4> HIDE DEF l
        <4> QED
          BY <4>2, <4>3, <4>5
      <3> QED
        BY <1>0, <2>0, <3>1, <3>5
    <2> QED
      BY <2>1, <2>2
  <1>4. \/ disk' = disk
        \/ \E t \in Transfer : Open(t) \/ Write(t)
    BY DEF Next, Step, vars, PanelLooks, AgentLooks, DialFails, Dialled, PanelInserts,
           AgentInserts, Disconnect, Restart, Start, Cancel, Fails, EndAs, Register,
           Acquire, Plan, NextFile, Look, Read, Flush, Finish, SourceChanges
  <1> QED
    BY <1>1, <1>2, <1>3, <1>4

\* Who can no longer open a file never will.
LEMMA SpentGrows ==
  ASSUME Types, [Next]_vars, NEW f \in File
  PROVE  Spent(f) \subseteq Spent(f)'
  <1> SUFFICES ASSUME NEW u \in Spent(f)  PROVE u \in Spent(f)'
    OBVIOUS
  <1> USE DEF callVars, fileVars, workVars
  <1>0. u \in Transfer /\ at[u] \in Nat /\ f \in Nat
    BY FileCount DEF Spent, Types
  <1>1. ASSUME st'[u] = st[u], at'[u] = at[u]  PROVE u \in Spent(f)'
    BY <1>1 DEF Spent, Begun
  <1>2. CASE UNCHANGED vars
    BY <1>1, <1>2 DEF vars
  <1>3. ASSUME NEW c \in Caller, \/ PanelLooks(c) \/ AgentLooks(c) \/ DialFails(c)
                                 \/ Dialled(c) \/ PanelInserts(c) \/ AgentInserts(c)
        PROVE  u \in Spent(f)'
    BY <1>1, <1>3 DEF PanelLooks, AgentLooks, DialFails, Dialled, PanelInserts, AgentInserts
  <1>4. CASE Disconnect \/ (\E t \in Transfer : Cancel(t)) \/ \E g \in File : SourceChanges(g)
    BY <1>1, <1>4 DEF Disconnect, Cancel, SourceChanges
  <1>5. CASE Restart
    <2>1. st[u] # "none"
      BY DEF Spent, Begun, Ended
    <2>2. st'[u] = "gone"
      BY <1>0, <1>5, <2>1 DEF Restart
    <2> QED
      BY <1>0, <2>2 DEF Spent
  <1>6. ASSUME NEW t \in Transfer,
               \/ Start(t) \/ Cancel(t) \/ Fails(t) \/ Step(t)
        PROVE  u \in Spent(f)'
    <2>1. CASE u # t
      <3>1. at'[u] = at[u] /\ st'[u] = st[u]
        <4>1. CASE Start(t) \/ Cancel(t) \/ Register(t) \/ Acquire(t)
          BY <1>0, <2>1, <4>1 DEF Start, Cancel, Register, Acquire, Types
        <4>2. CASE Finish(t)
          BY <1>0, <2>1, <4>2 DEF Finish, Forget, Types
        <4>3. CASE Flush(t)
          BY <1>0, <2>1, <4>3 DEF Flush, Goto, Types
        <4>4. CASE \/ Fails(t) \/ Plan(t) \/ NextFile(t) \/ Look(t) \/ Open(t)
                   \/ Read(t) \/ Write(t)
          <5>1. at' = at
            BY <4>4 DEF Fails, EndAs, Plan, NextFile, Look, Open, Read, Write
          <5>2. st'[u] = st[u]
            BY <1>0, <2>1, <4>4, WorkFrame
          <5> QED
            BY <5>1, <5>2
        <4> QED
          BY <1>6, <4>1, <4>2, <4>3, <4>4 DEF Step
      <3> QED
        BY <1>1, <3>1
    <2>2. CASE u = t
      <3>1. CASE Start(t)
        BY <2>2, <3>1 DEF Start, Spent, Begun, Ended
      <3>2. CASE Cancel(t)
        BY <1>1, <2>2, <3>2 DEF Cancel
      <3>3. CASE Register(t) \/ Acquire(t)
        <4>1. at[t] > f /\ at'[t] = at[t] /\ st'[t] \in {"queued", "plan"}
          BY <1>0, <2>2, <3>3 DEF Register, Acquire, Spent, Begun, Ended, Types
        <4> QED
          BY <2>2, <4>1 DEF Spent, Begun
      <3>4. CASE Fails(t)
        BY <2>2, <3>4 DEF Fails, EndAs, Spent, Ended, Types
      <3>5. CASE Plan(t) \/ NextFile(t) \/ Look(t) \/ Open(t)
        <4>1. at[t] > f /\ at'[t] = at[t]
          BY <2>2, <3>5 DEF Plan, NextFile, EndAs, Look, Open, Spent, Ended
        <4>2. st'[t] \in Working \cup Ended
          BY <3>5, WorkFrame
        <4>3. Begun(t)'
          BY <4>2 DEF Working, Ended, Begun
        <4> QED
          BY <2>2, <4>1, <4>3 DEF Spent
      <3>6. CASE Read(t) \/ Write(t)
        <4>1. at'[t] = at[t] /\ st'[t] \in {"read", "write", "flush"} \cup Ended
          BY <3>6 DEF Read, EndAs, Write, Goto, Ended, Types
        <4>2. at[t] = f \/ at[t] > f
          BY <2>2, <3>6 DEF Read, Write, Spent, Ended
        <4> QED
          BY <1>0, <2>2, <4>1, <4>2 DEF Spent, Begun, Ended
      <3>7. CASE Flush(t)
        <4>1. at[t] = f \/ at[t] > f
          BY <2>2, <3>7 DEF Flush, Spent, Ended
        <4>2. \/ st'[t] = "next" /\ at'[t] = at[t] + 1
              \/ st'[t] = "completed"
          BY <3>7 DEF Flush, Goto, Types
        <4> QED
          BY <1>0, <2>2, <4>1, <4>2 DEF Spent, Begun, Ended
      <3>8. CASE Finish(t)
        <4>1. st'[t] = "gone"
          BY <3>8 DEF Finish, Types
        <4> QED
          BY <2>2, <4>1 DEF Spent
      <3> QED
        BY <1>6, <3>1, <3>2, <3>3, <3>4, <3>5, <3>6, <3>7, <3>8 DEF Step
    <2> QED
      BY <2>1, <2>2
  <1> QED
    BY <1>2, <1>3, <1>4, <1>5, <1>6 DEF Next

\* There are never more new names of a file than transfers that are past it.
LEMMA NamesStep ==
  ASSUME Types, Opened, NamesLast, [Next]_vars
  PROVE  NamesLast'
  <1> SUFFICES ASSUME NEW f \in File  PROVE Cardinality(Used(f)') <= Cardinality(Spent(f)')
    BY DEF NamesLast
  <1> DEFINE C == Cardinality(Transfer)
  <1>0. C \in Nat /\ 1..C \subseteq Name
    BY TransferCount DEF Name
  <1>1. /\ IsFiniteSet(Used(f)) /\ Cardinality(Used(f)) \in Nat
        /\ IsFiniteSet(Spent(f)) /\ Cardinality(Spent(f)) \in Nat
        /\ IsFiniteSet(Spent(f)') /\ Cardinality(Spent(f)') \in Nat
    <2>1. Used(f) \in SUBSET (1..C) /\ IsFiniteSet(1..C)
      BY <1>0, FS_Interval DEF Used
    <2>2. Spent(f) \in SUBSET Transfer /\ Spent(f)' \in SUBSET Transfer
      BY DEF Spent
    <2> QED
      BY <2>1, <2>2, FilesAssumption, FS_Subset, FS_CardinalityType
  <1>2. Cardinality(Used(f)) <= Cardinality(Spent(f))
    BY DEF NamesLast
  <1>3. Spent(f) \in SUBSET Spent(f)'
    BY SpentGrows
  <1>4. Cardinality(Spent(f)) <= Cardinality(Spent(f)')
    BY <1>1, <1>3, FS_Subset
  <1>5. CASE Used(f)' \subseteq Used(f)
    <2>1. Cardinality(Used(f)') <= Cardinality(Used(f)) /\ Cardinality(Used(f)') \in Nat
      BY <1>1, <1>5, FS_Subset, FS_CardinalityType
    <2> QED
      BY <1>1, <1>2, <1>4, <2>1
  <1>6. CASE ~(Used(f)' \subseteq Used(f))
    <2>1. PICK m \in Used(f)' : m \notin Used(f)
      BY <1>6
    <2>2. m \in 1..C /\ disk[f][m] = None /\ disk'[f][m] # None
      BY <2>1 DEF Used
    <2>3. PICK t \in Transfer : Open(t) /\ Target(t) = <<f, m>>
      BY <1>0, <2>2, DiskStep
    <2>4. at[t] = f /\ st[t] = "open" /\ at'[t] = f /\ st'[t] = "read"
      BY <2>3 DEF Target, Open, Goto, Types
    <2>5. t \notin Spent(f) /\ t \in Spent(f)'
      BY <2>4, FileCount DEF Spent, Ended
    <2>6. Used(f)' \subseteq Used(f) \cup {m}
      <3> SUFFICES ASSUME NEW k \in Used(f)', k # m  PROVE k \in Used(f)
        OBVIOUS
      <3>1. k \in 1..C /\ k \in Name /\ disk'[f][k] # None
        BY <1>0 DEF Used
      <3>2. <<f, k>> # Target(t)
        BY <2>3
      <3>3. disk'[f][k] = disk[f][k]
        BY <2>3, <3>1, <3>2, OpenDoes
      <3> QED
        BY <3>1, <3>3 DEF Used
    <2>7. /\ IsFiniteSet(Used(f) \cup {m})
          /\ Cardinality(Used(f) \cup {m}) = Cardinality(Used(f)) + 1
      BY <1>1, <2>1, FS_AddElement
    <2>8. Cardinality(Used(f)') <= Cardinality(Used(f)) + 1 /\ Cardinality(Used(f)') \in Nat
      BY <2>6, <2>7, FS_Subset, FS_CardinalityType
    <2>9. Cardinality(Spent(f) \cup {t}) = Cardinality(Spent(f)) + 1
      BY <1>1, <2>5, FS_AddElement
    <2>10. Spent(f) \cup {t} \in SUBSET Spent(f)'
      BY <1>3, <2>5
    <2>11. Cardinality(Spent(f) \cup {t}) <= Cardinality(Spent(f)')
      BY <1>1, <2>10, FS_Subset
    <2> QED
      BY <1>1, <1>2, <2>8, <2>9, <2>11
  <1> QED
    BY <1>5, <1>6

\* Who reads or writes has opened, and nobody takes a destination away.
LEMMA OpenedStep ==
  ASSUME Types, Settled, NamesLast, Opened, [Next]_vars
  PROVE  Opened'
  <1> SUFFICES ASSUME NEW u \in Transfer, st'[u] \in {"read", "write", "flush", "skipped"}
               PROVE  disk'[at'[u]][name'[u]] # None
    BY DEF Opened
  <1> USE DEF callVars, fileVars, workVars
  <1>0. at[u] \in File /\ name[u] \in Name
    BY DEF Types
  <1>1. ASSUME st[u] \in {"read", "write", "flush", "skipped"}, at'[u] = at[u], name'[u] = name[u]
        PROVE  disk'[at'[u]][name'[u]] # None
    BY <1>0, <1>1, DiskStep DEF Opened
  <1>2. CASE UNCHANGED vars
    BY <1>1, <1>2 DEF vars
  <1>3. ASSUME NEW c \in Caller, \/ PanelLooks(c) \/ AgentLooks(c) \/ DialFails(c)
                                 \/ Dialled(c) \/ PanelInserts(c) \/ AgentInserts(c)
        PROVE  disk'[at'[u]][name'[u]] # None
    BY <1>1, <1>3 DEF PanelLooks, AgentLooks, DialFails, Dialled, PanelInserts, AgentInserts
  <1>4. CASE Disconnect \/ (\E t \in Transfer : Cancel(t)) \/ \E g \in File : SourceChanges(g)
    BY <1>1, <1>4 DEF Disconnect, Cancel, SourceChanges
  <1>5. CASE Restart
    BY <1>5 DEF Restart
  <1>6. ASSUME NEW t \in Transfer, Start(t) \/ Register(t) \/ Acquire(t)
        PROVE  disk'[at'[u]][name'[u]] # None
    BY <1>1, <1>6 DEF Start, Register, Acquire, Types
  <1>7. ASSUME NEW t \in Transfer, Fails(t) \/ Plan(t) \/ NextFile(t) \/ Read(t)
        PROVE  disk'[at'[u]][name'[u]] # None
    <2>1. UNCHANGED <<at, name>>
      BY <1>7 DEF Fails, EndAs, Plan, NextFile, Read
    <2>2. st[u] \in {"read", "write", "flush", "skipped"}
      <3>1. CASE u # t
        BY <1>7, <3>1, WorkFrame
      <3>2. CASE u = t
        BY <1>7, <3>2 DEF Fails, EndAs, Plan, NextFile, Read, Goto, Types
      <3> QED
        BY <3>1, <3>2
    <2> QED
      BY <1>1, <2>1, <2>2
  <1>8. ASSUME NEW t \in Transfer, Open(t)  PROVE disk'[at'[u]][name'[u]] # None
    <2>1. UNCHANGED <<at, name>>
      BY <1>8 DEF Open
    <2>2. CASE u # t
      BY <1>1, <1>8, <2>1, <2>2, WorkFrame
    <2>3. CASE u = t
      <3>1. disk'[at[t]][name[t]] = <<>> \/ disk[at[t]][name[t]] # None
        BY <1>8, OpenDoes
      <3>2. <<>> \in Seq(Chunk)
        OBVIOUS
      <3> QED
        BY <1>0, <2>1, <2>3, <3>1, <3>2, DiskStep, FilesAssumption
    <2> QED
      BY <2>2, <2>3
  <1>9. ASSUME NEW t \in Transfer, Look(t)  PROVE disk'[at'[u]][name'[u]] # None
    <2>1. CASE u # t
      <3>1. st'[u] = st[u] /\ at'[u] = at[u] /\ name'[u] = name[u]
        BY <1>9, <2>1, WorkFrame DEF Look, Types
      <3> QED
        BY <1>1, <3>1
    <2>2. CASE u = t
      <3>1. name'[t] = 0 /\ disk[at[t]][0] # None /\ disk' = disk /\ at' = at
        <4>1. \/ name' = [name EXCEPT ![t] = 0] /\ disk[at[t]][0] # None
              \/ st' = [st EXCEPT ![t] = "open"]
          BY <1>9, LookEnds
        <4>2. disk' = disk /\ at' = at
          BY <1>9 DEF Look
        <4> QED
          BY <2>2, <4>1, <4>2 DEF Types
      <3> QED
        BY <2>2, <3>1
    <2> QED
      BY <2>1, <2>2
  <1>11. ASSUME NEW t \in Transfer, Write(t) \/ Flush(t)
        PROVE disk'[at'[u]][name'[u]] # None
    <2>1. st[u] \in {"read", "write", "flush", "skipped"} /\ at'[u] = at[u] /\ name'[u] = name[u]
      <3>1. CASE u # t
        <4>1. st'[u] = st[u]
          BY <1>11, <3>1, WorkFrame
        <4> QED
          BY <1>11, <3>1, <4>1 DEF Write, Flush, Types
      <3>2. CASE u = t
        BY <1>11, <3>2 DEF Write, Flush, Goto, Types
      <3> QED
        BY <3>1, <3>2
    <2> QED
      BY <1>1, <2>1
  <1>10. ASSUME NEW t \in Transfer, Finish(t)  PROVE disk'[at'[u]][name'[u]] # None
    <2>1. u # t
      BY <1>10 DEF Finish, Types
    <2>2. st[u] \in {"read", "write", "flush", "skipped"} /\ at'[u] = at[u] /\ name'[u] = name[u]
      BY <1>10, <2>1 DEF Finish, Forget, Types
    <2> QED
      BY <1>1, <2>2
  <1> QED
    BY <1>2, <1>3, <1>4, <1>5, <1>6, <1>7, <1>8, <1>9, <1>10, <1>11 DEF Next, Step

-----------------------------------------------------------------------------
(* The content of the destinations. *)

LEMMA PrefixFacts ==
  ASSUME Types, NEW f \in File, NEW p \in Nat
  PROVE  /\ Prefix(version[f], p) \in Seq(Chunk) /\ Len(Prefix(version[f], p)) = p /\ Prefix(version[f], p) # None
         /\ Written(Prefix(version[f], p), p + 1, version[f]) = Prefix(version[f], p + 1)
  <1>0. version[f] \in Nat
    BY NowFacts
  <1>1. Prefix(version[f], p) \in Seq(Chunk) /\ Len(Prefix(version[f], p)) = p
    BY <1>0 DEF Prefix, Chunk
  <1>2. Prefix(version[f], p) # None
    BY <1>1, FilesAssumption
  <1>3. Written(Prefix(version[f], p), p + 1, version[f]) = Prefix(version[f], p + 1)
    <2>1. Written(Prefix(version[f], p), p + 1, version[f]) =
            [i \in 1..(p + 1) |-> IF i = p + 1 THEN version[f]
                                  ELSE IF i <= p THEN Prefix(version[f], p)[i] ELSE 0]
      BY <1>1 DEF Written
    <2>2. \A i \in 1..(p + 1) :
            (IF i = p + 1 THEN version[f] ELSE IF i <= p THEN Prefix(version[f], p)[i] ELSE 0)
                = version[f]
      BY DEF Prefix
    <2> QED
      BY <2>1, <2>2 DEF Prefix
  <1> QED
    BY <1>1, <1>2, <1>3

LEMMA PrefixNone == \A f \in File : Prefix(version[f], 0) = <<>>
  BY DEF Prefix

\* A step that leaves a destination alone, and takes nobody new to it.
LEMMA KeptFrame ==
  ASSUME NEW f \in File, NEW n \in Name, Kept(f, n), disk'[f][n] = disk[f][n],
         version'[f] = version[f],
         Using(<<f, n>>)' \subseteq Using(<<f, n>>),
         \A u \in Using(<<f, n>>)' : /\ st'[u] = st[u] /\ pos'[u] = pos[u]
                                     /\ from'[u] = from[u] /\ seen'[u] = seen[u]
                                     /\ policy'[via'[u]] = policy[via[u]]
  PROVE  Kept(f, n)'
  <1> DEFINE X == <<f, n>>
  <1>1. \A u \in Writing(X)' : u \in Using(X)' /\ u \in Writing(X)
    BY DEF Writing
  <1>2. \A u \in Writing(X)' : Using(X)' = {u}
    BY <1>1 DEF Kept
  <1>3. \A u \in Writing(X)' : st'[u] = st[u] /\ pos'[u] = pos[u] /\ from'[u] = from[u]
    BY <1>1
  <1>4. \A u \in Writing(X)' :
           /\ st'[u] = "open" => pos'[u] = 0 \/ (disk'[f][n] = Prefix(version[f], pos'[u]) /\ pos'[u] <= Now(f))
           /\ st'[u] = "read" => disk'[f][n] = Prefix(version[f], pos'[u]) /\ pos'[u] <= Now(f)
           /\ st'[u] = "write" => disk'[f][n] = Prefix(version[f], pos'[u]) /\ pos'[u] < Now(f)
           /\ st'[u] \in {"read", "write"} => from'[u] = version[f]
    BY <1>1, <1>3 DEF Kept
  <1>5. \A u \in Using(X)' :
           \/ st'[u] = "flush"
           \/ /\ st'[u] = "skipped" /\ policy'[via'[u]] # "skip"
              /\ seen'[u][f] = version[f]
           => disk'[f][n] = Prefix(version[f], Now(f))
    BY DEF Kept
  <1>6. disk'[f][n] = None \/ \E p \in 0..Now(f) : disk'[f][n] = Prefix(version[f], p)
    BY DEF Kept
  <1> QED
    BY <1>2, <1>4, <1>5, <1>6 DEF Kept, Now

\* A destination that one transfer, and nobody else, has yet to write.
LEMMA KeptAlone ==
  ASSUME Types, NEW f \in File, NEW n \in Name, NEW t \in Transfer, NEW p \in Nat,
         version'[f] = version[f], Using(<<f, n>>)' \subseteq {t},
         disk'[f][n] = Prefix(version[f], p), p <= Now(f), pos'[t] = p,
         \/ st'[t] = "read" /\ from'[t] = version[f]
         \/ st'[t] = "write" /\ p < Now(f) /\ from'[t] = version[f]
         \/ st'[t] = "flush" /\ p = Now(f)
         \/ t \notin Using(<<f, n>>)'
  PROVE  Kept(f, n)'
  <1> DEFINE X == <<f, n>>
  <1>0. Now(f) \in Nat /\ p \in 0..Now(f)
    BY NowFacts
  <1>1. \A u \in Writing(X)' : u = t /\ Using(X)' = {u} /\ u \in Using(X)'
    BY DEF Writing
  <1>2. \A u \in Using(X)' : u = t
    OBVIOUS
  <1>3. \A u \in Writing(X)' :
           /\ st'[u] = "open" => pos'[u] = 0 \/ (disk'[f][n] = Prefix(version[f], pos'[u]) /\ pos'[u] <= Now(f))
           /\ st'[u] = "read" => disk'[f][n] = Prefix(version[f], pos'[u]) /\ pos'[u] <= Now(f)
           /\ st'[u] = "write" => disk'[f][n] = Prefix(version[f], pos'[u]) /\ pos'[u] < Now(f)
           /\ st'[u] \in {"read", "write"} => from'[u] = version[f]
    BY <1>1
  <1>4. \A u \in Using(X)' :
           \/ st'[u] = "flush"
           \/ /\ st'[u] = "skipped" /\ policy'[via'[u]] # "skip"
              /\ seen'[u][f] = version[f]
           => disk'[f][n] = Prefix(version[f], Now(f))
    BY <1>2
  <1>5. \E q \in 0..Now(f) : disk'[f][n] = Prefix(version[f], q)
    BY <1>0
  <1> QED
    BY <1>1, <1>3, <1>4, <1>5 DEF Kept, Now

\* Looking at a destination and taking it in hand.
LEMMA KeptLook ==
  ASSUME Types, Settled, NamesLast, AllKept, NEW t \in Transfer, Look(t),
         NEW f \in File, NEW n \in Name, <<f, n>> \notin crossed'
  PROVE  Kept(f, n)'
  <1> DEFINE X == <<f, n>>
  <1>0. Now(f) \in Nat /\ 0 \in Name /\ at[t] \in File
    <2>1. Now(f) \in Nat
      BY NowFacts
    <2> QED
      BY <2>1, TransferCount DEF Types, Name
  <1>1. /\ UNCHANGED <<at, disk, policy, via, version, from, seen>>
        /\ \A u \in Transfer : u # t => /\ st'[u] = st[u] /\ name'[u] = name[u]
                                        /\ pos'[u] = pos[u]
    <2>1. \A u \in Transfer : u # t => st'[u] = st[u]
      BY WorkFrame
    <2>2. \A u \in Transfer : u # t => name'[u] = name[u] /\ pos'[u] = pos[u]
      BY DEF Look, Types
    <2> QED
      BY <2>1, <2>2 DEF Look, callVars
  <1>2. t \notin Using(X)
    BY DEF Look, Using
  <1>3. \A u \in Transfer : u # t => (u \in Using(X)' <=> u \in Using(X))
    BY <1>1 DEF Using, Target
  <1>4. CASE t \notin Using(X)' /\ X \notin crossed
    <2>1. Kept(f, n)
      BY <1>4 DEF AllKept
    <2>2. Using(X)' \subseteq Using(X)
      BY <1>3, <1>4 DEF Using
    <2>3. \A u \in Using(X)' : st'[u] = st[u] /\ pos'[u] = pos[u] /\ policy'[via'[u]] = policy[via[u]]
      BY <1>1, <1>2, <2>2 DEF Using
    <2> QED
      BY <1>1, <2>1, <2>2, <2>3, KeptFrame
  <1>5. ASSUME st' = [st EXCEPT ![t] = "skipped"], name' = [name EXCEPT ![t] = 0], pos' = pos,
               crossed' = crossed \cup {x \in {<<at[t], 0>>} : Writing(x) # {}},
               disk[at[t]][0] # None,
               policy[via[t]] = "skip" \/ Len(disk[at[t]][0]) >= Total(t)
        PROVE  Kept(f, n)'
    <2>1. X \notin crossed /\ Kept(f, n)
      BY <1>5 DEF AllKept
    <2>2. CASE X # <<at[t], 0>>
      <3>1. t \notin Using(X)'
        BY <1>1, <1>5, <2>2 DEF Using, Target, Types
      <3> QED
        BY <1>4, <2>1, <3>1
    <2>3. CASE X = <<at[t], 0>>
      <3>1. f = at[t] /\ n = 0
        BY <2>3
      <3>2. Writing(X) = {}
        BY <1>5, <2>3
      <3>3. st'[t] = "skipped"
        BY <1>5 DEF Types
      <3>4. Writing(X)' = {}
        <4> SUFFICES ASSUME NEW u \in Writing(X)'  PROVE FALSE
          OBVIOUS
        <4>1. u \in Transfer /\ u \in Using(X)' /\ st'[u] \in {"open", "read", "write"}
          BY DEF Writing, Using
        <4>2. u # t
          BY <3>3, <4>1
        <4>3. u \in Using(X) /\ st[u] = st'[u]
          BY <1>1, <1>3, <4>1, <4>2
        <4> QED
          BY <3>2, <4>1, <4>3 DEF Writing
      <3>5. \/ policy[via[t]] = "skip" \/ seen[t][f] # version[f]
            \/ disk[f][n] = Prefix(version[f], Now(f))
        <4>1. PICK p \in 0..Now(f) : disk[f][n] = Prefix(version[f], p)
          BY <1>5, <2>1, <3>1 DEF Kept
        <4>a. p \in Nat
          BY <1>0
        <4>2. Len(disk[f][n]) = p
          BY <4>a, <4>1, PrefixFacts
        <4> QED
          BY <1>0, <1>5, <3>1, <4>1, <4>2 DEF Total, Now
      <3>6. \A u \in Using(X)' :
              \/ st'[u] = "flush"
              \/ /\ st'[u] = "skipped" /\ policy'[via'[u]] # "skip"
                 /\ seen'[u][f] = version[f]
              => disk'[f][n] = Prefix(version[f], Now(f))
        <4> SUFFICES ASSUME NEW u \in Using(X)',
                            \/ st'[u] = "flush"
                            \/ /\ st'[u] = "skipped" /\ policy'[via'[u]] # "skip"
                               /\ seen'[u][f] = version[f]
                     PROVE  disk'[f][n] = Prefix(version[f], Now(f))
          OBVIOUS
        <4>0. u \in Transfer
          BY DEF Using
        <4>1. CASE u = t
          BY <1>1, <3>3, <3>5, <4>1
        <4>2. CASE u # t
          BY <1>1, <1>3, <2>1, <4>0, <4>2 DEF Kept
        <4> QED
          BY <4>1, <4>2
      <3>7. disk'[f][n] = None \/ \E p \in 0..Now(f) : disk'[f][n] = Prefix(version[f], p)
        BY <1>1, <2>1 DEF Kept
      <3> QED
        BY <1>1, <3>4, <3>6, <3>7 DEF Kept, Now
    <2> QED
      BY <2>2, <2>3
  <1>6. ASSUME NEW m \in Name, NEW k \in Nat,
               st' = [st EXCEPT ![t] = "open"], name' = [name EXCEPT ![t] = m],
               pos' = [pos EXCEPT ![t] = k],
               crossed' = crossed \cup {x \in {<<at[t], m>>} : Using(x) # {}},
               k = 0 \/ (m = 0 /\ disk[at[t]][0] # None /\ k = Len(disk[at[t]][0]))
        PROVE  Kept(f, n)'
    <2>1. X \notin crossed /\ Kept(f, n)
      BY <1>6 DEF AllKept
    <2>2. CASE X # <<at[t], m>>
      <3>1. t \notin Using(X)'
        BY <1>1, <1>6, <2>2 DEF Using, Target, Types
      <3> QED
        BY <1>4, <2>1, <3>1
    <2>3. CASE X = <<at[t], m>>
      <3>1. f = at[t] /\ n = m
        BY <2>3
      <3>2. Using(X) = {}
        BY <1>6, <2>3
      <3>3. st'[t] = "open" /\ pos'[t] = k
        BY <1>6 DEF Types
      <3>4. Using(X)' \subseteq {t}
        BY <1>3, <3>2 DEF Using
      <3>5. k = 0 \/ (disk'[f][n] = Prefix(version[f], k) /\ k <= Now(f))
        <4>1. CASE n = 0 /\ disk[f][0] # None /\ k = Len(disk[f][0])
          <5>1. PICK p \in 0..Now(f) : disk[f][n] = Prefix(version[f], p)
            BY <2>1, <4>1 DEF Kept
          <5>a. p \in Nat
            BY <1>0
          <5>2. Len(disk[f][n]) = p
            BY <5>a, <5>1, PrefixFacts
          <5> QED
            BY <1>0, <1>1, <4>1, <5>1, <5>2
        <4> QED
          BY <1>6, <3>1, <4>1
      <3>6. \A u \in Writing(X)' :
              /\ Using(X)' = {u}
              /\ st'[u] = "open" => pos'[u] = 0 \/ (disk'[f][n] = Prefix(version[f], pos'[u]) /\ pos'[u] <= Now(f))
              /\ st'[u] = "read" => disk'[f][n] = Prefix(version[f], pos'[u]) /\ pos'[u] <= Now(f)
              /\ st'[u] = "write" => disk'[f][n] = Prefix(version[f], pos'[u]) /\ pos'[u] < Now(f)
              /\ st'[u] \in {"read", "write"} => from'[u] = version[f]
        BY <3>3, <3>4, <3>5 DEF Writing
      <3>7. \A u \in Using(X)' : st'[u] = "open"
        BY <3>3, <3>4
      <3>8. disk'[f][n] = None \/ \E p \in 0..Now(f) : disk'[f][n] = Prefix(version[f], p)
        BY <1>1, <2>1 DEF Kept
      <3> QED
        BY <1>1, <3>6, <3>7, <3>8 DEF Kept, Now
    <2> QED
      BY <2>2, <2>3
  <1> QED
    BY <1>5, <1>6, LookEnds

\* Opening, reading and writing a destination that is in one transfer's hands.
LEMMA KeptCopy ==
  ASSUME Types, Settled, Opened, AllKept, NEW t \in Transfer, Open(t) \/ Read(t) \/ Write(t),
         NEW f \in File, NEW n \in Name, <<f, n>> \notin crossed'
  PROVE  Kept(f, n)'
  <1> DEFINE X == <<f, n>>
  <1> USE DEF fileVars, callVars, workVars
  <1>0. Now(f) \in Nat /\ pos[t] \in Nat
    BY NowFacts DEF Types
  <1>1. /\ UNCHANGED <<at, name, policy, via, version, seen>>
        /\ \A u \in Transfer : u # t => /\ st'[u] = st[u] /\ pos'[u] = pos[u]
                                        /\ from'[u] = from[u]
        /\ st[t] \in {"open", "read", "write"}
    <2>1. \A u \in Transfer : u # t => st'[u] = st[u]
      BY WorkFrame
    <2>2. \A u \in Transfer : u # t => pos'[u] = pos[u] /\ from'[u] = from[u]
      BY DEF Open, Read, EndAs, Write, Types
    <2> QED
      BY <2>1, <2>2 DEF Open, Read, EndAs, Write
  <1>2. CASE X # Target(t)
    <2>1. disk'[f][n] = disk[f][n]
      <3>1. CASE Open(t)
        BY <1>2, <3>1, OpenDoes
      <3>2. CASE Read(t)
        BY <3>2 DEF Read, EndAs
      <3>3. CASE Write(t)
        BY <1>2, <3>3, WriteDoes DEF Opened, Write
      <3> QED
        BY <3>1, <3>2, <3>3
    <2>2. X \notin crossed
      BY <1>2 DEF Open, Read, EndAs, Write
    <2>3. t \notin Using(X)'
      BY <1>1, <1>2 DEF Using, Target
    <2>4. Using(X)' \subseteq Using(X)
      BY <1>1, <2>3 DEF Using, Target
    <2>5. \A u \in Using(X)' : u # t /\ u \in Transfer
      BY <2>3 DEF Using
    <2> QED
      BY <1>1, <2>1, <2>2, <2>4, <2>5, KeptFrame DEF AllKept
  <1>3. CASE X = Target(t)
    <2>0. at[t] = f /\ name[t] = n
      BY <1>3 DEF Target
    <2>1. t \in Writing(X)
      BY <1>1, <1>3 DEF Writing, Using
    <2>2. Using(X) = {t} => Using(X)' \subseteq {t}
      BY <1>1 DEF Using, Target
    <2>3. CASE Open(t)
      <3>1. st'[t] = "read" /\ pos'[t] = pos[t] /\ st[t] = "open" /\ from'[t] = version[f]
        BY <2>0, <2>3 DEF Open, Goto, Types
      <3>2. CASE pos[t] = 0 /\ Using(X) = {t}
        <4>1. disk'[f][n] = Prefix(version[f], 0)
          BY <2>0, <2>3, <3>2, OpenDoes, PrefixNone
        <4> QED
          BY <1>0, <1>1, <2>2, <3>1, <3>2, <4>1, KeptAlone
      <3>3. CASE ~(pos[t] = 0 /\ Using(X) = {t})
        <4>1. X \notin crossed
          BY <1>3, <2>3, <3>3 DEF Open
        <4>2. Kept(f, n)
          BY <4>1 DEF AllKept
        <4>3. Using(X) = {t}
          BY <2>1, <4>2 DEF Kept
        <4>4. disk[f][n] = Prefix(version[f], pos[t]) /\ pos[t] <= Now(f) /\ pos[t] # 0
          BY <2>1, <3>1, <3>3, <4>2, <4>3 DEF Kept
        <4>5. disk'[f][n] = Prefix(version[f], pos[t])
          BY <1>0, <2>0, <2>3, <4>4, OpenDoes, PrefixFacts
        <4> QED
          BY <1>0, <1>1, <2>2, <3>1, <4>3, <4>4, <4>5, KeptAlone
      <3> QED
        BY <3>2, <3>3
    <2>4. CASE Read(t) \/ Write(t)
      <3>1. X \notin crossed
        BY <2>4 DEF Read, EndAs, Write
      <3>2. Kept(f, n)
        BY <3>1 DEF AllKept
      <3>3. Using(X) = {t}
        BY <2>1, <3>2 DEF Kept
      <3>4. CASE Read(t)
        <4>1. st[t] = "read" /\ pos' = pos /\ disk' = disk
          BY <3>4 DEF Read, EndAs
        <4>2. disk[f][n] = Prefix(version[f], pos[t]) /\ pos[t] <= Now(f) /\ from[t] = version[f]
          BY <2>1, <3>2, <4>1 DEF Kept
        <4>3. \/ st'[t] = "write" /\ pos[t] < Now(f) /\ from'[t] = version[f]
              \/ st'[t] = "flush" /\ ~(pos[t] < Now(f))
              \/ st'[t] = "cancelled"
          BY <2>0, <3>4, <4>2 DEF Read, EndAs, Goto, Types, Now
        <4>4. st'[t] = "cancelled" => t \notin Using(X)'
          BY DEF Using
        <4>5. \/ st'[t] = "write" /\ pos[t] < Now(f) /\ from'[t] = version[f]
              \/ st'[t] = "flush" /\ pos[t] = Now(f)
              \/ t \notin Using(X)'
          BY <1>0, <4>2, <4>3, <4>4
        <4>6. disk'[f][n] = Prefix(version[f], pos[t]) /\ pos'[t] = pos[t]
          BY <4>1, <4>2
        <4> QED
          BY <1>0, <1>1, <2>2, <3>3, <4>2, <4>5, <4>6, KeptAlone
      <3>5. CASE Write(t)
        <4>1. st[t] = "write" /\ st'[t] = "read" /\ pos'[t] = pos[t] + 1 /\ from' = from
          BY <3>5 DEF Write, Goto, Types
        <4>2. disk[f][n] = Prefix(version[f], pos[t]) /\ pos[t] < Now(f) /\ from[t] = version[f]
          BY <2>1, <3>2, <4>1 DEF Kept
        <4>a. disk[f][n] # None
          BY <1>0, <4>2, PrefixFacts
        <4>b. disk'[f][n] = Written(disk[f][n], pos[t] + 1, from[t])
          BY <2>0, <3>5, <4>a, WriteDoes
        <4>3. disk'[f][n] = Prefix(version[f], pos[t] + 1)
          BY <1>0, <4>2, <4>b, PrefixFacts
        <4>4. pos[t] + 1 \in Nat /\ pos[t] + 1 <= Now(f)
          BY <1>0, <4>2
        <4> QED
          BY <1>1, <2>2, <3>3, <4>1, <4>2, <4>3, <4>4, KeptAlone
      <3> QED
        BY <2>4, <3>4, <3>5
    <2> QED
      BY <2>3, <2>4
  <1> QED
    BY <1>2, <1>3

\* A change of the source crosses every destination that is there.  What is not
\* there yet is nobody's but a transfer's that is about to open it.
LEMMA KeptChange ==
  ASSUME Types, Opened, AllKept, NEW g \in File, SourceChanges(g),
         NEW f \in File, NEW n \in Name, <<f, n>> \notin crossed'
  PROVE  Kept(f, n)'
  <1> DEFINE X == <<f, n>>
  <1>1. /\ UNCHANGED <<st, at, name, pos, seen, from, via, policy, disk>>
        /\ version' = [version EXCEPT ![g] = @ + 1]
        /\ crossed \subseteq crossed'
        /\ \A m \in Name : <<g, m>> \notin crossed' => disk[g][m] = None
    BY DEF SourceChanges, workVars, callVars
  <1>2. Using(X)' = Using(X) /\ Writing(X)' = Writing(X)
    BY <1>1 DEF Using, Writing, Target
  <1>3. Kept(f, n)
    BY <1>1 DEF AllKept
  <1>4. CASE f # g
    <2>1. version'[f] = version[f]
      BY <1>1, <1>4 DEF Types
    <2> QED
      BY <1>1, <1>2, <1>3, <2>1, KeptFrame
  <1>5. CASE f = g
    <2>1. disk[f][n] = None
      BY <1>1, <1>5
    <2>2. \A p \in Nat : disk[f][n] # Prefix(version[f], p)
      BY <2>1, PrefixFacts
    <2>3. \A t \in Using(X) : t \in Transfer /\ pos[t] \in Nat /\ at[t] = f /\ name[t] = n
      BY DEF Using, Target, Types
    <2>4. \A t \in Writing(X) : Using(X) = {t} /\ st[t] = "open" /\ pos[t] = 0
      <3> SUFFICES ASSUME NEW t \in Writing(X)
                   PROVE  Using(X) = {t} /\ st[t] = "open" /\ pos[t] = 0
        OBVIOUS
      <3>1. t \in Using(X) /\ st[t] \in {"open", "read", "write"}
        BY DEF Writing
      <3>2. Using(X) = {t}
        BY <1>3 DEF Kept
      <3>3. st[t] = "open"
        BY <2>1, <2>3, <3>1 DEF Opened
      <3> QED
        BY <1>3, <2>2, <2>3, <3>1, <3>2, <3>3 DEF Kept
    <2>5. \A t \in Using(X) : st[t] \notin {"flush", "skipped"}
      BY <2>1, <2>3 DEF Opened
    <2> QED
      BY <1>1, <1>2, <2>1, <2>4, <2>5 DEF Kept
  <1> QED
    BY <1>4, <1>5

\* Every step keeps what is at the destinations.
LEMMA KeptStep ==
  ASSUME Types, Settled, Opened, NamesLast, AllKept, [Next]_vars
  PROVE  AllKept'
  <1> SUFFICES ASSUME NEW f \in File, NEW n \in Name, <<f, n>> \notin crossed'
               PROVE  Kept(f, n)'
    BY DEF AllKept, Name
  <1> DEFINE X == <<f, n>>
  <1> USE DEF fileVars, callVars, workVars
  <1>0. \A u \in Using(X) : u \in Transfer /\ via[u] \in Caller /\ call[via[u]] = "done"
    BY DEF Using, Settled, Begun
  <1>1. ASSUME disk' = disk, crossed' = crossed, version' = version,
               \A u \in Transfer :
                  \/ /\ st'[u] = st[u] /\ at'[u] = at[u] /\ name'[u] = name[u]
                     /\ pos'[u] = pos[u] /\ from'[u] = from[u] /\ seen'[u] = seen[u]
                     /\ u \in Using(X) => policy'[via'[u]] = policy[via[u]]
                  \/ st'[u] \notin {"open", "read", "write", "flush", "skipped"}
        PROVE  Kept(f, n)'
    <2>1. Kept(f, n)
      BY <1>1 DEF AllKept
    <2>2. \A u \in Using(X)' : /\ u \in Using(X) /\ st'[u] = st[u] /\ pos'[u] = pos[u]
                               /\ from'[u] = from[u] /\ seen'[u] = seen[u]
                               /\ policy'[via'[u]] = policy[via[u]]
      BY <1>1 DEF Using, Target
    <2> QED
      BY <1>1, <2>1, <2>2, KeptFrame
  <1>2. CASE UNCHANGED vars
    BY <1>1, <1>2 DEF vars
  <1>3. ASSUME NEW c \in Caller, \/ PanelLooks(c) \/ AgentLooks(c) \/ DialFails(c)
                                 \/ PanelInserts(c) \/ AgentInserts(c)
        PROVE  Kept(f, n)'
    BY <1>1, <1>3 DEF PanelLooks, AgentLooks, DialFails, PanelInserts, AgentInserts
  <1>4. ASSUME NEW c \in Caller, Dialled(c)  PROVE Kept(f, n)'
    <2>1. \A d \in Caller : d # c => policy'[d] = policy[d]
      BY <1>4 DEF Dialled, Types
    <2>2. \A u \in Using(X) : via[u] # c
      BY <1>0, <1>4 DEF Dialled
    <2>3. UNCHANGED <<via, st, at, name, pos, seen, from, version, disk, crossed>>
      BY <1>4 DEF Dialled
    <2>4. \A u \in Using(X) : policy'[via'[u]] = policy[via[u]]
      BY <1>0, <2>1, <2>2, <2>3
    <2> QED
      BY <1>1, <2>3, <2>4
  <1>5. CASE Disconnect \/ \E t \in Transfer : Cancel(t)
    BY <1>1, <1>5 DEF Disconnect, Cancel
  <1>6. CASE Restart
    BY <1>1, <1>6 DEF Restart
  <1>7. ASSUME NEW t \in Transfer, Start(t) \/ Register(t) \/ Acquire(t)
        PROVE  Kept(f, n)'
    <2>1. /\ UNCHANGED <<disk, crossed, version, at, name, pos, seen, from, policy>>
          /\ st'[t] \in {"picked", "queued", "plan"}
          /\ \A u \in Transfer : u # t => st'[u] = st[u] /\ via'[u] = via[u]
      BY <1>7 DEF Start, Register, Acquire, Types
    <2> QED
      BY <1>1, <2>1
  <1>8. ASSUME NEW t \in Transfer, Fails(t) \/ Plan(t) \/ NextFile(t) \/ Flush(t)
        PROVE  Kept(f, n)'
    <2>1. /\ UNCHANGED <<disk, crossed, version, name, pos, from, policy, via>>
          /\ \A u \in Transfer : u # t => at'[u] = at[u] /\ seen'[u] = seen[u]
      BY <1>8 DEF Fails, EndAs, Plan, NextFile, Flush, Types
    <2>2. \A u \in Transfer : u # t => st'[u] = st[u]
      BY <1>8, WorkFrame
    <2>3. st'[t] \notin {"open", "read", "write", "flush", "skipped"}
      BY <1>8 DEF Fails, EndAs, Plan, NextFile, Flush, Goto, Types
    <2> QED
      BY <1>1, <2>1, <2>2, <2>3
  <1>9. ASSUME NEW t \in Transfer, Look(t)  PROVE Kept(f, n)'
    BY <1>9, KeptLook
  <1>10. ASSUME NEW t \in Transfer, Open(t) \/ Read(t) \/ Write(t)  PROVE Kept(f, n)'
    BY <1>10, KeptCopy
  <1>11. ASSUME NEW t \in Transfer, Finish(t)  PROVE Kept(f, n)'
    <2>1. /\ UNCHANGED <<disk, crossed, version, policy>> /\ st'[t] = "gone"
          /\ \A u \in Transfer : u # t => /\ st'[u] = st[u] /\ via'[u] = via[u]
                                          /\ at'[u] = at[u] /\ name'[u] = name[u]
                                          /\ pos'[u] = pos[u] /\ from'[u] = from[u]
                                          /\ seen'[u] = seen[u]
      BY <1>11 DEF Finish, Forget, Types
    <2> QED
      BY <1>1, <2>1
  <1>12. ASSUME NEW g \in File, SourceChanges(g)  PROVE Kept(f, n)'
    BY <1>12, KeptChange
  <1> QED
    BY <1>2, <1>3, <1>4, <1>5, <1>6, <1>7, <1>8, <1>9, <1>10, <1>11, <1>12 DEF Next, Step

-----------------------------------------------------------------------------

\* Nobody has opened a sidecar, and at most somebody else's file is there.
LEMMA InitInv == Init => Inv
  <1> SUFFICES ASSUME Init  PROVE Inv
    OBVIOUS
  <1> USE FilesAssumption
  <1>0. /\ \A t \in Transfer : st[t] = "none" /\ late[t] = 0
        /\ \A c \in Caller : call[c] = "idle"
        /\ sidecar = None /\ scene \in Scenes
    BY DEF Init
  <1>1. PICK had \in {None} \cup Foreign :
          /\ disk = [f \in File |-> [n \in Name |-> IF f = 1 /\ n = 0 THEN had ELSE None]]
          /\ crossed = IF had = None THEN {} ELSE {<<1, 0>>}
    BY DEF Init
  <1>2. had \in Seq(Chunk) \cup {None}
    <2> SUFFICES ASSUME had \in Foreign  PROVE had \in Seq(Chunk)
      OBVIOUS
    <2>1. PICK k \in scene.found : had = [i \in 1..k |-> 0]
      BY DEF Foreign
    <2>2. k \in Nat
      BY <1>0, SceneFacts
    <2> QED
      BY <2>1, <2>2 DEF Chunk
  <1>3. 1 \in File /\ 0 \in Name
    BY FileCount, TransferCount DEF Name
  <1>4. Types
    <2>1. /\ disk \in [File -> [Name -> Seq(Chunk) \cup {None}]]
          /\ crossed \subseteq File \X Name
      BY <1>1, <1>2, <1>3
    <2>2. restarts \in 0..scene.restarts
      BY <1>0, SceneFacts DEF Init
    <2>3. NoJob \in Job /\ "overwrite" \in Policy
      BY DEF NoJob, Job, Policy
    <2>4. /\ version \in [File -> Nat] /\ \A f \in File : version[f] \in DOMAIN Size[f]
          /\ seen \in [Transfer -> [File -> Nat]] /\ from \in [Transfer -> Nat]
          /\ \A t \in Transfer : \A f \in File : seen[t][f] \in DOMAIN Size[f]
      BY SizeFacts DEF Init, FirstVersion
    <2> QED
      BY <1>3, <2>1, <2>2, <2>3, <2>4 DEF Init, Types
  <1>5. Slots
    <2>1. \A c \in Caller : Busy(c) = {}
      BY <1>0 DEF Busy, Working
    <2>2. Cardinality({}) = 0
      BY FS_EmptySet
    <2>3. scene.limit \in Nat /\ scene.limit >= 1
      BY <1>0, SceneFacts
    <2>4. \A c \in Caller : Cardinality(Busy(c)) = 0
      BY <2>1, <2>2, Zenon
    <2>5. 0 <= scene.limit
      BY <2>3
    <2> QED
      BY <2>4, <2>5, Zenon DEF Slots
  <1>6. Settled /\ Listed /\ TransfersCanBeStopped /\ Stopping /\ OneChunkMore /\ Opened
    BY <1>0 DEF Settled, Listed, TransfersCanBeStopped, Stopping, OneChunkMore, Opened,
                Begun, Running, Working, Ended
  <1>8. NamesLast
    <2> SUFFICES ASSUME NEW f \in File
                 PROVE  Cardinality(Used(f)) <= Cardinality(Spent(f))
      BY DEF NamesLast
    <2>1. Used(f) = {}
      BY <1>1, TransferCount DEF Used, Name
    <2>2. Spent(f) \in SUBSET Transfer
      BY DEF Spent
    <2>3. Cardinality(Spent(f)) \in Nat
      BY <2>2, FS_Subset, FS_CardinalityType
    <2> QED
      BY <2>1, <2>3, FS_EmptySet
  <1>9. AllKept
    <2> SUFFICES ASSUME NEW f \in File, NEW n \in Name, <<f, n>> \notin crossed
                 PROVE  Kept(f, n)
      BY DEF AllKept
    <2>1. Using(<<f, n>>) = {}
      BY <1>0 DEF Using
    <2>2. disk[f][n] = None
      BY <1>1
    <2> QED
      BY <2>1, <2>2 DEF Kept, Writing
  <1>10. TypeOK
    BY <1>4, <1>5 DEF Types, Slots, TypeOK
  <1> QED
    BY <1>6, <1>8, <1>9, <1>10 DEF Inv

\* The inductive invariant holds in every reachable state.
THEOREM Invariance == Spec => []Inv
  <1>1. Inv /\ [Next]_vars => Inv'
    <2> SUFFICES ASSUME Inv, [Next]_vars  PROVE Inv'
      OBVIOUS
    <2>1. Types /\ Slots
      BY DEF Inv, TypeOK, Types, Slots
    <2>2. Sidecars /\ Stopping /\ OneChunkMore /\ Opened /\ NamesLast /\ AllKept
      BY DEF Inv, Sidecars
    <2>3. Types'
      BY <2>1, <2>2, TypesStep DEF Sidecars
    <2>4. Slots'
      BY <2>1, <2>2, SlotsStep DEF Sidecars
    <2>5. Sidecars'
      BY <2>1, <2>2, SidecarsStep
    <2>6. Stopping' /\ OneChunkMore'
      BY <2>1, <2>2, StoppingStep
    <2>7. Opened' /\ NamesLast'
      BY <2>1, <2>2, OpenedStep, NamesStep DEF Sidecars
    <2>8. AllKept'
      BY <2>1, <2>2, KeptStep DEF Sidecars
    <2>9. TypeOK'
      BY <2>3, <2>4 DEF Types, Slots, TypeOK
    <2> QED
      BY <2>5, <2>6, <2>7, <2>8, <2>9 DEF Inv, Sidecars
  <1> QED
    BY <1>1, InitInv, PTL DEF Spec

\* Type correctness; a queue never runs more transfers than it has slots, and a
\* transfer that renames always finds a name.
THEOREM TypeCorrect == Spec => []TypeOK
  <1>1. Inv => TypeOK
    BY DEF Inv
  <1> QED
    BY <1>1, Invariance, PTL

\* Resume may trust the length of a partial file, as long as the source is what
\* it was: a finished destination is the source as it is now, whole.
THEOREM WholeWhenFinished == Spec => []FinishedIsWhole
  <1>1. Inv => FinishedIsWhole
    <2> SUFFICES ASSUME Inv, NEW t \in Transfer, st[t] \in {"flush", "skipped"},
                        Target(t) \notin crossed,
                        st[t] = "skipped" =>
                            policy[via[t]] # "skip" /\ seen[t][at[t]] = version[at[t]]
                 PROVE  disk[at[t]][name[t]] = Whole(at[t], version[at[t]])
      BY DEF FinishedIsWhole
    <2>1. at[t] \in File /\ name[t] \in Name /\ Target(t) = <<at[t], name[t]>>
      BY DEF Inv, TypeOK, Target
    <2>2. Kept(at[t], name[t])
      BY <2>1 DEF Inv, AllKept
    <2>3. t \in Using(<<at[t], name[t]>>)
      BY <2>1 DEF Using
    <2> QED
      BY <2>2, <2>3 DEF Kept, Prefix, Now, Whole
  <1> QED
    BY <1>1, Invariance, PTL

\* Cancelling and closing reach every transfer that runs, unless the panel's
\* insert displaced its sidecar or it was registered in one already closed.
THEOREM RunningCanBeStopped == Spec => []TransfersCanBeStopped
  <1>1. Inv => TransfersCanBeStopped
    BY DEF Inv
  <1> QED
    BY <1>1, Invariance, PTL

\* A cancelled transfer writes one more chunk at most.
THEOREM CancelledStops == Spec => []OneChunkMore
  <1>1. Inv => OneChunkMore
    BY DEF Inv
  <1> QED
    BY <1>1, Invariance, PTL
=============================================================================
