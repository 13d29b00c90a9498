------------------------------- MODULE Files -------------------------------
(***************************************************************************)
(* The file transfer sidecar of one session: a second SSH connection that  *)
(* the Files panel (files_connect) or an agent's file verb (agent_sidecar) *)
(* opens, and the transfers that run over it (commands/files.rs with       *)
(* vnc-files/src/{queue,session,transfer}.rs).                             *)
(*                                                                         *)
(* A sidecar is named after the call that dialled it: the map holds at     *)
(* most one, while one that was displaced lives on in the transfers that   *)
(* hold it.  A transfer takes a slot of its sidecar's queue and works      *)
(* through its files in order: look at the destination, open it, copy it   *)
(* chunk by chunk, reading its cancellation token between the chunks.      *)
(*                                                                         *)
(* A source may be replaced or overwritten at any time: it has versions.   *)
(* A destination is the sequence of its chunks: v is the chunk of version  *)
(* v of the source that belongs at that position, 0 one of a file that was *)
(* there before, or what a write past the end leaves behind.               *)
(***************************************************************************)
EXTENDS Naturals, Sequences, FiniteSets

CONSTANTS
    None,          \* no sidecar, no file
    Caller,        \* calls that open a sidecar, each made once in a process
    Panel,         \* those of them that are files_connect; the others are an agent's
    Endpoint,      \* the host and port each call asks for
    Transfer,      \* queue items, each with an id of its own
    Size,          \* chunks of each version of each source file, by its place in a tree
    Scenes         \* environments, one per behaviour: the calls made, the conflict
                   \* policies of the panel's configurations, the transfers and
                   \* the jobs started, the lengths a foreign file may have at
                   \* the first destination, the slots of a queue, whether the
                   \* sources change, and how often the process dies

File == 1..Len(Size)

\* ConflictPolicy.
Policy == {"resume", "skip", "overwrite", "rename"}

\* A job is one file or a tree of all of them, in one of two directions.
Job == [direction : {"upload", "download"}, tree : BOOLEAN]

\* The version of the source that a chunk is of, 0 for one that is of none.
Chunk == Nat

ASSUME FilesAssumption ==
    /\ Panel \subseteq Caller
    /\ IsFiniteSet(Transfer)
    /\ None \notin Caller \cup Transfer \cup Seq(Chunk) \cup (Nat \X Nat)
    /\ \A s \in Scenes :
        /\ s.callers \subseteq Caller /\ s.policies \subseteq Policy /\ s.jobs \subseteq Job
        /\ s.items \subseteq Transfer
        /\ s.found \subseteq Nat /\ s.limit \in 1..3 /\ s.restarts \in Nat
        /\ s.changes \in BOOLEAN

\* There is a file, and a version of every file; any of them may be empty.
ASSUME SizeAssumption == Size \in Seq(Seq(Nat) \ {<<>>}) /\ Size # <<>>

\* Where a transfer is: between its lookup of the sidecar and its entry in the
\* queue, waiting for a slot, at one of the awaits of its loop over the files,
\* or after its terminal event.
Waiting == {"picked", "queued"}
Working == {"plan", "next", "look", "open", "read", "write", "flush", "skipped"}
Ended   == {"completed", "failed", "cancelled"}

VARIABLES
    scene,      \* the environment of this behaviour
    sidecar,    \* FilesState.sessions: the call that made the session's sidecar
    call,       \* where each call is
    policy,     \* the conflict policy of each sidecar
    live,       \* TransferQueue.live of each sidecar
    token,      \* the cancelled transfers
    st,         \* where each transfer is
    via,        \* the sidecar each transfer holds
    job,        \* direction, and whether it is a tree
    at,         \* the file each transfer is at
    name,       \* which name of that file it writes: 0 the file's own, or a new one
    pos,        \* chunks of it that are behind the transfer
    version,    \* the version of each source that is there now
    seen,       \* the versions whose sizes a transfer has in its plan
    from,       \* the version each transfer reads from its source
    disk,       \* the destinations: file, name -> chunks, or None
    restarts,
    adrift,     \* history: transfers whose sidecar the panel displaced, or that were
                \* registered in one that was no longer the session's
    crossed,    \* history: destinations with something in them that was not written by
                \* one transfer at a time since the source last changed
    late        \* history: chunks each transfer wrote after its cancellation

callVars == <<sidecar, call, policy, adrift>>
fileVars == <<version, disk, crossed, late>>
workVars == <<job, at, name, pos, seen, from>>
vars == <<scene, callVars, fileVars, workVars, live, token, st, via, restarts>>

\* The names of a file: its own, and one for every transfer that may rename.
Name == 0..Cardinality(Transfer)

\* The transfers that have a slot of a sidecar's queue.
Busy(c) == {t \in Transfer : via[t] = c /\ st[t] \in Working}

\* The type invariant; a queue never runs more transfers than it has slots.
TypeOK ==
    /\ sidecar \in Caller \cup {None}
    /\ call \in [Caller -> {"idle", "dialling", "dialled", "done"}]
    /\ policy \in [Caller -> Policy]
    /\ live \in [Caller -> SUBSET Transfer]
    /\ token \subseteq Transfer
    /\ st \in [Transfer -> {"none", "gone"} \cup Waiting \cup Working \cup Ended]
    /\ via \in [Transfer -> Caller \cup {None}]
    /\ job \in [Transfer -> Job]
    /\ at \in [Transfer -> File] /\ name \in [Transfer -> Name] /\ pos \in [Transfer -> Nat]
    /\ version \in [File -> Nat] /\ \A f \in File : version[f] \in DOMAIN Size[f]
    /\ seen \in [Transfer -> [File -> Nat]] /\ from \in [Transfer -> Nat]
    /\ \A t \in Transfer : \A f \in File : seen[t][f] \in DOMAIN Size[f]
    /\ disk \in [File -> [Name -> Seq(Chunk) \cup {None}]]
    /\ scene \in Scenes /\ restarts \in 0..scene.restarts /\ adrift \subseteq Transfer
    /\ crossed \subseteq File \X Name /\ late \in [Transfer -> Nat]
    /\ \A c \in Caller : Cardinality(Busy(c)) <= scene.limit

-----------------------------------------------------------------------------

NoJob == [direction |-> "upload", tree |-> FALSE]

\* A file the person already had where the first one goes.
Foreign == {[i \in 1..n |-> 0] : n \in scene.found}

FirstVersion == [f \in File |-> 1]

Init ==
    /\ scene \in Scenes
    /\ sidecar = None /\ call = [c \in Caller |-> "idle"]
    /\ policy = [c \in Caller |-> "overwrite"]
    /\ live = [c \in Caller |-> {}] /\ token = {}
    /\ st = [t \in Transfer |-> "none"] /\ via = [t \in Transfer |-> None]
    /\ job = [t \in Transfer |-> NoJob]
    /\ at = [t \in Transfer |-> 1] /\ name = [t \in Transfer |-> 0]
    /\ pos = [t \in Transfer |-> 0]
    /\ version = FirstVersion
    /\ seen = [t \in Transfer |-> FirstVersion] /\ from = [t \in Transfer |-> 1]
    /\ \E had \in {None} \cup Foreign :
        /\ disk = [f \in File |-> [n \in Name |-> IF f = 1 /\ n = 0 THEN had ELSE None]]
        /\ crossed = IF had = None THEN {} ELSE {<<1, 0>>}
    /\ restarts = 0 /\ adrift = {} /\ late = [t \in Transfer |-> 0]

-----------------------------------------------------------------------------
(* Opening and closing the sidecar *)

\* disconnect_entry and shutdown_for_window: the sidecar leaves the map and
\* every transfer in its queue is cancelled.  Whoever still holds it keeps the
\* connection open until it lets go.
Closed(e) == token' = token \cup live[e]

\* files_connect: a sidecar to the same endpoint is reused, one to another
\* endpoint is closed first, and then the call dials.
PanelLooks(c) ==
    /\ c \in Panel \cap scene.callers /\ call[c] = "idle"
    /\ IF sidecar # None /\ Endpoint[sidecar] = Endpoint[c]
       THEN /\ call' = [call EXCEPT ![c] = "done"]
            /\ UNCHANGED <<sidecar, token>>
       ELSE /\ call' = [call EXCEPT ![c] = "dialling"]
            /\ sidecar' = None
            /\ IF sidecar = None THEN UNCHANGED token ELSE Closed(sidecar)
    /\ UNCHANGED <<policy, adrift, live, st, via, workVars, fileVars, restarts, scene>>

\* agent_sidecar: whatever sidecar the session has will do.
AgentLooks(c) ==
    /\ c \in scene.callers \ Panel /\ call[c] = "idle"
    /\ call' = [call EXCEPT ![c] = IF sidecar # None THEN "done" ELSE "dialling"]
    /\ UNCHANGED <<sidecar, policy, adrift, live, token, st, via, workVars, fileVars,
                   restarts, scene>>

\* The dial ends: no route, a refused or unknown host key, or a connection with
\* the policy of its configuration, which for an agent is always to overwrite.
DialFails(c) ==
    /\ call[c] = "dialling"
    /\ call' = [call EXCEPT ![c] = "done"]
    /\ UNCHANGED <<sidecar, policy, adrift, live, token, st, via, workVars, fileVars,
                   restarts, scene>>

Dialled(c) ==
    /\ call[c] = "dialling"
    /\ call' = [call EXCEPT ![c] = "dialled"]
    /\ \E p \in IF c \in Panel THEN scene.policies ELSE {"overwrite"} :
        policy' = [policy EXCEPT ![c] = p]
    /\ UNCHANGED <<sidecar, adrift, live, token, st, via, workVars, fileVars, restarts, scene>>

\* A plausible bug: the agent's connection is inserted without a second look.
AgentInsertsAnyway(c) ==
    /\ c \in Caller \ Panel /\ call[c] = "dialled"
    /\ call' = [call EXCEPT ![c] = "done"] /\ sidecar' = c
    /\ UNCHANGED <<policy, adrift, live, token, st, via, workVars, fileVars, restarts, scene>>

\* The connection goes into the map: the panel's replaces whatever was opened in
\* the meantime, without closing it, and an agent's gives way to it.
PanelInserts(c) ==
    /\ c \in Panel /\ call[c] = "dialled"
    /\ call' = [call EXCEPT ![c] = "done"] /\ sidecar' = c
    /\ adrift' = IF sidecar = None THEN adrift ELSE adrift \cup live[sidecar]
    /\ UNCHANGED <<policy, live, token, st, via, workVars, fileVars, restarts, scene>>

AgentInserts(c) ==
    /\ c \in Caller \ Panel /\ call[c] = "dialled"
    /\ call' = [call EXCEPT ![c] = "done"]
    /\ sidecar' = IF sidecar # None THEN sidecar ELSE c
    /\ UNCHANGED <<policy, adrift, live, token, st, via, workVars, fileVars, restarts, scene>>

\* files_disconnect, or the window closing.
Disconnect ==
    /\ sidecar # None
    /\ sidecar' = None /\ Closed(sidecar)
    /\ UNCHANGED <<call, policy, adrift, live, st, via, workVars, fileVars, restarts, scene>>

-----------------------------------------------------------------------------
(* Starting, cancelling and ending a transfer *)

\* files_upload and files_download look the sidecar up...
Start(t) ==
    /\ t \in scene.items /\ st[t] = "none" /\ sidecar # None
    /\ st' = [st EXCEPT ![t] = "picked"] /\ via' = [via EXCEPT ![t] = sidecar]
    /\ \E j \in scene.jobs : job' = [job EXCEPT ![t] = j]
    /\ UNCHANGED <<callVars, live, token, at, name, pos, seen, from, fileVars, restarts, scene>>

\* ...and spawn_transfer registers the item in the queue of the one they found.
Register(t) ==
    /\ st[t] = "picked"
    /\ st' = [st EXCEPT ![t] = "queued"]
    /\ live' = [live EXCEPT ![via[t]] = @ \cup {t}]
    /\ adrift' = IF via[t] = sidecar THEN adrift ELSE adrift \cup {t}
    /\ UNCHANGED <<sidecar, call, policy, token, via, workVars, fileVars, restarts, scene>>

\* files_cancel: the session's sidecar cancels the item if it is in its queue.
Cancel(t) ==
    /\ sidecar # None /\ t \in live[sidecar] /\ t \notin token
    /\ token' = token \cup {t}
    /\ UNCHANGED <<callVars, live, st, via, workVars, fileVars, restarts, scene>>

\* Two plausible bugs: an item that was cancelled in the queue is left there, and
\* a slot is not waited for.
AcquireUnlessCancelled(t) ==
    /\ st[t] = "queued" /\ t \notin token
    /\ Cardinality(Busy(via[t])) < scene.limit
    /\ st' = [st EXCEPT ![t] = "plan"]
    /\ UNCHANGED <<callVars, live, token, via, workVars, fileVars, restarts, scene>>

\* acquire: a slot of the sidecar's queue, for the whole item.
Acquire(t) ==
    /\ st[t] = "queued"
    /\ Cardinality(Busy(via[t])) < scene.limit
    /\ st' = [st EXCEPT ![t] = "plan"]
    /\ UNCHANGED <<callVars, live, token, via, workVars, fileVars, restarts, scene>>

\* The terminal event, after which the slot is free.
EndAs(t, how) ==
    /\ st' = [st EXCEPT ![t] = how]
    /\ UNCHANGED <<callVars, live, token, via, workVars, fileVars, restarts, scene>>

\* The server or the disk answers an await with an error: a failure, unless the
\* item was cancelled.
Fails(t) ==
    /\ st[t] \in Working \ {"skipped"}
    /\ EndAs(t, IF t \in token THEN "cancelled" ELSE "failed")

\* Nothing is left of items that are over.
Forget(T) ==
    /\ token' = token \ T
    /\ via'  = [t \in Transfer |-> IF t \in T THEN None ELSE via[t]]
    /\ job'  = [t \in Transfer |-> IF t \in T THEN NoJob ELSE job[t]]
    /\ at'   = [t \in Transfer |-> IF t \in T THEN 1 ELSE at[t]]
    /\ name' = [t \in Transfer |-> IF t \in T THEN 0 ELSE name[t]]
    /\ pos'  = [t \in Transfer |-> IF t \in T THEN 0 ELSE pos[t]]
    /\ seen' = [t \in Transfer |-> IF t \in T THEN FirstVersion ELSE seen[t]]
    /\ from' = [t \in Transfer |-> IF t \in T THEN 1 ELSE from[t]]
    /\ late' = [t \in Transfer |-> IF t \in T THEN 0 ELSE late[t]]

\* The event pump reads the terminal event and forgets the item.
Finish(t) ==
    /\ st[t] \in Ended
    /\ st' = [st EXCEPT ![t] = "gone"]
    /\ live' = [live EXCEPT ![via[t]] = @ \ {t}]
    /\ Forget({t})
    /\ UNCHANGED <<callVars, version, disk, crossed, restarts, scene>>

-----------------------------------------------------------------------------
(* The files of a transfer *)

Goto(t, where) == st' = [st EXCEPT ![t] = where]

\* check_cancel.
CheckCancel(t) == t \notin token

\* The tree is listed, or the single file's size is read, and Started is sent.
\* A single download goes on to its file without reading the token.
Plan(t) ==
    /\ st[t] = "plan"
    /\ Goto(t, IF job[t].direction = "download" /\ ~job[t].tree THEN "look" ELSE "next")
    /\ seen' = [seen EXCEPT ![t] = version]
    /\ UNCHANGED <<callVars, live, token, via, job, at, name, pos, from, fileVars, restarts, scene>>

\* The source is replaced by another file of its name, or overwritten.
SourceChanges(f) ==
    /\ scene.changes /\ version[f] < Len(Size[f])
    /\ version' = [version EXCEPT ![f] = @ + 1]
    /\ crossed' = crossed \cup {<<f, n>> : n \in {m \in Name : disk[f][m] # None}}
    /\ UNCHANGED <<callVars, disk, late, workVars, live, token, st, via, restarts, scene>>

\* The loop over the files reads the token before each of them.
NextFile(t) ==
    /\ st[t] = "next"
    /\ IF CheckCancel(t)
       THEN /\ Goto(t, "look")
            /\ UNCHANGED <<callVars, live, token, via, workVars, fileVars, restarts, scene>>
       ELSE EndAs(t, "cancelled")

Target(t) == <<at[t], name[t]>>

\* The transfers that have a destination in hand.
Using(x) == {t \in Transfer : st[t] \in {"open", "read", "write", "flush", "skipped"} /\ Target(t) = x}

\* Those of them that have yet to truncate or to write it.
Writing(x) == {t \in Using(x) : st[t] \in {"open", "read", "write"}}

\* unique_name: the first name that is not taken.
UniqueName(taken) == CHOOSE n \in Name : n \notin taken /\ \A m \in 0..(n - 1) : m \in taken

\* A plausible bug: a partial file is always taken to be one chunk short.
PlanTransferByCount(p, existing, total, taken) ==
    IF existing = None THEN <<0, 0>> ELSE
    CASE p = "skip"      -> None
      [] p = "overwrite" -> <<0, 0>>
      [] p = "rename"    -> <<UniqueName(taken), 0>>
      [] p = "resume"    -> IF total = 0 THEN <<0, 0>>
                            ELSE IF Len(existing) >= total THEN None
                            ELSE <<0, total - 1>>

\* plan_transfer: the name to write and the chunks to keep; None is to leave the
\* destination alone.
PlanTransfer(p, existing, total, taken) ==
    IF existing = None THEN <<0, 0>> ELSE
    CASE p = "skip"      -> None
      [] p = "overwrite" -> <<0, 0>>
      [] p = "rename"    -> <<UniqueName(taken), 0>>
      [] p = "resume"    -> IF total = 0 THEN <<0, 0>>
                            ELSE IF Len(existing) >= total THEN None
                            ELSE <<0, Len(existing)>>

\* The size that a transfer's plan has of the file it is at.
Total(t) == Size[at[t]][seen[t][at[t]]]

\* The names of a file that are in use.
Taken(f) == {n \in Name : disk[f][n] # None}

\* upload_one, download_one: what is at the destination decides.  A stat that
\* fails counts as no file, and a listing that fails as an empty directory.
Look(t) ==
    /\ st[t] = "look"
    /\ \E existing \in {disk[at[t]][0], None}, taken \in {Taken(at[t]), {}} :
        LET f == at[t]
            plan == PlanTransfer(policy[via[t]], existing, Total(t), taken)
        IN IF plan = None
           THEN /\ Goto(t, "skipped")
                /\ name' = [name EXCEPT ![t] = 0]
                /\ crossed' = crossed \cup {x \in {<<f, 0>>} : Writing(x) # {}}
                /\ UNCHANGED pos
           ELSE /\ Goto(t, "open")
                /\ name' = [name EXCEPT ![t] = plan[1]]
                /\ pos' = [pos EXCEPT ![t] = plan[2]]
                /\ crossed' = crossed \cup {x \in {<<f, plan[1]>>} : Using(x) # {}}
    /\ UNCHANGED <<callVars, live, token, via, job, at, seen, from, version, disk, late,
                   restarts, scene>>

\* The source is opened, and the destination, which is truncated unless it is
\* resumed.
Open(t) ==
    /\ st[t] = "open" /\ Goto(t, "read")
    /\ from' = [from EXCEPT ![t] = version[at[t]]]
    /\ LET f == at[t]  n == name[t]
       IN /\ disk' = [disk EXCEPT ![f][n] =
                        IF pos[t] = 0 \/ disk[f][n] = None THEN <<>> ELSE @]
          /\ crossed' = IF pos[t] = 0 /\ Using(Target(t)) = {t} THEN crossed \ {Target(t)}
                                                               ELSE crossed
    /\ UNCHANGED <<callVars, live, token, via, job, at, name, pos, seen, version, late,
                   restarts, scene>>

\* A plausible bug: the token is read once per file.
ReadOn(t) ==
    /\ st[t] = "read"
    /\ IF pos[t] > 0 \/ CheckCancel(t)
       THEN \E v \in {from[t], version[at[t]]} :
            /\ from' = [from EXCEPT ![t] = v]
            /\ Goto(t, IF pos[t] < Size[at[t]][v] THEN "write" ELSE "flush")
            /\ UNCHANGED <<callVars, live, token, via, job, at, name, pos, seen, fileVars,
                           restarts, scene>>
       ELSE EndAs(t, "cancelled")

\* The chunk loop reads the token, then the source, whose end ends the file.  An
\* open source that was replaced is still what it was; one that was overwritten
\* is what it is now.
Read(t) ==
    /\ st[t] = "read"
    /\ IF CheckCancel(t)
       THEN \E v \in {from[t], version[at[t]]} :
            /\ from' = [from EXCEPT ![t] = v]
            /\ Goto(t, IF pos[t] < Size[at[t]][v] THEN "write" ELSE "flush")
            /\ UNCHANGED <<callVars, live, token, via, job, at, name, pos, seen, fileVars,
                           restarts, scene>>
       ELSE EndAs(t, "cancelled")

\* A chunk at a position of a file, whatever its length is by now.
Written(file, p, v) ==
    [i \in 1..(IF p > Len(file) THEN p ELSE Len(file)) |->
        IF i = p THEN v ELSE IF i <= Len(file) THEN file[i] ELSE 0]

Write(t) ==
    /\ st[t] = "write" /\ Goto(t, "read")
    /\ pos' = [pos EXCEPT ![t] = @ + 1]
    /\ disk' = [disk EXCEPT ![at[t]][name[t]] = Written(@, pos[t] + 1, from[t])]
    /\ late' = [late EXCEPT ![t] = IF t \in token THEN @ + 1 ELSE @]
    /\ UNCHANGED <<callVars, live, token, via, job, at, name, seen, from, version, crossed,
                   restarts, scene>>

\* The file is flushed and its metadata set; then the next file, or Completed.
Flush(t) ==
    /\ st[t] \in {"flush", "skipped"}
    /\ IF job[t].tree /\ at[t] < Len(Size)
       THEN Goto(t, "next") /\ at' = [at EXCEPT ![t] = @ + 1]
       ELSE Goto(t, "completed") /\ UNCHANGED at
    /\ UNCHANGED <<callVars, live, token, via, job, name, pos, seen, from, fileVars, restarts, scene>>

-----------------------------------------------------------------------------

\* The process dies and is started again: the map, the calls and the transfers
\* are gone, the destinations are as they were left.
Restart ==
    /\ restarts < scene.restarts
    /\ restarts' = restarts + 1
    /\ sidecar' = None /\ call' = [c \in Caller |-> "idle"]
    /\ policy' = [c \in Caller |-> "overwrite"]
    /\ live' = [c \in Caller |-> {}] /\ Forget(Transfer)
    /\ st' = [t \in Transfer |-> IF st[t] = "none" THEN "none" ELSE "gone"]
    /\ adrift' = {}
    /\ UNCHANGED <<version, disk, crossed, scene>>

Step(t) ==
    \/ Register(t) \/ Acquire(t) \/ Plan(t) \/ NextFile(t) \/ Look(t)
    \/ Open(t) \/ Read(t) \/ Write(t) \/ Flush(t) \/ Finish(t)

Next ==
    \/ \E c \in Caller : \/ PanelLooks(c) \/ AgentLooks(c) \/ DialFails(c)
                         \/ Dialled(c) \/ PanelInserts(c) \/ AgentInserts(c)
    \/ Disconnect \/ Restart
    \/ \E f \in File : SourceChanges(f)
    \/ \E t \in Transfer : Start(t) \/ Cancel(t) \/ Fails(t) \/ Step(t)

Spec == Init /\ [][Next]_vars

\* The worker of a transfer and its event pump are polled, and every await of
\* theirs is answered, with an error if nothing else.
FairSpec == Spec /\ \A t \in Transfer : WF_vars(Step(t))

-----------------------------------------------------------------------------
(* Properties *)

\* A version of a source, whole.
Whole(f, v) == [i \in 1..Size[f][v] |-> v]

\* Resume trusts the length of a partial file, over cancellations, failures,
\* stats and listings that fail, the conflict policies of several sidecars and
\* restarts of the process: a file that is finished is the source as it is now,
\* whole.  Excepted are destinations that hold something from before the source
\* last changed or that is somebody else's, or that were in hand while another
\* transfer had yet to write them, and files left alone by the skip policy or on
\* the word of a size that was read before the source changed.
FinishedIsWhole ==
    \A t \in Transfer :
        (/\ st[t] \in {"flush", "skipped"} /\ Target(t) \notin crossed
         /\ st[t] = "skipped" =>
                policy[via[t]] # "skip" /\ seen[t][at[t]] = version[at[t]]) =>
            disk[at[t]][name[t]] = Whole(at[t], version[at[t]])

\* files_cancel and closing the panel reach every transfer: one that runs and is
\* not cancelled is in the queue of the session's sidecar, however many calls
\* open and close sidecars meanwhile, with two exceptions.  The panel inserts the
\* sidecar it dialled over whatever took its place meanwhile, an agent's
\* sidecar too, and leaves the transfers of that one adrift; and so is a transfer
\* that was registered after its sidecar was closed.  An agent's call takes
\* nothing away.
TransfersCanBeStopped ==
    \A t \in Transfer :
        st[t] \in {"queued"} \cup Working /\ t \notin token \cup adrift => via[t] = sidecar

\* A cancelled transfer writes at most the chunk it had already read.
OneChunkMore == \A t \in Transfer : late[t] <= 1

\* Every transfer that was started has its end and leaves the queue.
EveryTransferEnds == \A t \in Transfer : st[t] = "picked" ~> st[t] = "gone"
=============================================================================
