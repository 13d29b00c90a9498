# A TLA+ verification of DeskVNC's control and session core

DeskVNC is a remote desktop viewer (RFB/VNC, RDP, SSH and its own Boundary
protocol) in which a person and several software agents drive the same remote
machines. This directory holds TLA+ modules for the part of it where who may
act, in what order and after which failure is decided: the control lease and
its board, the viewer's input path around them, the numbered input gate, the
supervised session with the RFB attempt inside it, the agent plane's dispatch,
the SSH session, file transfers, and a computer shared by invitation or left
open for helpers. TLC checks the modules on small instances; TLAPS proves every
safety property that the passing runs check for all of them.

`PROJECT.json` maps every definition to the lines it models, lists the runs,
their mutants, the findings, the hazards and the theorems.

## 1. The system

### 1.1 Components, state, operations

| Component | State it keeps | Operations | Talks to |
|---|---|---|---|
| `agent-lease` lease (`lease.rs`) | phase, holder with four instants, pending preemption, queue, panic backoff, contention clock, id counter | acquire, release, promote, cancel_wait, force_release, confirm_release, set_connected, note_intent, renew, tick, fence, status | called by the board; returns transitions that oblige the caller to release all input |
| `agent-lease` board (`board.rs`) | one lease per session, mute, "not now" per session and agent | ask, release, input, person_input, yield_to, not_now(_all), mute, unmute, tick_all, forget_party, remove | one lock in `AgentState`; the viewer's commands, the agents' RPC server and a 500 ms ticker call it |
| viewer agent control (`src-tauri/src/agent`) | the board, attachments, event wiring | lease calls + `settle`, requests, `limb_command` | settles the board's answer by `try_send`ing `ReleaseAllKeys` to the session's channel |
| viewer input path (`commands/session.rs`) | per session gate `InputOrder`, last pointer mask | `send_input` | person_input on the board, then the session's channel |
| `remote-core` supervisor (`reconnect.rs`) | attempts, chained reattempts | supervise, classify, wait_backoff | owns the session task; events to the shell, commands from it |
| `vnc-core` session (`session/`) | settings, credentials, deferred commands, pressed keys, stream position | dial, prompt, run loop, update, release input | inside the supervisor |
| `agent-plane` (`dispatch.rs`, `lowering.rs`) | per limb: the lease, the running intents with their cancellation, who waits for which answer | dispatch (lower, walk, wait for room, synthesise a release), serve natively, cancel, honour a lease change | the session's channel, the driver's answers; called by `dvv` and the viewer |
| `ssh-core` (`session.rs`, `driver.rs`, `exec.rs`) | attempts, methods left, terminal size, PTY geometry, two command channels, exec tasks | supervise, ask for credentials, open, pump, back off, carry commands, serve an intent | same command and event vocabulary as the other drivers |
| `vnc-files` with `commands/files.rs` | sidecar per session, a queue with slots and tokens, files on both ends | connect (panel, agent), disconnect, upload, download, cancel | a second SSH connection, the local disk |
| `boundary-session` (`session.rs`) with `commands/support.rs` | knocks, the question put to the person, permission with a generation, tools, input in flight, what is held down | knock, decide, serve, set control, set tools, stop; the desktop's thread | the helper's driver (`boundary-driver`), the window |
| `boundary-session` (`unattended.rs`) with `commands/support.rs` | access file and its copies, throttle, seats, questions, sessions | knock, authorize, ask, serve, end; switch on and off, remove a helper, set a password | the window over a channel of notices |
| `rdp-core` | its own attempt inside the shared supervisor | | same vocabulary |
| `limb-core`, `dvv` | vocabulary; front ends of the plane | | plane, viewer |
| `vnc-discovery`, `vnc-store`, `vnc-input-capture` | seen hosts, database and vault, keyboard grab | | shell |
| codecs, PDUs, cryptography, transports, pixels, benchmarks, `ui` | | | |

### 1.2 What is hard here

* **Interleaving after an unlock.** The board is one mutex, but what its answer
  obliges the viewer to do happens after the lock is dropped, on a bounded
  channel, while other requests run.
* **Time.** A lease has ten timers; what one caller sees depends on which of
  them another caller's `tick` ran first. A waiter that stops asking expires, a
  disconnected holder has a grace, a panic has a backoff.
* **Unordered calls.** The shell runs `send_input` calls on a thread pool; a
  gate with a condition variable and a timeout restores the order.
* **One channel, five readers.** A session's command channel is read by the
  credential prompt, the run loop, the middle of an update, an event emission
  that waits, and the backoff; each treats the same command differently, and
  while a dial runs nobody reads it.
* **Failure anywhere.** A link may drop inside an update, with commands parked
  and a key down; a dial may be cancelled; the receiver of events may go away;
  the process may end in the middle of a file.
* **Looks before waits.** The plane looks at the lease and then waits for room;
  a file command looks for a sidecar and then dials; the window reads a question
  and answers it later; a password is hashed from a copy of the settings. What
  was seen may be gone when it is used.
* **Permission in flight.** A helper's key passes a stream, a worker, a bounded
  channel and a thread; the person may take control back at any of them.

### 1.3 What makes each part correct

* Lease: one driver at a time, nothing of the previous driver's left down, no
  party in two places, preemption only upward and above the floor, every state
  that waits has something that ends it, and nobody keeps an unused lease.
* Board: no half-done handover, a person in use of a machine is never driven
  over, a person never queues, a refusal stays a refusal.
* Viewer: the sweep the board owes is on the wire before the next driver's
  input; the person's input always gets through.
* Input gate: no lost wakeup, order kept or the gap logged, state changes never
  shed, no call stuck.
* Session: bounded dialling, an announced end, a Disconnect that is obeyed unless
  the server stalls, no key left down by an end the session chose.
* Plane: every intent settles once and whatever the session does; an answer is
  not missed; what a fenced grant still gets out is bounded and swept.
* SSH: an intent is answered once and lost only with a channel whose reader ends, the local terminal
  is handed back, the PTY has the window's size, a disconnect is obeyed.
* Files: a finished file is whole, a running transfer can be reached, a
  cancelled one stops, none waits for ever.
* Help and Door: what is down belongs to the permission in force and is lifted
  with it, tools go to the helper they were ticked for, guesses are bounded, a
  session let go is over, nobody is left knocking.

## 2. The modules

| Module | Models | Kind |
|---|---|---|
| `LeaseOps` | `agent-lease/src/{lease,party,clock,transition,error}.rs`: the lease as a record, every method as an operator from a lease and an instant to a lease and an answer | operators |
| `LeaseClock` | the clock that calls on leases carry, and the bounds of model checking | shared by the next ones |
| `Lease` | one lease, any callers in any order, the clock, the input down on the limb, an obligation honoured late | state machine |
| `LeaseForever` | the same with time unbounded | state machine, liveness |
| `BoardOps` | `board.rs`: what one call does to one session's lease (tick, act, confirm), with what the viewer reads off the answer | operators |
| `Board` | the board over several sessions, with the mute and the refusals | composes `BoardOps` |
| `Viewer` | `agent/control.rs`, `agent/requests.rs`, `limb_command`, `send_input`: board call, settle and send as separate steps of concurrent requests, over a bounded channel and a driver | composes `BoardOps` |
| `Lock` | what a lease promises its limb: one driver, put down before it is taken up, nothing inherited | abstract specification, implemented by `Lease` |
| `InputOrder` | the gate, its guard and the command loop of `send_input` | state machine |
| `Session` | `remote-core/src/reconnect.rs` with `vnc-core/src/session/*` and the credential prompt | state machine |
| `Plane` | `agent-plane/src/{dispatch,lowering}.rs`: walks, sweeps and native intents on one limb over the session's channel; the lease is what `Lock` promises | state machine |
| `Ssh` | `ssh-core/src/{session,driver,exec,options}.rs` | state machine |
| `Files` | `commands/files.rs` with `vnc-files/src/{queue,session,transfer}.rs` | state machine |
| `Help` | `boundary-session/src/session.rs` (host), `commands/support.rs`, `boundary-driver` | state machine |
| `Door` | `boundary-session/src/unattended.rs`, `commands/support.rs` | state machine |
| `MC*` | instances for TLC | |
| `AgentLeaseProofs` | what each method of the lease does to a sound lease, and from it the theorems about `Lease`, `Board` and `Viewer` | proofs |
| `InputOrderProofs`, `SessionProofs`, `PlaneProofs`, `SshProofs`, `FilesProofs`, `HelpProofs`, `DoorProofs` | the theorems about the module of that name | proofs |

### 2.1 Correspondence and abstraction

* **LeaseOps / Lease.** A lease is a record with the fields of `struct Lease`;
  `Option` is `None`. Each method is an operator returning the new lease, the
  outcome, whether a release is owed, or the refusal. Labels, reasons and the
  text of errors are left out. The saturating `u64` millisecond clock is a
  natural number: the saturation at 2^64 ms is not reachable in practice.
  `Lease` adds what the crate asks of its caller: `Honour` sweeps the limb and
  then confirms; between a call and its sweep anything may happen. `pressed` is
  who has input down on the limb, changed by `Press` (`note_intent`, allowed by
  `fence`), `LiftOwn` (`Fencing::ReleaseOnly`) and `Honour`.
* **LeaseForever.** Instants matter only by their distance from now, so instead
  of the clock growing, every recorded instant moves back until it is older than
  every timer. This makes the state space finite with time unbounded.
* **Board.** A session without a lease and one with a new lease answer alike,
  so the map is total. `touched` records the person's last input per session
  and exists only for a property. `not_now_all`, `mute`, `forget_party` and
  `tick_all` are single steps, as they are one call under one lock.
* **Viewer.** Each actor (agents, the person, the ticker) has at most one
  request, which is at `settle`, `send` or `parked`. A behaviour starts in a
  scene: who takes part, the channel's bound, whether requests overlap and
  whether the driver keeps up. A party has one key.
* **InputOrder.** The calls are `1..N`; each step of `admit` that another task
  can interleave with (register, check, sleep) is an action, and so are the two
  halves of `done`, which moves the gate under its lock and notifies after it.
  The channel and the
  senders that wait for room form one sequence, since tokio serves waiting
  senders in order. `Notify` wakes every registered call (`notify_waiters`).
* **Session.** A setting is a boolean per name, the keyboard one key, and time
  is what it decides: a connection has been up for `STABLE_UPTIME` or not, a
  sleep ends. `cancelled` stands for the token and for the last sender being
  dropped, which take the same exits. `stalled` is a server that neither sends nor
  reads and keeps the link up, which it may be from the security handshake on:
  neither that handshake nor the run loop has a deadline. What holds the key down
  (`pressed`) outlives its connection: only `LetGo` (`release_all_input`) lifts it,
  and an end by error (`Breaks`) does not. `dials` and `broken` are history. The
  redirection is RDP's (`server_redirection`); the supervisor's code is shared.
* **Plane.** An intent is its plan: a key down and up, a move, a click, a drag
  with a point between, or one command the driver serves itself. Each look at
  the lease, each wait for room, each command of a sweep and each answer is a
  step of its own. The lease changes by itself, as `Lock` allows, and every
  change starts an `honour`. The channel holds at most its bound; behind it
  stand the sweeps, which wait with `send`. A deadline may pass whenever
  something waits for it. `late`, `madeUp`, `unheard` and `logged` are history.
* **Ssh.** A size is a number and 0 is a hidden window; what is typed is a
  command; the private modes of the terminal are one bit. A dial is two phases,
  the connect with its timeout and the authentication without, and what is typed
  is under way (`writing`) until the server makes room in its window. `PumpSends`,
  `PumpFails` and `Shutdown` are the carrier between the two channels. What was
  in a channel when its reader ended is recorded in `dropped`.
* **Files.** A sidecar is named after the call that dialled it, so one that was
  displaced from the map lives on in its transfers. A file is the sequence of
  its chunks, each of a version of the source, an older file's or a hole; it may
  be empty. The source may be replaced or overwritten at any time
  (`SourceChanges`): the plan keeps the sizes it was made from (`seen`), the copy
  reads what it has open (`from`). A stat or a listing that fails is a file, or a
  directory, that is not seen (`Look`). Reading and writing a chunk are two steps,
  and the token is read where `check_cancel` is. `adrift`, `crossed` and `late`
  are history: they mark where the properties do not apply, and 3.4 says what
  happens there.
* **Help.** A generation is a number, as in `Permission`. The worker (`hand`),
  the channel and the thread (`desk`) are the places input passes. The window
  sees the worker's events when it polls, so `prompt` may hold a question that
  was withdrawn; so may the person's answer be, which is on its way (`click`) for a
  time and lands on the question the window holds by then. `ticked` records whose
  tools the person allowed by the question they saw, `mistaken` who got another's
  tick; both are history. The worker's channel of events, of 32, has no bound in
  the model: the window empties it every 150 ms, and only a helper that knocks
  fills it, one event a question. Emitting `Connected` and reading the permission are one step.
* **Door.** A listener is a number; the tasks of a stopped one remain. The
  throttle is locked while one task's password is worked out and a wrong one is
  counted and punished; forgetting a failure is a step. The access file, the window's access and the copies that `ask` and
  `support_set_password` work on are four variables, because the code lets them
  differ.

External, modelled from use: tokio's `mpsc` (`try_send`, `send`, `recv`) and the
receiver of the session's events.

## 3. What the runs check

### 3.1 Runs that pass

| Run | Instance | States | Shows |
|---|---|---|---|
| `lease` | 2 agents (one ranked above the other), 1 person, time 0..3, ids to 4 | 400,733 | `NoInheritedInput`, `NoneSoonerThanForecast`, `PanicHolds`, `FloorHolds`, and `ImplementsLock`: every step of the lease is a step of `Lock` |
| `lease_forever` | 2 agents of one rank, 1 person, unbounded time | 32,350 | `ForgottenLeaseFrees`, `WaitersGetTurns` |
| `board` | 2 agents, 1 person, 1 session, time 0..4, timed mutes of 2, symmetric agents | 328,423 | `HandoversComplete`, `PersonKeepsTheWheel`, `RefusedStayOut` |
| `viewer` | 2 agents, requests that do not overlap and a driver that keeps up; or 1 agent and 1 person on a channel of 1, everything interleaved, time 0..3 | 732,786 | `AgentsInTurn` (no agent acts while another one's key is down), `PersonGetsThrough` |
| `input_order` | 3 calls (one does not decode), channel of 1, another sender | 589,968 | `NoMissedTurn`, `OvertakingIsLogged`, `ChangesAreKept`, `EveryCallReturns` |
| `session` | 2 settings, 1 retry, chain of 1, 2 prompts, 3 commands of any kind, a server that may stall | 503,681 | `EndIsAnnounced`, `DialsAreBounded`, `LeavesNothingDown`, `DisconnectIsObeyed` |
| `plane` | 2 intents of 2 grants (a drag and a key, a click and a native one, a move and a native one), 2 sweeps, 2 lease changes, channel of 2 with 1 reserved | 506,146 | `AnswersAreHeard`, `OneStraggler`, `SettledLetsGo`, `SweptInTheEnd`, `EveryIntentSettles` |
| `ssh` | 3 sizes, 1 fallback method, 1 attempt, channel of 1, 2 commands of any kind | 137,152 | `IntentsAreAnswered`, `TerminalHandedBack`, `PtyHasTheSize`, `DisconnectIsObeyed` |
| `files` | 3 calls that open a sidecar, 2 transfers, a tree of 2 files, one of 2 chunks that may grow to 3 and one empty; scenes: everybody opens at once, every policy, resuming over a restart, the source changing | 560,410 | `FinishedIsWhole`, `TransfersCanBeStopped`, `OneChunkMore`, `EveryTransferEnds` |
| `help` | 2 helpers at the door of whom 1 or 2 can send commands; or 1 driving over a channel of 1, with 2 presses and 2 changes of mind or 2 events of any kind and 1 change | 874,466 | `HeldIsCurrent`, `ToolsAreTheirs`, `TakenBackIsLifted`, `EveryKnockIsAnswered` |
| `door` | 2 helpers, 2 listeners, 1 seat, 1 failure, notices of 1; scenes: guessing, asking, changing the settings | 383,972 | `GuessesAreBounded`, `LetGoIsOut`, `KnocksAreAnswered` |

**Why the bounds are enough for the cases to happen.** Every timer of the lease
fits in the clock's range or runs out within it, and they differ, so each can
fire first and two of them in either order; three parties are the least with
which one is preempted while another waits; a queue of two fills. On the board
two agents are needed for one to be refused while the other waits. Sessions
share only the mute, and every property of the board is about sessions a person
holds, where the mute does not depend on another session; so one session is
enough for them. A channel of one slot is always the bottleneck, so shedding,
waiting and dropping all occur. Three numbered calls are the least with a middle
one, and a call that never arrives is a behaviour of every run, since arrivals
are not fair. `MaxAttempts = 1` and `MaxChained = 1` let failures and
redirections alternate, and three commands put a retry, a disconnect and one
more in every order around the dial. In `plane` a channel of two with one
reserved has no room, room, and only the reservation; two changes give a grant
the wheel and take it away, and two sweeps overlap. In `ssh` two commands
fill the inner channel and the carrier's hand. In `files` a file of two chunks can be cut in the
middle and resumed onto a longer source, and two transfers share a destination. In
`help` two presses are one under one permission and one under the next, and two
changes take control back and give it again; two helpers are what it takes for an
answer to land on the wrong question. In `door` two
guessers race for one failure, two helpers for one seat, and the second listener
starts while tasks of the first are still there. For each property there is a
mutant of the modelled code that breaks it under the same bounds.

Deadlock is checked except in `plane`, `files`, `help` and `door`, where every
intent settles, every transfer ends and every helper leaves, and nothing need
follow.

### 3.2 Fairness

* `LeaseForever`: time passes; the viewer's ticker runs every 500 ms for the
  life of the process (`Clock`); a caller sends what it owes (`Honour`). Nothing
  is assumed of parties. The two properties restrict the parties' behaviour in
  their premise (`Quiet`, `Patient`) rather than in the fairness.
* `Viewer`: a request that left the board's lock runs on, and the driver drains
  the channel. Only the person's send waits, and it waits for the driver.
* `InputOrder`: every step of a call that can run does; a timeout fires; the
  session takes commands or ends.
* `Session`: the task is polled, a dial ends until the server has made its offer
  (`with_timeout`), a cancelled one at once, and a sleep ends. From there on a
  server that has not stalled answers the handshake (`authenticate_with_trust` is
  not timed) and finishes an update it has begun. Nothing is assumed of one that
  has stalled, which `DisconnectIsObeyed` therefore has in its conclusions; a
  person may never answer a prompt.
* `Plane`: a task is polled and a timer fires. The wait for room is over at its
  deadline however often room came and went meanwhile, hence strong fairness of
  `Block`. Nothing is assumed of the session.
* `Ssh`: the carrier and the supervisor are polled, a connect ends
  (`connect_only` is timed), a cancelled dial and a sleep end. Nothing is assumed of
  the authentication, the probe, the opening of a PTY, a write or the channel of an
  exec, none of which has a timeout; `DisconnectIsObeyed` has them in its premises,
  the authentication only for a disconnect that has not yet cancelled the token.
* `Files`: the worker of a transfer is polled and what it awaits is answered,
  by an error if nothing else.
* `Help`: the desktop's thread goes round, the worker's tasks and timers run.
  Helper, window and person need never do anything.
* `Door`: the tasks run, their timers fire and the window polls, as it does as
  long as it exists.

### 3.3 The run that the code refutes

`viewer_race` states what a comment of `board.rs` says of the viewer (that it
honours the obligations before it forwards anything of the new holder's), and
TLC finds two overlapping requests where the new holder's key is queued before
the old holder's sweep, which is sent after the lock. `PROJECT.json` quotes the
line. `AgentsInTurn` in `viewer` is the other half: with requests that do not
overlap and a channel with room the comment is right.

### 3.4 Seen while modelling, without a run of its own

These follow from the modelled code and are recorded for whoever extends it. Five
of them contradict a comment of the code; they are findings in `PROJECT.json`, and
the comment of the property that says what does hold quotes the line:
`LeavesNothingDown` (an error leaves keys down), `OneStraggler` (commands behind a
force release), `IntentsAreAnswered` (intents dropped with a channel),
`TransfersCanBeStopped` (a sidecar displaced by the panel) and `ToolsAreTheirs` (an
answer that lands on another's question).

*Lease and board*

* A person who asks the lease itself (not the board) during a handover or a
  preemption is queued, and stays queued when an agent then drives
  (`lease.rs` `contest`).
* `confirm_release` sets `Held` whether or not the holder is connected
  (`lease.rs:508`), so one whose transport dropped during its handover
  dispatches once it is confirmed; the comment at `lease.rs:540` says a dropped
  holder does not keep dispatch.
* `changes_in_ms` may name a contended deadline that disappears with its waiter:
  it is never too late (`NoneSoonerThanForecast`), but nothing need change then.
* `yield_to` a machine the person is still only taking calls the preemption off
  and finds nothing of theirs to release, so the previous agent keeps driving
  (`board.rs:214`; the comment above it says the yield is granted at once).

*Viewer and input gate*

* `settle` drops the sweep when the channel is full (`control.rs:493`); sweeps
  for a preemption also when the person already has a key down
  (`control.rs:452`); and does not sweep when the agent lapses in the very call
  that grants the person (`control.rs:455`).
* `mute_requests` reads the clock before it takes the board's lock
  (`requests.rs:290`).
* A call that arrives after its session's gate was removed makes a new gate,
  which waits for number 1 and which nothing removes (`commands/session.rs:955`).

*Session*

* An agent's intent is dropped unanswered in a prompt, in a backoff, and when
  parked in a run loop whose link fails; so is a setting parked there.
* `absorb_while_disconnected` keeps quality, view only and the size; always
  refresh and scancodes set in a backoff are dropped (`reconnect.rs:126` against
  the comment at `connection.rs:36`).
* During an update `SetViewOnly` is parked and a key sent after it goes out at
  once (`run_loop.rs:1836` against the comment at 887).
* A `ReconnectNow` sent during a dial takes down the connection it produced.
* A connection that ends by error leaves down what it held: `?` in `run` passes
  `release_all_input` by (`run_loop.rs:843-845`, 858, 878, 891), whether the link is
  lost, a message cannot be parsed on one that works, the receiver of events is
  gone or RDP redirects a session. The next connection starts with an empty set
  and does not lift it. The comment at 837 reads "never leave a stuck modifier, or
  a stuck mouse button, behind".
* The security handshake has no timeout and does not read the channel
  (`connection.rs:263`): over a server that stalls in it a `Disconnect` waits for
  ever, and only giving up the handle ends the session. A server that stalls in an
  update, or stops reading when a release is due, keeps even a cancelled session.

*Plane*

* A command that waits for room is sent after the fence fell
  (`dispatch.rs` `send_step`), and so is the release made up for a drag
  (`dispatch.rs:852`), which asks no lease: two commands of a drag, one of anything
  else. `dvv/src/plane.rs:3948` says "nothing more of the holder's reaches the wire
  from this instant". `OneStraggler` says how much may.
* The settlement of a drag says a release was made up for it, and counts no
  dropped command, also when that release found no slot (`dispatch.rs:867`).
* A cancelled or blocked type or click leaves its key or button down until the
  next sweep; only a drag is let go of by the walk itself.
* `honour` completes the hand over also when the release did not go, and may
  complete one another change started.

*SSH*

* Keys typed while the session dials or opens a PTY go into the new shell.
* A stop asked for in a backoff is not announced as `Disconnected`
  (`session.rs:234`).
* What is in a channel when its reader ends is dropped, intents among it, though
  the shell may still listen; `driver.rs:255` and `exec.rs:276` say that R28 has no
  exception. `IntentsAreAnswered` says that nothing else is lost.
* The authentication has no timeout (`connect.rs:291`); it sees the token, but the
  channel is not read meanwhile, so the carrier waits with a `Disconnect` for room
  in a full one before it cancels the token (`session.rs:130`).
* The probe, the opening of a PTY and a write into a full window have no timeout
  and see no token; nor have the opening of an exec's channel and the exec request
  (`exec.rs:309`).
* A resize that arrives at a prompt is dropped.

*Files*

* `files_connect` inserts whatever it finds (`files.rs:390`): what another call of
  the panel, or an agent, opened while it dialled is displaced, and its transfers
  run on while `files_cancel` answers false for them; so does a transfer that was
  started before a close and registered after it. The comment at 1055 names the
  first as what inserting unconditionally would do, and avoids it for the agent's
  calls only.
* A download cancelled while it was queued still waits for its slot and then
  truncates its destination.
* Resume goes by length alone, so it takes somebody else's partial file for its
  own, and glues the tail of a source that has changed to the head of what it was;
  both are reported complete. `FinishedIsWhole` excepts those.
* A stat that fails counts as no file (`vnc-files/src/session.rs:506`, 675): the destination is
  truncated under every policy, skip among them. A listing that fails counts as an
  empty directory (`session.rs:793`): rename then overwrites the file it was to
  spare. What is written is whole in both cases.
* `persist_pins` takes its snapshot under the lock and writes outside it.

*Help and Door*

* `support_answer` carries no helper, so an answer lands on the question the
  window holds by then: a tick, and a yes, meant for a helper that left go to the
  next one. `boundary-session/src/session.rs:680` says that a second prompt does not take a first one's
  place under the person's hand. `ToolsAreTheirs` has this one exception.
* A change of control between the `Connected` event and the first look at the
  permission is not passed on to the helper (one step in the model).
* `support_set_password` hashes a copy of the settings and stores it over what
  was changed meanwhile: a removed helper or a door that was switched off comes
  back. `ask` and the window likewise overwrite each other's saves. `Door` has
  these steps; the properties hold in spite of them.
* Removing a helper does not end its session; a listener that is started again
  has a fresh throttle.

## 4. What is proved

TLAPS proves the theorems for every value of the constants that satisfies the
named assumptions, each of which TLC evaluates:

* `PartyAssumption`, `PolicyAssumption`: kinds and priorities are functions on
  the parties, and no timer is zero.
* `FloorAssumption`: the timers that free an unused lease are no shorter than
  the floor under a grant, as in the policies of the code. With a longer floor
  `FloorHolds` is false: an idle holder loses the lease before its floor is over.
* `PersonAssumption`: the board has one person, who outranks the agents; the
  agents have one rank, and the person's idle time is no longer than the lease's.
  This is how the viewer makes its parties and its policy. With ranks among the
  agents one agent's preemption could be under way when the person acts, and the
  board would refuse the person's input.
* `PlaneAssumption`: finitely many intents and sweeps (the bound of the line is
  a count of them), and a reservation below the channel's bound.
* `BoundAssumption`, `MuteAssumption`, `OrderAssumption`, `SessionAssumption`,
  `SshAssumption`, `HelpAssumption`, `FilesAssumption`, `SizeAssumption`,
  `DoorAssumption`,
  `ViewerAssumption`: the bounds are numbers, no channel has room
  for nothing, and `None` is none of the values it stands beside.

Every inductive invariant below was first checked by TLC on the instances of
section 3.

**Lease** (`AgentLeaseProofs`). The invariant `Inv` is the conjunction of `Sound`
(the lease is a record of its type whose phase, seats, preemption, panic backoff,
contention clock and grace agree, and whose grant is neither in the future nor
after the holder's last intent), `LimbAgrees` (in every phase where the holder has
the limb to itself, what is down is its own) and `HandoverIsOwed`. None of the checked
invariants is inductive alone: that nobody waits on an unheld lease needs the
contention clock to agree with the queue; `NoInheritedInput` speaks of `Held`
only, and a call that returns to `Held` from a grace or a called-off preemption
needs it of those phases too; and that a preemption respects the floor needs the
grant to lie in the past. There is one lemma per method (`Orderly`:
sound in, sound out; nobody comes to drive who did not drive before; a handover
that starts owes the sweep), so the step is one case per action. The part of the
module about `Lease` cites `PartyAssumption` and `PolicyAssumption` only, and
`FloorAssumption` for the floor. From `Inv`
follow `TypeCorrect`, `NothingInherited`, `NoStalledHandover`, `PhasesAgree`,
`OneSeat`, `PreemptionsEarned`, `ContentionAgreed`, `GraceBounded`,
`ForecastKept` (no tick before the forecast of `status` moves the wheel, by cases
over which of the timers a phase has running) and the action properties
`PanicIsHeld` and `FloorIsKept`. The last needs the grant not to lie after the
last intent, so that a timer counted from the intent cannot run out before the
floor, which is counted from the grant.

`LeaseIsALock` is the refinement: with the driver mapped to the holder that the
fence lets through and `down` to what is pressed on the limb, the initial state
is `Lock`'s and every step of `Lease` is one of `Take`, `Lose`, `Press`, `Lift`
or a stutter. `Inv` is needed to see that a step which makes somebody driver
leaves only their own input down.

**Board** (`AgentLeaseProofs`). `BoardTypeCorrect`, `HandoversAreComplete`,
`PersonIsSafe` and the action property `RefusalsLast`, over the same lemmas. A
call of the board is a chain of lease calls on one lease, so the lemmas are about
a relation between the lease before and after (`Moved`: it is `Steady`, nobody but
the caller came into line, and a person who used the session neither lost it nor
got it), which is shown of each operator of `BoardOps` and composed. `Steady` adds
to `Sound` what only the board promises: no grace, no panic backoff, no
preemption but the person's, and no person in line; `Fine` adds, for the time
between calls, that no handover is open and that a person who used the session a
moment ago keeps it. That is not inductive without the last two of `Steady`: a
call that resolved an agent's preemption, or took a queued person's turn away,
would break it.

**Viewer** (`AgentLeaseProofs`). `ViewerTypeCorrect`, and the action property
`AgentsTakeTurns` (`AgentsInTurn`), whatever the agents, the capacity and the
policy. `settle` does not see the leases; it sees an answer built up over several
lease calls, and the theorem needs that no wheel leaves an agent without the
answer saying so. `Numbered` (grants are numbered in order) and `Tells` (a lease
call that moves the wheel says something changed, and the id differs) are shown
of each lease call; `Reports` composes them along a board call. Then `Turns`
follows the sweep: nobody's key is down but the holder's, or a request still owes
the sweep, or the sweep is the first command on the channel. It is only kept
while requests do not overlap and the driver keeps up; `viewer_race` is what
happens otherwise. The person's calls are covered too, as far as the lease's
soundness goes.

**InputOrder** (`InputOrderProofs`). `TypeCorrect`, `NoLostWakeup`, `OrderIsKept`
and `ChangesKept` for any number of calls, any bodies and any capacity. That
commands keep their order is not inductive; `Gate` keeps the reason: a call that
is done has moved the counter past itself, and a number the counter has passed,
or that an admitted call is ahead of, belongs to a call that is done or that
some later call has logged it stopped waiting for. `QueuedIsAdmitted` adds that
what is queued is from admitted calls. `ChangesAreKept` is stated without folds:
each command has a place (its call and its number in the call), what is queued is
in the order of the places, and a command that was dealt with and is not queued
has the buttons of the last pointer command before it. `MaskIsLast` is why the
shedding is right: as long as no call overtook another, `last_pointer_mask` is
the mask of the last pointer command dealt with.

**Session** (`SessionProofs`). `TypeCorrect`, `EndAnnounced`, `DialsBounded` and
`NothingLeftDown` for every policy, chain bound, prompt bound and number of
commands. The last says of an end by error only what the code does (`broken`); it
needs that a connection that is up has not ended (`Unbroken`). The bound on dials is not inductive: `Ladder` strengthens it to
`dials <= attempts * (MaxChained + 1) + chained + 1` while an attempt is under
way, with both counters below their limits.

**Plane** (`PlaneProofs`). All four safety properties, from two invariants. The
first, `Inv`, gives `TypeCorrect`, `AnswersFindTheirIntent` and
`NoSecondStraggler`. `OnPlan` keeps a walk inside its plan and a native intent
listening before it sends; `AgentOnce` and `Listening` follow its one command
from the channel to the answer, so that an answer without a listener is a late
one; `Straggling` says that whoever got a step out after the fence is not
waiting for room, which only the look at the lease lets it do again, and `ReleasedOnce`
that a release is made up for an intent once, at its end, and for a drag only. `OneWait`
says that a task stands once in the line for a slot, and by the pigeonhole
principle (an injection from the places behind the bound into the tasks) the line
is bounded, as `TypeOK` says.

The second, `Hands`, gives `NothingStaysDown` (`SettledLetsGo`) and
`EveryChangeIsSwept` (`SweptInTheEnd`). Both properties speak of `Coming`, what
will be down once the channel has drained. It is defined without recursion: what
is down or pressed on the channel and not released afterwards. `RemainingIsServed`
proves that this is what serving the commands one at a time comes to. Neither
property is inductive, since commands may still leave the line (a deadline) and
the releases of others may come first. `OwnReleases` counts only an intent's own
releases and says where a walk must be (`MayHold`) for something of its own to be
left; `SweepsOwed` counts the releases nobody takes back and says that a sweep of
that part is still to be sent. `Patient` is why letting in the first of the line
keeps both: whoever waits behind the bound waits with a release, so no press is
behind it.

**Ssh** (`SshProofs`). `TypeCorrect`, `NoIntentIsLost`, `TerminalIsHandedBack`
and `SizesArrive` for any sizes, methods, attempts, capacity and commands. An
intent is in one of five places (`OnePlace`: outer channel, hand, inner channel,
exec tasks, answered), has a number that was given out (`Numbered`), and is in one
of them or dropped (`Accounted`), the last only when the session or the carrier has
ended (`OnlyAtTheEnd`). For the size the invariant follows the last
resize from place to place: while one is on its way the last of them is what the
window reported, and with none on its way the supervisor believes in it.

**Help** (`HelpProofs`). `TypeCorrect`, `NothingOfOldIsDown` and
`ToolsToTheRightHelper` for any helpers, scenes and channel. `Generations` orders
the generation of the thread, of what is down and of the permission. The tools
need `Questions`: an answer may be given to a question that was withdrawn, and
what keeps its tick from the next helper, unless it lands on that one's question, is
that a question the window holds is the worker's only once no other is on its way
(`Line`: a helper knocks once and is asked about once).

**Files** (`FilesProofs`). `TypeCorrect`, `WholeWhenFinished`,
`RunningCanBeStopped` and `CancelledStops` for any number of opening calls,
transfers, files, versions, chunks and restarts. `Listed` (a transfer is in the
queue of the sidecar it runs over) and `Settled` (whoever has a sidecar has one
whose call is over) keep a transfer within reach: what an insert displaces is
recorded as it happens, and nothing else comes between; `Stopping` says where a transfer that
wrote a chunk after its cancellation must be. `AllKept` is why a finished file is
whole: a destination that was not `crossed` is a prefix of its source as it is now,
whoever has yet to write it has it alone, stands at its end and reads that version,
and whoever is done with it finds it whole. The renaming policy needs a counting argument: the names taken are
no more than the transfers that can take no other (`NamesLast`), so whoever looks
finds a free one. The first attempt failed for a good reason: a transfer that skips
a complete file while another has yet to write it was not recorded in `crossed`,
which takes three transfers to show and so lies outside the instance of 3.1; the
model now records it.

**Door** (`DoorProofs`). `TypeCorrect`, `GuessingIsBounded`, and two promises of
the code that no run asks about, `OneAtATime` (a listener puts one question at a
time) and `SeatsSuffice` (a listener serves no more helpers than it has seats),
for any helpers, listeners, seats and failures. The counters are not bounded by
their own guards: a failure is counted long after the throttle was looked at.
What is inductive is who has which lock (`Placed`: every task belongs to a
started listener; `Alone(Throttling)`, `Alone(Questioning)`: one task of a
listener is in the stages that hold a lock; `BelowTheLimit`: whoever works a
password out found room for its failure).

**Only model-checked.** Liveness (`ForgottenLeaseFrees`, `WaitersGetTurns`,
`PersonGetsThrough`, `EveryCallReturns`, both `DisconnectIsObeyed`,
`EveryIntentSettles`, `EveryTransferEnds`, `TakenBackIsLifted`,
`EveryKnockIsAnswered`, `LetGoIsOut`, `KnocksAreAnswered`), which needs fairness
and ENABLED, out of this prover's reach. Every invariant and every action property
of a passing run is a theorem, and so is the type invariant of every state machine
but `LeaseForever`, which is `LeaseOps` under another clock.

## 5. Hazards

`PROJECT.json` lists the ones that matter most at their lines, with the
properties that would catch each. Those with no property are the batch
`allow_all_requests` as a sequence of locked calls, the snapshot of
`persist_pins`, and the stale copy of `support_set_password`. Further hazards of
the code that no property covers are described in 3.4: there the code does what
the hazard says.

## 6. What is not modelled, and why

The repository is large (some 220,000 lines), and most of it is not control:
codecs, PDUs, cryptographic exchanges, pixel work, platform capture and user
interface make up far the larger part, and a model of them would either be a
transliteration or say nothing. The modules cover the parts where several
actors, failures or timers meet.

* Codecs, PDUs, pixel formats, encodings: byte-level data transformations.
* Cryptography (CredSSP, NTLM, RA2, VeNCrypt, TLS, pairing secrets): out of a
  model checker's reach; its outcome is an outcome of a dial or of a guess.
* Transports, platform capture, keyboard hooks, discovery probes, provisioning:
  operating system I/O.
* The database and the vault: single statements of an external store.
* The webview: rendering; it enters as the source of numbered calls.
* `dvv`: request translation; it is the environment of `Plane`, in which one
  process has one party.
* Inside modelled parts: delays and jitter of the backoffs; attachments,
  announcements and mirrors of the agent server; in the run loop, continuous
  updates, quality tuning, fences and statistics; in the plane, the registry,
  the observation streams and the intents that only read; in `ssh-core`, the
  scraping of a PTY command's output; in the files commands, listing, renaming,
  deleting and the pins; in `boundary-session`, frames, audio, clipboard, the
  tools' own protocol and the joining side; in the support window, invitations,
  listening at login, the switches per helper, and saves that fail.

## 7. Plan

Done: the control core (`LeaseOps`, `Lease`, `LeaseForever`, `BoardOps`,
`Board`, `Viewer`), the abstract `Lock` and the proof that the lease implements
it, the input gate, the supervised session, the plane, SSH, file transfers, help
by invitation and unattended access, and the theorems of section 4.

Next, in this order:

1. **Pins**: host keys and certificates on first use, with concurrent dials and
   the snapshot written outside the lock.
2. **Session registry**: creation, reaping and the maps that outlive a session,
   the input gate's entry among them; `allow_all_requests` and lagging clocks in
   `Viewer`.
3. **RDP continuity**: auto-reconnect cookie, redirection target, settings.
4. **RFB pacing**: one outstanding request, continuous updates, fences, the
   tuner's hysteresis, always-refresh.
