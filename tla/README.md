# tmux-ide: a TLA+ verification of its core

tmux-ide keeps one daemon per machine that owns tmux sessions and shows them to
any number of viewers: the OpenTUI application, a web client, automation. The
modules here model five parts of it, and check what makes each correct:

* how a pane's terminal state travels from the daemon to its viewers, who never
  disagree with the daemon about what they show, never go back in time, are never
  dropped in silence, and catch up when they can;
* who may type, has the focus and sets the size of a session;
* how operations on a session take their turns, and what a retry of one finds;
* which process is the daemon, and who holds the lock of a private operation,
  while processes die between any two system calls;
* how a client's store of a daemon resource stays with its target and current,
  over streams and reads that fail, overtake each other and are retried.

Source paths below are relative to `packages/` of the repository.

## 1. The system

### Components

**Terminal replica owner** (`daemon/src/terminal/session-runtime/terminal-replica-owner.ts`,
`registry.ts`, `terminal-replica-interpreter.ts` beside it). For each pane the
session runtime keeps one owner that parses the pane's output into a canonical
terminal state. State: the owner's life cycle, its incarnation, its revision
counter. Operations: subscribe (a new subscriber is handed a seed), commit of a
seed or a patch, close (a last revision, the tombstone), loss of the capture
capability, the restart barrier behind which owners are disposed when the tmux
control connection exits, disposal. Hard: a new owner of the same pane has to
continue its predecessor's clock; closing races everything downstream.
Correct when revisions never repeat and never go back.

**Delivery hub** (`terminal-delivery-hub.ts`). Fans an owner's updates out to
connections. State: per pane, the canonical revisions still needed, the queue
of updates, the drain; per client, its baseline, the latest revision pending,
its flight (the one delivery under way), its encoding job, what its sender has
queued. Operations: open, ACK, NACK, visibility, close, observe an update, drain,
reduce, publish, encode, deliver, send, fault, reap, restart, shut down. Hard:
openings await the source while clients come and go; encodings, reductions,
background timers and sinks finish at any later time; a fault may overtake the
sender; pruning for one client must not take what another needs. Correct when
both ends of every lane agree, retained revisions are bounded and sufficient,
limits hold across awaits, and every lane ends or catches up.

**Pane-stream socket** (`daemon/src/terminal/pane-stream/pane-stream-websocket.ts`). Carries the lane over a
WebSocket: messages with credit one way, ACK, NACK and visibility frames the
other. Hard: back-pressure with a five second deadline, and a socket that goes
away while either side is writing.

**OpenTUI endpoint** (`WireTerminalEndpoint` in
`daemon/src/tui/mirror/open-tui-workspace-runtime-port.ts`). State: the snapshot last
applied, the transaction being assembled, decoded or handed over, the
transaction rejected last. Operations: accept an envelope, a chunk or a fault;
finish or fail a decode; flush to the subscription and acknowledge. Hard: a
cooperative decode overlaps further messages; the chunks of a rejected delivery
keep arriving.

**Authority** (`authority-arbiter.ts`, `transport-binding.ts`, the controller of
`registry.ts`). State: the arbiter's hosts with their presence, activity and
claims, the owners of input, focus and geometry, a native yield and its timer;
the controller of the runtime and the leases of the hosts; the transports bound
to a host and which of them size. Operations: bind, presence, activity, request
and release of each authority, hand-over, close; native activity, the timer,
verification of shared windows and the conflict it may find. Hard: transports of
one host share its lease and its connection; the controller lease and the input
authority are two records of one fact; elections run inside other operations.
Correct when the two records agree, whoever is the controller can type, owners
are eligible, and the geometry is neither forgotten nor snatched.

**Semantic mutations** (`semantic-mutation-executor.ts`). State: per session name, the end of
a chain of promises (the lane), a ledger of at most 256 operations, and the
operations that await their tmux observation for ten seconds. Operations:
submit, with replay and refusal by the ledger; the run of an operation (authority,
effect, proof, observation); observe, called by a tmux hook; dispose. Hard: an operation
may fail, time out or be disposed at any await, with others chained behind it; a
retry of an operation whose first attempt is still pending; operations that
rename or remove what their lane is named after. Correct when work of one lane runs
in turn and at most once while it is known, what is pending can be found, and
every submission is answered.

**PTY input** (`MonotonicPtyInput.ts`, `protocol/input-coalescer.ts`): ordering, batching and
limits of input bytes.

**Leases** (`pane-stream/lease-manager.ts`, `attachments/lease-manager.ts`): issue, claim,
renew, release and expire. Hard: expiry racing a claim, clean-up that fails.

**Daemon client: the store** (`daemon-client/src/generation-bound-store.ts`, its adapter
`application-shell-session.ts`, `direct-application-shell-transport.ts`,
`workspace-event-supervisor.ts`). State: the target, the snapshot shown and its
phase, the read under way, two retry ladders, the subscription, the shared
supervisor of the event socket. Operations: start, retarget, refresh, dispose;
success and failure of a read, opening, verification, notice, gap and failure of
the stream, transport states; the timers. Hard: results of a superseded read or
subscription arriving late; two owners of reconnection, the store and its
supervisor. Correct when what is shown is of the target and never goes back,
"live" means current or about to be, and a store that may retry does.

**Daemon client: the rest** (`daemon-client/src`): fleet connection supervision, pushed
resources, bootstrap, the dial scheduler, the request clients.

**Daemon ownership** (`daemon/src/lib/canonical-daemon.ts`, `daemon-embed.ts`): a claim, the
directory a starter renames into place, and a record, the file that tells
clients which daemon serves or that a supervisor has reserved the name. Hard:
crashes between two system calls, several starters at once, checks of a path
whose file may be another one at the next call. Correct when at most one daemon
owns the name, one serves, it can be found, and reservations hold.

**Private operation lock** (`daemon/src/lib/private-operation-lock.ts`): a directory with one
file named after its owner's nonce; dead owners' directories are retired, an
older version's lock file too. Correct when it is a lock, and taken again when
its owner died.

**Repositories and operations** (`workspace-state-repository.ts`, `mission-repository.ts`,
`automation-operation-registry.ts`, `workspace-open*.ts`, `workspace-promotion.ts`): locks, merges
under a revision, idempotent operations, staged promotion.

**OpenTUI generation host and modal admission**: promotion of a whole generation
of panes at once; tokens that make late completions of a modal harmless.

The rest (tmux control-mode parsing, HTTP routing, codecs, agent detection) is
listed with its reasons in `PROJECT.json`.

### How they interact

The owner calls the hub's listener synchronously for each update. The hub
queues it, drains the queue in a microtask, sets each client's `latest` pointer
and schedules a delivery: a microtask for visible clients, a timer for
background ones. A delivery makes the flight, whose envelope and chunks the
client's sender hands one at a time to the socket, waiting for credit in
between. The endpoint assembles, decodes, applies and acknowledges; the socket
calls the hub's `ack` or `nack`, which moves the baseline, prunes, and schedules
whatever was coalesced meanwhile. Visibility frames, closures and restarts come
in from the sides.

The same sockets bind their transport to a host of the session runtime, which
calls the arbiter for each frame and moves the controller's lease with it. The
runtime lives in the one daemon that won the claim and published its record. The
client side reads resources over HTTP and hears of their changes through event
sockets that know nothing of panes.

### Plan

The modules are written in the order in which they matter. Done:

1. **Terminal delivery**: hub, owner, socket, endpoint; `LatestMirror` as the promise.
2. **Authority**: arbiter, controller, transports.
3. **Daemon ownership and the private lock**; `OperationLock` as the lock's promise.
4. **The generation-bound store** over each of the shell's transports.
5. **The mutation executor**; `OnceInOrder` as its promise.

Left:

* The executor's receipts, and PTY input under the input authority.
* Leases of panes and attachments, with a clock, under expiry that races a
  redemption.
* Pushed resources and fleet connection supervision, beside the store.
* Repositories and operations: an abstract compare-and-swap register.
* Workspace opening and promotion, the generation host and modal admission.

Within family 1: the replay stage of an opening socket, and the projection lane. Within 3: what
holds of any number of ordinary starts (three supervised ones break `OneServer`).

## 2. The modules

| Module | Models | Extends |
|---|---|---|
| `DeliveryHub` | the hub: data, private methods, actions | |
| `SessionRuntime` | the hub with its owner, restart barrier and arbitrary peers | `DeliveryHub` |
| `WireEndpoint` | the endpoint as functions from record to record and feedback | `DeliveryHub` |
| `TerminalDelivery` | hub, owner, sockets and endpoints together | `SessionRuntime`, `WireEndpoint` |
| `FairDelivery` | the same with fairness and bounded viewer moves | `TerminalDelivery` |
| `LatestMirror` | the abstract promise: a mirror that only moves forward | |
| `Authority` | arbiter, controller, leases and the transports of the hosts | |
| `DaemonOwnership` | claim and record, one system call at a time | |
| `PrivateOperationLock` | the lock directory, one system call at a time | |
| `OperationLock` | the abstract promise: one holder, freed by its death | |
| `SemanticMutations` | the executor, tmux's hooks and the registry that names its lanes | |
| `OnceInOrder` | the abstract promise: jobs of a lane in turn, each once | |
| `GenerationStore` | the store's operations as functions from store to store | |
| `ShellSession` | the store run against its three transports | `GenerationStore` |
| `*Proofs` | theorems, section 4 | the module named |
| `MC*` | instances for TLC | the module named |

### Terminal delivery: state and code

One pane is modelled, with a fixed set `Clients` of connection slots.

* `pane` is the hub's `PaneState`: `st` is its way through `#ensurePane` ("starting" until
  `subscribeSource` answers, "seeded" until its continuation runs, then "live"; "none" when it is
  not in `#panes`); `cur`, `inc`, `tomb` are the canonical state; `revs` the
  retained canonical revisions; `queue`, `drain` and `held` the drain loop ("running" is
  the synchronous loop, "reducing" a cooperative reduction of `held`); `aborted` its abort
  signal.
* `hc[c]` is a `ClientState` or a reservation in `#pendingClients`: "opening" waits for the
  pane, "resuming" is the continuation about to run, "orphaned" one whose pane has
  gone meanwhile, "retired" one whose opening will reject. `base`, `latest`, `reseed`, `flight`, `enc`
  are the delivery; `sched` and `timer` the microtask and the background timer; `out` and
  `snd` the sender's queue and where it is; `oob` the out-of-band fault; `retire`, `gone`,
  `displaced`, `lastAck` the code's `retireAfterDrain`, `captureGone`, `sourceClosedFlight` and last
  acknowledged delivery.
* `wire[c]` is what the socket holds towards the viewer, `up[c]` what it holds towards the
  hub. A socket is FIFO and loses nothing until it closes.
* `src` is the owner together with the clock the registry keeps when the owner
  goes; "disposing" is the time behind the restart barrier, "shut" a disposed runtime.
* `ep[c]` is the endpoint.

A revision is its number; states, cells and encodings have no contents. A
representation is what decides the protocol: the frame (seed, patch or
tombstone), the baseline of a patch and the number of chunks. Sizes are not modelled, so
either frame may win where a patch is possible (`PatchOrSeed`). That choice is made again when an
encoding ends (`Encoded`): a patch that is no larger than the seed, or that is left when the seed
is too large, goes out for the job's target, which an update may have
overtaken. The text of a
fault is reduced to its cause. `TakenAtOnce` is the pane stream's behaviour of
accepting a fault without waiting for credit; with the scenario "slow-fault" the
hub is checked without that assumption.

### Terminal delivery: atomicity

An action is what JavaScript runs without interruption: a callback up to its
first await, a continuation, a microtask or a timer. `Quiet` says that no
microtask is due; timers and socket events need it. `Uninterrupted` keeps every
other step out of the drain's synchronous loop, which is cut into one action per
update only to keep its definition readable. `pane.drain = "reducing"` and the sender's "waiting" are
real awaits: anything may happen in between.

### Terminal delivery: scenarios

The constant `Scenario` names the events an instance allows, so that each run
pays for what it is about: "visibility", "encoding" (a seed is encoded in a job),
"reduction" (a large seed is reduced cooperatively), "oversize" (a
representation is too large), "source-invalid" (an update fails validation),
"tombstone" (the owner closes), "capture" (its capture is lost), "restart" (the
control connection exits), "shutdown", "start-failure", "sink-failure",
"leave" (a viewer closes its endpoint), "slow-fault".

### Authority

`arb` is the arbiter: `recent` orders the connected hosts by activity revision, `claims` and
`foreground` are each `ClientState`'s, `owner` is `#owners`, `yielding` says that
the clock has not passed `#nativeGeometryYieldUntilMs`. Its operations are
functions on that record, because one frame makes several of them: an
acquisition shows the host and claims the input, a hand-over drops two claims,
hides one host, shows the other and claims. `controller` is `controllerClientId`;
a lease is "live" while its revision is the controller's, "stale" in a
binding that does not know better yet. Numbers of revisions are left out:
activity is an order, the rest only tells live from stale. `blocked` stands for
a verification of windows under way or a conflict found. An action is one
frame, one timer or one callback, which the code runs without awaiting in between.

### Semantic mutations

`runs` is the sequence of all accepted operations; the code keeps them as chained promises
and closures. `lane` is the session name `submit` resolved, `after` the run its promise is
chained to, `st` where `#run` is ("executing" awaits `execute`, "observing" the observation),
`effect` what tmux has done, `obs` what has become of the promise `observed`. `kept` are the
runs with a record in `#operations`, and `tails` and `pend` are `#tails` and `#pending`. `bound` is the
registry. Operations differ in what they do to this state: a "send" (or read)
is registered and awaits a hook, with its effect made synchronously; an "edit" awaits tmux, whose
effect comes at any time until then; a "rename" moves the registry as well.
An action is what runs between two awaits. Whatever the code does one
microtask after a settlement (the record's status, the next run, the end of a chain) may be
delayed here arbitrarily, which allows more interleavings than the microtask queue does. A retry that is
replayed, a conflict and a refusal for want of room or evidence change nothing and are no steps.

### Daemon ownership and the private lock

An action is one system call of one process (`rename`, `link`, `unlink`, a read,
`kill(pid, 0)`), and `Die` may come between any two. What a process has read stays in its own
variables (`seen`, `before`, `witness`, `target`) and may be stale when it is
used. Files are named by who wrote them; nonces and process ids identify their
process, so a reused process id is outside the model. Reading a record and
probing its writer is one step, since a dead writer stays dead. In
`PrivateOperationLock` a lock is the directory one call staged, with or without its owner
file, or the file of an older version. In `DaemonOwnership` a process runs one
of the commands "ordinary", "takeover", "supervised", "reserve" and
"release"; a stop clears its record and releases its claim.

### The generation-bound store

The store is a record and its methods are functions on it; `ShellSession` applies them
and lets the transport react in the same step where the code calls it
synchronously (`Through`). Generations, request ids and subscription ids are used by
the code for one purpose, to tell what is current from what is not, and so is the
model's distinction of `read` from `late` and of a `link` whose handlers are "dead".
A read is held by the barrier of its transport, unread, answered with the
version the daemon had when it read, or refused. A version counts the changes of the
resource. `cursor` is the last change the transport has heard of or has
skipped for good. Three transports are checked in one run: the session's own
socket, which replays from its cursor; OpenTUI's shared workspace event
supervisor, which is replaced when its socket is lost; and a supervisor outside
this repository that follows the contract the adapter states ("host").

## 3. The runs

`tlc -config X.cfg M` in this directory. Bounds of the terminal delivery: `MaxRev`, `MaxInc` bound the
owner's clock; `MaxTxn` the deliveries an arbitrary peer provokes with NACKs;
`MaxRejects` the decodes that fail; `MaxMoves` the events from outside of the fair
run, of all kinds together; with `MaxUnread` one visibility frame is on its way at a time. They are guards of the actions concerned. `PeerAcks` and `PeerNacks` are
the feedback an arbitrary peer may send, which only the proofs use.
`MaxPending`, `MaxJobs` and `MaxClients` are the code's own limits, scaled down.
Of the store: `MaxVer` bounds the changes of a resource, `MaxFaults` the failures of
reads and streams, `MaxMoves` refreshes, changes of target and disposal;
`MaxAttempts` is the code's limit on both ladders. `DaemonOwnership!MaxAttempts` is the code's.

Of the executor: `MaxRuns` bounds the operations, and `MaxLost` those after whose acceptance a
workspace is still lost; `Capacity` is the code's limit, scaled down.

Deadlock is checked where the system cannot come to rest (`authority`). Elsewhere it
may: a bounded lane rests when its last revision is acknowledged, and commands,
lock calls, a store that is current and an executor without work end. What must not stop is stated as
liveness instead.

| Run | Instance | Shows |
|---|---|---|
| `lanes` | 2 viewers for 1 place, 3 revisions of 2 incarnations, 1-2 chunks, a failing decode; visibility, encodings, reductions, tombstone, lost capture, slow faults | `OneFlightPerLane`, `BaselinesAgree`, `PatchesFit`, `HonestAnswersAccepted`, `BaselineRetained`, `RetentionBound`, `CapacityHeld` |
| `lane_everything` | 1 viewer and every event in every combination | `TypeOK`, `DetachIsReported`, `HonestNotAccused`, refinement of `LatestMirror` |
| `catching_up` | a responsive viewer beside one that may stall; encodings, failing sinks, and any 4 of: connect, change of visibility, update, failing decode, failed start, restart | `CatchesUp`, `FaultedLaneEnds`, `OpeningSettles` |
| `reopen_after_overflow` | 2 viewers, small update budget | finds `ReopenIsFresh` violated |
| `restart_race` | 1 viewer, restart | finds `HonestAckAccepted` violated |
| `authority` | 2 hosts, one with a drawing transport and one of any role, one that draws or attaches | `TypeOK`, `ControllerIsInputOwner`, `ControllerCanType`, `OwnersAreEligible`, `GeometryIsNotForgotten`, `GeometryIsStable`, `OnlyConflictsOutdate`, `GeometryReturns` |
| `mutations` | 3 operations of every kind under 3 ids, 2 names, ledger of 2; renames, removal of the workspace, dispose | `PendingIsFound`, `EverySettles`, refinement of `OnceInOrder` |
| `private_lock` | 3 processes, an empty path or an older lock file | `TypeOK`, `HolderKeepsLock`, refinement of `OperationLock` (`Exclusive`), `AbandonedIsTaken` |
| `daemon_ownership` | any 2 commands, or 3 ordinary starts, over what a dead daemon left | `TypeOK`, `OneOwnerOfTwo`, `OneServer`, `ServerIsRecorded`, `BindingsHold` |
| `claim_race` | 3 ordinary starts | finds `OneOwner` violated |
| `shell_session` | 2 targets, 3 transports, 1 change per resource, 3 faults, 1 move, 2 attempts | `TypeOK`, `ShowsItsTarget`, `LiveIsFresh`, `StreamOrRetry`, `NeverGoesBack`, `CatchesUp` |
| `shell_reconnect` | 1 target behind a supervisor, 1 fault | finds `VerifiedIsLive` violated |

Why the bounds are enough to be interesting. *Lanes*: with a revision on the wire
another can wait, be encoded or be coalesced; two chunks let a message be lost
between two parts of a delivery and a rejected delivery's tail arrive late; two
incarnations let every record that names an incarnation be stale; two slots for one place
let an opening be refused and a pane be deleted under another. Two open lanes that share a pane,
its revisions and an encoding job occur in `catching_up` alone; that they cannot harm each other's
safety rests on the theorems, which are for any number of clients. A restart is left out of
`lanes`: there `HonestAnswersAccepted` fails, which is `restart_race`. *Catching up*: four events are the least for two lanes, a
change of visibility and an update, for a viewer that goes to the background and comes back
while an update waits, and for a failing decode beside a stalled sibling. Peers
that send arbitrary feedback are covered by the theorems alone. *Authority*: two
hosts are the least that hand over, two transports of one host the least that
share a lease and compete to size; nothing else bounds the run. *Mutations*: three operations over a ledger of
two evict a record, fill the ledger with active ones, and let a third be chained while the first settles;
a lane that is forgotten too early needs the second one still at work. *Private lock*:
a third process is what makes a check of the directory go stale between its
check and its removal (the directory checked is retired by one process, and the one now there is another's). *Ownership*: two commands
find every pairwise race, and the third starter is what `claim_race` needs. Of three
commands of other intents neither `OneServer` nor `ServerIsRecorded` is claimed: three supervised
starts violate both (a supervised daemon replaces the record it has compared), two ordinary
ones and a reservation the second. *Store*: a
change, a failure of the stream, one of its retry and one of a read compose
every path through both ladders of two attempts.

Each property has a mutant in `PROJECT.json`: a change to one definition, of the
kind a slip in that code would make, under which TLC finds the property
violated. The mutated operators stand beside their originals.

### Fairness

`FairSpec` asks weak fairness of one action, the union of the daemon's own steps
and the steps of responsive viewers. The event loop justifies it: microtasks,
continuations, timers and socket events that are due are all run, a sink settles
or is given up within its five second deadline, and a responsive viewer reads,
decodes and flushes. The owner's events and the viewers' choices are not fair:
nobody has to print, leave, or come back. One fair union is enough because
every behaviour of the bounded system ends: revisions, incarnations, rejected
decodes and what comes from outside are all counted. Its price is that starvation by endless churn
is not modelled: that a viewer catches up *while* the pane prints forever is
a matter of the scheduler's rates, not of this model.

In the other families: `authority` asks that an armed timer fires. The executor's specification asks
that each run goes on: promises that are due continue, `execute` answers (tmux commands are given up by their own
timeouts) and the timer of an observation fires; that an await on all lanes ends when they have. Hooks,
submissions and the registry's changes are not fair. `private_lock` asks weak
fairness of every call's attempt, that is, a process that lives and is not
suspended goes on polling; nothing is asked of the holder, and `AbandonedIsTaken`
therefore speaks of dead ones. `shell_session` asks it of each timer, of sockets that open or
deliver what they hold, of reads the daemon answers and of the supervisor's own
steps; faults, changes and the user's moves are bounded and never fair. `DaemonOwnership` has no
liveness property: a contender gives up after its attempts.

A viewer outside `Responsive` may stop reading for ever; its sink then fails or,
for a fault, does not matter, which is what `CatchesUp` (for its sibling) and
`FaultedLaneEnds` (for itself) are about.

## 4. The proofs

`tlapm X.tla` for each of the eight modules named `*Proofs`. Every theorem holds for any
values of the constants that satisfy the named assumptions.

### Terminal delivery

`SessionRuntimeProofs` holds for any set of slots that is
finite, any positive limits, any chunk counts, any scenario, and any peers whose
messages are ACKs and NACKs: `BoundsAssumption`, `NoneAssumption` (the null value is
none of the data), `SourceBoundsAssumption`, `PeerAssumption`.

* `RtTypeCorrect`: `RtSpec => []RtTypeOK`. `RtTypeOK` is not inductive. Two facts are missing, and
  `RtSound` adds them: a pane that is reducing holds an update (else
  the end of the reduction publishes nothing at all), and an owner that lives has a
  revision (else the seed it hands to a new subscriber has none). The first
  section proves a type lemma per private method of the hub, the second one per
  action, the third puts them together.
* `CapacityTheorem`: `RtSpec => []CapacityHeld`. Every step but an opening takes no free
  slot (`NoNewClient`); that is proved method by method, because faults, abandoned panes,
  restarts and closures all rewrite the records of several clients at once. An opening adds one slot
  to fewer than `MaxClients`. The two meet in the library's theorems on
  cardinalities.
* `BaselineTheorem`: `RtSpec => []BaselineRetained`. The
  property speaks of what a client acknowledged; by itself it says nothing of how
  that revision was kept until its ACK arrived. The invariant, `BInv`, adds to
  `RtSound` three things:
  * `Debts`. A client in service owes its acknowledged baseline, the revision of
    its flight and that of its encoding (`Owes`). A debt of the pane's
    incarnation is a retained revision, which is what `Needs` makes pruning
    respect; no debt is of a later incarnation, else the pane could grow
    into one it never retained.
  * `Ordered`. What waits in a pane is of one incarnation, that of its current
    revision; while the source lives it is the source's, and after a tombstone
    it is an earlier one. A pane not yet seeded is empty, so all debts left from
    its predecessor are older than whatever it will be seeded with.
  * `Openings`. Nobody joins a pane that is still starting, and a pane that is
    given up before its opening returns has already retired everyone.

  Most steps create no debt (`Calm`), the others only one for the current revision
  (`Presents`) or the revision of the flight that settles (`Carries`). So there is
  one short lemma per private method and one per action, and what
  remains is pruning, which keeps exactly what is owed (`PruneKeeps`), and the
  steps of the source.
* `RetentionTheorem`: `RtSpec => []RetentionBound`, in `RevisionProofs`. Between two prunings the
  pane grows by one revision while clients settle, fault and leave, so the bound
  holds only because every publication prunes. The invariant, `RInv`, adds to `BInv` and
  `CapacityHeld`:
  * `InOrder`: one order of all revisions that anybody knows. A number belongs to one
    incarnation and was counted by the source (`Clocked`), what waits in a pane is
    later than what is retained (`Rising`), and no client is ahead of its pane (`Behind`).
  * `AllSane`: the promises of a client fit together; an encoding and a flight exclude each
    other, and a patch in flight starts from the client's baseline.
  * `Retained`: the bound. By `AllSane` an open client needs two revisions at
    most, its baseline and the one `UnderWay`; the library's theorems on cardinalities add
    them up (`LeanSmall`).

`DeliveryProofs` goes on with `TerminalDelivery`: both ends and the wire between them. `BaselinesAgree`
and `PatchesFit` speak of a lane in one particular state. The invariant, `DInv`,
follows the one transaction of a lane wherever it is. It is `RInv` for hub and owner,
with the endpoints standing for the peers, `Viewers` for the types of endpoints, and
`Lanes`, for each client a `Lane`:

* while the hub means to go on with the client, the lane is in one of six stages (`Aligned`): `AtRest`,
  `Queued` (the envelope is still in the hub), `Travelling` (it is on the wire, with the
  chunks sent behind it), `Assembling` (the endpoint has some of the chunks), `Refused` and `Accepted`
  (the NACK or the ACK is under way). Chunks of a transaction refused earlier may still
  lie in front (`Scrap`);
* otherwise the next the hub says is a fault (`LastWord`), or one is on the wire
  already (`Faulted`); then nothing is claimed of the rest of the wire.

The proof goes by effects. What a step may do to an endpoint has a name (`Hangs`, `Declines`,
`Begins`, `Gathers`, `Ready`, `Shows`), and so has what it may do to the hub's record of a client; one lemma
per action shows that it has one of these effects, and one per effect and stage
where the lane goes from there. TLC checked `Lanes` within the bounds of *lanes* before it was
proved. From `DInv` follow:

* `OneFlightTheorem`, `BaselinesTheorem`, `PatchesTheorem`, `DetachTheorem` and
  `DeliveryTypeTheorem`, for any number of clients, any limits and chunk counts and every
  scenario.
* `MirrorTheorem`: `Spec => MirrorSpec`, the refinement of `LatestMirror`. A lane that has been
  faulted still shows what it reads before the fault, and of it `Lanes` says
  nothing. `Ahead` is what remains true of it: what the endpoint assembles and
  what it will read before a fault was published, and is not older than what is shown. With it every step
  shows each viewer what it showed, nothing, or a later published state (`Progress`),
  and the clock of the source does not go back (`Ticks`).

* `AccusationTheorem`: `Spec => HonestNotAccused`. What a step may do to a lane that it does not
  answer (`Moves`) takes the set of faults it may record as a parameter; only `#ack` and
  `#nack` of the client itself record more than `Excuses`, the faults that accuse nobody, and
  not even they do of the client they answer when it is in service: `Lanes` says that the head of
  what its endpoint has sent up names the flight the hub still holds
  (`HonestAnswer`), as long as no fault stands between them.

### Authority

`AuthorityProofs`, for any hosts, transports and roles (`HostOfAssumption`, `RolesOfAssumption`), proves
every property of the run but the liveness one: `AuthorityTypeCorrect`,
`InputOwnerTheorem`, `ControllerTheorem`, `EligibleTheorem`, `NotForgottenTheorem`,
`StableTheorem`, `OutdatedTheorem`. None of the properties is inductive. The invariant,
`IInv`, adds:

* `Formed`: who claims anything or is in the foreground is connected. Without it an
  election could choose a host that is gone, and `Preferred` would look for a
  host in a sequence that does not hold it.
* `Rightful` for focus and geometry, and the input's owner claims the input: the
  latter is what lets a disconnect find out that it has to clear the input.
* `Consistent`: controller, input owner and the one live lease name one host.
* `Linked`: the connected hosts are those with a bound transport; `Placed`: only
  bound transports size, for their own host.
* a timer is armed, or the geometry is `Served` already; and a yield has a timer.

An operation of the arbiter is described by `Turns` (what it may do to the owners) and `Has`
(what it does to claims, presence and connections), one lemma per operation; an
operation of the runtime composes several of them, and `TurnsChain` and
`LeadsChain` say when two steady operations are steady together: the second must not
make the old owner eligible again, which is where a hand-over that hid and
showed the same host would fail. Lemmas on sequences without repetition
(`RemovalProperties`, `AppendedProperties`, `PrependedProperties`) and on the least and greatest
of a set of numbers come first.

### Semantic mutations

`SemanticMutationsProofs`, for any sessions, workspaces, ids, events and any positive capacity
(`LaneAssumption`): `MutationTypeCorrect`, `FoundTheorem` and `OrderTheorem`, the refinement of `OnceInOrder`.
A run only looks at the one it is chained to, and a chain is forgotten when its last run
has settled; that nothing else of the lane is under way then is what the
invariant, `IInv`, has to say:

* `Chained`: a run is chained at or behind whatever is pending before it in its lane, so `Tailed`
  says the same of the end of the chain. `Serial`: nothing before a run that has begun is pending. Each of the two
  needs the other: when a run begins its predecessor has settled, and had begun before (`TurnComes`).
  `Ranked`: chains lead back, within a lane; a run without a session is over.
* `Distinct` and `Remembered`: a ledger has one record for an id, and whatever is pending has one. With the
  cardinality of a ledger (`LedgerBound`, `RoomMade`) this is `PendingIsFound`'s first half.
* `Hooked`: what is to be observed is registered under its lane and id. It is kept because no two
  runs of a lane are active at once (`OnlyActive`): a run that ends forgets an entry of its id, and could otherwise
  forget that of an older run of the same id whose record was evicted.

Steps that accept nothing have one shape (`Moves`): runs advance, and begin only in their
turn; one lemma shows that such steps keep the lanes, one that they keep the ledgers. Removal and renaming touch only
the registry, of which the invariant says nothing but its type: a lane is a name. For the same reason
the theorems say nothing of one session under two names; section 6 tells what a
rename does to it.

### Private lock

`PrivateOperationLockProofs`: `LockTypeCorrect`, `HolderTheorem`, `ExclusiveTheorem`, for any number of
processes. The invariant says that a holder owns the directory at the path and
the file in it (`HoldersOwn`), and that whatever a contender is about to retire was
made by a process that is dead (`OnlyTheDeadAreRetired`): processes do not come back. `ExclusiveTheorem` is the refinement of `OperationLock`.

### Daemon ownership

`DaemonOwnershipProofs`: types, and that no starter tries more often than its limit
(`OwnershipTypeCorrect`, `AttemptsLeft`), for any number of processes (`ProcsAssumption`: finitely many).
`claim_race` shows that the exclusion the code states does not hold of three; of any two commands
it does (`OwnerTheorem`), and with it `ServerTheorem`, `RecordTheorem` and `BindingTheorem`, all of them under
`Two`: no more than two processes were started, whatever was left before.

Why two are different is `Vacant`: while a claim is away from its path, moved by a process that
checks it, its path stays empty, for the one process that could fill it is either
the owner, which does not try again (`Claimants`), or the bearer. So the claim can always be put back, and a live
process that has installed its claim either has it in its path or can count on its return
(`HoldersHold`). `Doomed` and `Certain` say what a bearer does with it: removed is only its own
or a dead process's. `Alone` is the exclusion that follows, and every change of the record is then the
holder's (`RecordChanged`), which gives `ServersRecorded` and `BindingsSpared`. Most steps move no
claim; `WalkApart` treats them once and for all.

### The store

`ShellSessionProofs`, for any targets, bounds and sets of transports (`StoreAssumption`,
`SessionAssumption`, and `NoneAssumption`: the null value is no read and no snapshot),
proves every property of *shell_session* but `CatchesUp`: `SessionTypeCorrect`,
`TargetTheorem`, `StreamTheorem`, `FreshTheorem`, `ForwardTheorem`.

`IInv` (types and `Keyed`: what is read and shown is of the target) is proved first, with one
lemma per operation of the store (`Kept`). It says nothing of freshness; `SInv` adds what
does, every part for a store, a supervisor and its cursors in general, because an action
hands the store on between them (`Through`) before its step ends:

* `Sound`: a live stream is verified and has no gap to make up for; live is only shown over a live stream.
* `Served`: `StreamOrRetry`, with the fatal failure that may be its reason made exact
  (`Dead`): a refresh after a fatal failure starts over.
* `Aged`: neither a snapshot nor an answer is newer than the resource, nor an answer
  older than what is shown. A late answer can be older, but is not accepted.
* `Current`: the last change is on its way (`Coming`), or the store knows of its gap
  (`resync`), or the socket is degraded, or lost unheard (`silent`), or all is over.
  `LiveIsFresh` is `Current` of a store that is live.
* `Untold`, `Heeded`: what `Current` needs of OpenTUI's supervisor. Until the interest is
  installed no change is replayed, so that nothing may count as read by then; and
  a subscription whose handlers the supervisor has dropped is one whose store knows its gap.
* `Heard`: no cursor is ahead; `Fresh` and `Alone` describe what a step leaves behind.

What an operation does to a store is a formula of its own (`Fails`, `Stops`, `ReadsAgain`, `Opens`,
`Relays`, `Loses`, `Refreshes`, `Passes`, `Mutes`...), shown of the operation once and used by the lemma
that it keeps the invariant (`FailsFit`...), so that no action expands an operation. `NeverGoesBack` is
an action property that follows from `Aged` in the state before the step (`Forth`).

### What is only model-checked

* `HonestAnswersAccepted`, which says of whole behaviours what
  `HonestNotAccused` says of a step. It holds within the bounds of *lanes* and not of every
  instance, so no theorem can state it. A restart, an invalid source and an exceeded
  budget drop a flight without remembering it (*restart_race* shows the first). And with a third incarnation
  and a sink that is slow even for faults, TLC finds that a client whose closed source is
  remembered can be faulted again, by `failPaneCapture` of the next source, while its first
  fault is still held by the sink; `#fault` then overwrites what it remembered with null
  and the ACK that was racing the first fault is a violation. The pane stream takes faults at once, so
  no transport of the repository shows it. What is true of every instance is
  the theorem: the accusation always comes after another fault.
* `OneServer`, `ServerIsRecorded` and `BindingsHold` of three ordinary starts. There the claim may be lost
  and it is the record alone that keeps servers apart.
* Liveness (`CatchesUp`, `FaultedLaneEnds`, `OpeningSettles`, `GeometryReturns`,
  `AbandonedIsTaken`, `EverySettles`), which the proof system does not reach; nor does it reach `ENABLED`
  or induction over data.

## 5. What the code does differently from what it says

* **`reopen_after_overflow`.** When a pane's pending updates exceed the budget its
  clients are told to "reopen for a fresh snapshot", but the aborted pane stays
  in `#panes` until the last of them has closed. Whoever opens before that joins it,
  starts from where it stopped and is never updated, and keeps it alive.
* **`restart_race`.** A closed source records the flight it displaces, so that the
  ACK racing it is inert. `resetForSessionRestart` does not; the racing ACK of an
  honest viewer is answered as a protocol violation.
* **`claim_race`.** "Contenders cannot pass inspection, bind, or publication concurrently",
  but a claim is retired by renaming whatever is at its path, which may be a claim
  installed meanwhile; before it is put back a third starter finds the path empty.
* **`shell_reconnect`.** "A verified reconnect always refetches", but the supervisor
  reports a failure before the closure, the shell's handlers die of it, and the
  replacement is given the dead ones.

`PROJECT.json` quotes the lines.

## 6. What is not modelled

* In the hub: the raw journal and ANSI representations, the cache of
  representations, native seed backing, projection and materialize deliveries,
  graphics, metrics. They choose among encodings of one frame or feed other lanes; the choice
  between patch and seed is modelled (`PatchOrSeed`), before an encoding and after it.
* Several panes, and with them the `MAX_PANES` limit and the connection-wide fault:
  a lane is per pane, and a connection's other lanes only see its end.
* `deliver` throwing inside the endpoint's subscription. Met while modelling: a viewer whose first delivery is
  the tombstone cannot apply it, and its NACK finds the pane reaped, so it is neither reseeded nor told.
* The replay stage of a pane stream that is still opening, in which faults bypass
  staged messages: the socket is FIFO here from the hub's accept on.
* An incarnation number that a failed start skips: only order matters.
* Contents of states, hashes and encodings.
* In the authority: `fitViewport`, revisions and their publication, `activateLegacyAuthority`,
  `handoffController` as an operation of its own with its replay. The branch of
  `activateController` that reclaims for a controller without a live lease is modelled
  and, by `ControllerCanType`, never taken. Met while modelling: a background host that
  asks for the geometry keeps its claim but loses the transport that could
  release it (`transport-binding.ts:268`); after a window conflict the release of
  the input throws, and the socket's release frame, unlike its request frame, does
  not catch it; a legacy attachment becomes the controller without a publication.
* In the executor: what a caller is answered, receipts, metrics and resource changes; the contents of a fingerprint (what
  names an id decides a conflict, which changes nothing); observations released by the
  owner of native commands (`observeOwnedNativePlan`), which release what a hook would; `session.kill`
  of another fleet's session, which brings its own lane name. A tmux command that its runner has given up is
  taken to have had its effect by then or never; the code calls its outcome uncertain. Met while
  modelling: `dispose` rejects an observation that nobody awaits while `execute` is still under way;
  and a rename splits a session. Lanes, ledgers and observations are found under the session's name, and
  `workspace.rename` runs in the lane it renames: what was accepted behind it stays in the old lane, where each send
  waits ten seconds for a hook that looks under the new name, what is accepted afterwards runs at once,
  and a retry of held work does not find its record.
* In daemon ownership: invalid records, hand-off between generations of one
  process, permissions and their migration, the watchdog and the development
  lock. Met while modelling: a claim released while it is moved aside comes back when
  the contender restores it, and blocks the path until its process exits.
* In the store: its metrics and listeners, the republication of unchanged
  snapshots, delays and jitter; an adapter that connects asynchronously; the
  disposition "degrade", which no adapter returns; an interest the daemon reports
  "unavailable", and the reconnection that only re-reads the catalog.
  `LiveIsFresh` and `CatchesUp` excuse a store whose read ladder is exhausted: a stream verified
  afterwards shows the retained snapshot as live all the same
  (`generation-bound-store.ts:684`). They excuse `silent` too: when the inventory of a
  replacement supervisor cannot be read the replacement is disposed without a word to
  the handlers it has told of a live stream
  (`direct-application-shell-transport.ts:575`), and what changes before the next one is missed.
  OpenTUI's session is never retargeted, so the supervisor's run does not either.
  `push-resource-session.ts` compares the interest's revision with the one it
  captured when it connected; it is not modelled.
* The components named in what the plan has left, and those whose reasons
  `PROJECT.json` gives.
