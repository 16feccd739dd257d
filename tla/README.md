# TLA+ models of the ergo IRC server

This directory holds:
- a TLA+ specification of the server core in `src/irc/server.go`;
- an abstract specification of the nickname index, which the core is shown
  to implement;
- TLC configurations that model-check the core on small instances;
- TLAPS proofs, for every value of the constants, of:
  - the type invariant;
  - the consistency of the nickname index;
  - index entry stability;
  - the refinement;
  - the userhost table mirroring the index;
  - the consistency of channel membership.

## The system

`server.go` is the single-threaded core of the daemon. `Server.Run` is one
goroutine that `select`s over five Go channels:

| channel | filled by | Run's case | model action |
|---|---|---|---|
| `newConns` (capacity 16) | `listen` (one goroutine per address, after `Accept`) | `NewClient` | `Accept(c)` / `Connect(c)` |
| `commands` (capacity 16) | each client's reader goroutine | `processCommand` | `Submit(c, cmd)` / `ProcessCommand` |
| `idle` (capacity 16) | a client's idle timer | `client.Idle()` (PING, arm quit timer) | `IdleTimerFires(c)` / `HandleIdle` |
| `timeout` (capacity 16) | a client's quit timer | `client.Quit("connection timeout")` | `QuitTimerFires(c)` / `HandleTimeout` |
| `signals` | the OS | `Shutdown` and return | `Shutdown` |

Each client moves through these phases:
- Authorization, when a password is configured;
- then Registration;
- then Normal;
- finally Terminated.

`processCommand` gates every command by the phase of its client:
- In Authorization it takes PASS and QUIT only.
- In Registration it takes NICK, USER and QUIT (plus CAP and PROXY). Any
  other verb quits the client.
- The default branch runs everything else. Because it is the default, it
  also runs commands of a client that is already Terminated.

The server state is:
- the nickname index `clients.byNick`, with its `Get`, `Add` and `Remove`
  (`ClientLookupSet`);
- the SQL table `client (nickname UNIQUE, userhost)` that `Add` and `Remove`
  keep beside the index (`ClientDB`), which `FindAll` searches by mask;
- the channel table `Server.channels`;
- each channel's members and operators;
- each client's nick, username, Operator flag, set of channels, and idle
  and quit timers.

The client and channel methods (`client.go` and `channel.go`) are not in this
repository's `src/`. They are modelled from `spec.md`, and PROJECT.json marks
them `spec_modelled`. The code that calls them is translated from
`server.go`.

## Modules

| module | contents |
|---|---|
| `IrcServer.tla` | The core model: constants, state, one action per `Run` case, per listener step and per handler path. It also holds the properties and the mutants; each mutant is placed before the definition it mutates. |
| `NickRegistry.tla` | The abstract nickname registry (spec 4.5). A client claims a free key, releases its own key, or moves its own key to a free one. |
| `ClientLifecycle.tla` | The abstract client lifecycle (spec 3): a client starts in the first phase (Authorization when a password is set, else Registration), is authorized, registers, and terminates from any open phase. Terminated is final. |
| `MCIrcServer.tla` | The TLC instance. Two clients; nicknames `alice`, `Alice` (same key as `alice`) and `bob`; channels `#p` (stored) and `#x`; the sets of verbs each run submits. |
| `IrcServerProofs.tla` | TLAPS: `TypeCorrect`. |
| `IrcServerIndexProofs.tla` | TLAPS: `IndexCorrect`, `NoRegisteringClientIndexed` and `EntryStable`. |
| `IrcServerRegistryProofs.tla` | TLAPS: `Refinement`, the index implements `NickRegistry`. |
| `IrcServerDbProofs.tla` | TLAPS: `DbMirrored`, the userhost table mirrors the index when no statement fails. |
| `IrcServerChannelProofs.tla` | TLAPS: `MembershipCorrect` and `ChannelTableCorrect`. |
| `IrcServerLifecycleProofs.tla` | TLAPS: `LifecycleRefinement`, the phases implement `ClientLifecycle`; `QuitErases`, the terminating step erases the client. |

### Correspondence to the code (IrcServer)

**State.**
- `phase`, `nick`, `username` and `operator` are the `Client` fields.
- `byNick` is `ClientLookupSet.byNick`. It is a total function from the
  lowercased nicknames `LNick` to a client or `NoClient`.
- `db` is the `client` table. It is a set of `<<nickname, client>>` rows;
  the userhost column is abstracted to the client it was built from.
- `channels` holds the names in `Server.channels`.
- `members`, `chanops` and `memberOf` are `Channel.members`, its
  ChannelOperator mode, and `Client.channels`.
- `newConns`, `commands`, `idleQ` and `timeoutQ` are the four buffered Go
  channels. Each is a sequence bounded by its capacity.
- `idleArmed` and `quitArmed` say whether each timer is running.
- `awaitingPong` is a history variable. It is set when the server PINGs a
  client and cleared by any command of that client (`Touch`).
  `TimeoutOnlyIfSilent` and `PongKeepsClient` read it.

**Constants.**
- `Lower` is the case folding of `ClientLookupSet`.
- `BadNick` is a parameter that `IsNickname` rejects.
- `NoNick` and `NoChan` are the empty parameter and JOIN's `0`.
- `Persistent` is the set of channels `loadChannels` reads.
- `PasswordSet` says whether a password is configured.
- `QueueCap`, `EventCap` and `ConnCap` are the capacities of the buffered
  channels.
- `DbFaults` says whether a SQL statement may fail. `ClientDB.Add` and
  `Remove` only log the error (server.go:985-999). When `DbFaults` is TRUE,
  each statement either takes effect or leaves the table as it was
  (`DbExec`).

**Listener.**
- `Accept` is the loop of `Server.listen`. It appends a fresh connection to
  `newConns` and blocks while the channel is full.
- Listeners are never stopped, so `Accept` has no `running` guard.
- An `Accept` error only logs and loops, so it is no action.
- `Connect` is Run's `newConns` case. It takes the head of the channel and
  constructs the client without looking at its phase, as `NewClient` does.

**Handlers.**
- Every handler is the disjunction of its paths. An early return with an
  error reply is a `NoChange` disjunct guarded by the code's condition, in
  the code's order.
- `NickReg` is `NickCommand.HandleRegServer` with its three checks: empty,
  in use, and not `IsNickname`.
- `NickNormal` adds the same-nick and in-use-by-another checks of
  `HandleServer`.
- `TryRegister` registers once both NICK and USER are in. It ignores
  `Add`'s error, as the code does.
- `Add`, `Remove` and the nick change each update `byNick` and `db` in the
  same step, in the code's order:
  - Remove deletes under the old nick before the new nick's INSERT;
  - the INSERT is refused when its nickname is already in the table
    (`UNIQUE`).

**Dispatch.**
- `AuthorizationCmd`, `RegistrationCmd` and `NormalCmd` are the three
  branches of `processCommand`.
- `NormalCmd` runs `Touch` before the handler for every verb but QUIT, as
  the code does.

**Replies.** Replies, and the text of error numerics, are not modelled. A
command is a record of the fields the handlers read. A password check is a
Boolean in the command (`ok`).

**Refinement.** `Registry == INSTANCE NickRegistry WITH Key <- LNick,
owner <- byNick` maps the index onto the abstract registry. `RegistrySpec`
checks that every server step is one client's Claim, Release or Rename, or
leaves the index alone.

## Runs

All runs use `MCIrcServer`. `CHECK_DEADLOCK FALSE` is justified: after
`Shutdown` the real `Run` returns, and the model stops there too.

| run (cfg) | expect | properties | distinct states |
|---|---|---|---|
| index (`MCIndex.cfg`) | pass | TypeOK, IndexConsistent, IndexedNormalOrTerminated, DbMirrorsIndex, IndexEntryStable, RegistrySpec, LifecycleSpec | 5.38M |
| channels (`MCChannels.cfg`) | pass | MembershipConsistent, ChannelTableExact, QuitErasesClient | 4.99M |
| quit_liveness (`MCQuit.cfg`) | pass | QuitHonoured | 2.35M |
| heartbeat_liveness (`MCHeartbeat.cfg`) | pass | SilentClientRemoved | 1.04M |
| unique_nick (`MCUniqueNick.cfg`) | violation | UniqueNicknames | |
| quit_trace (`MCQuitTrace.cfg`) | violation | QuitLeavesNoTrace | |
| timeout_race (`MCTimeout.cfg`) | violation | TimeoutOnlyIfSilent | |
| db_fault (`MCDbFault.cfg`) | violation | FindAllSound | |
| pong_registration (`MCPongReg.cfg`) | violation | PongKeepsClient | |

What each property says:
- **IndexConsistent:** every index entry points at a client whose current
  nick lowercases to the entry's key.
- **IndexedNormalOrTerminated:** no client in Authorization or
  Registration is indexed; an indexed client is Normal or Terminated.
  This is why a registering client's second NICK, which rewrites
  `client.nick` without touching the index, is harmless, and why a KILL
  never reaches a client that is still registering. It does not say that
  every indexed client registered: a NICK queued behind the PASS or
  timeout that quit a registering client indexes the Terminated client
  (quit_trace).
- **IndexEntryStable** (action property): an entry changes only when the
  client it names renames or quits. Remove's mismatch guard is what keeps
  this true.
- **RegistrySpec** (refinement): the index implements `NickRegistry`.
  - No step takes a key from another client.
  - No step leaves a client with two keys.
  - A rename is atomic.
- **LifecycleSpec** (refinement): the phases implement `ClientLifecycle`.
  Each step moves at most one client one step, and Terminated is final.
  Commands a Terminated client left in `Server.commands`, a KILL of a dead
  client and a late timeout event leave its phase alone.
- **DbMirrorsIndex:** the userhost table has one row for each indexed
  client, under its current nick, and no other rows.
- **FindAllSound:** `FindAll` with a mask that matches a client's userhost
  returns that client and no other. Without faults it follows from
  `DbMirrorsIndex` and `IndexConsistent` and is proved (`FindAllCorrect`);
  the db_fault run checks it with failing statements.
- **MembershipConsistent:** membership is recorded on both sides, and
  operators are members.
- **ChannelTableExact:** the table is exactly the stored channels plus the
  non-empty ones.
- **QuitErasesClient** (action property): the step that terminates a
  client leaves it in no channel member list and under no index key. Quit
  parts only `client.channels` and removes only the key of the current
  nick, so this rests on both being exact. The quit_trace violation is
  about later steps, not this one.
- **QuitHonoured** (liveness): a queued QUIT terminates its client unless
  the server shuts down first, also when it waits in `Server.commands`
  behind the other client's command and heartbeat events compete for `Run`.
- **SilentClientRemoved** (liveness): a connected client that stops sending
  is removed by the heartbeat (idle event, PING, timeout event, Quit),
  unless it speaks again or the server stops.

**Bounds.** Two clients are enough for every two-party interaction:
- a nick collision;
- a KICK or KILL of another client;
- another client's command queued behind a quit;
- one client's stale row blocking the other's INSERT.

Three nicks with one case collision exercise the case-only rename, the
index's guards and the delete-before-insert order of the table. Two
channels separate the persistent and the transient case of deletion.

Capacities:
- `QueueCap = 2` in the index run lets a command wait behind another, in
  particular behind the event that quits its client. In the quit_liveness
  run it lets a QUIT wait behind the other client's command; that run
  sends only NICK, USER and QUIT, so that it finishes.
- `EventCap = 1` allows one pending idle and one pending timeout event,
  which is the race `timeout_race` needs.
- `ConnCap = 1` lets one connection wait while the other client is served.
  A second slot only adds orderings of identical fresh clients. No
  property is about `newConns` itself: with one slot, that an accepted
  connection is served would follow from the fairness of `Connect` alone.

Each run submits only the verbs its question needs (`SentVerb`), so that the
runs finish. The heartbeat run also sends OPER, KILL and user MODE: an
operator's KILL is one more way a silent client ends. The symmetry of the two clients is used in the safety runs
only.

**Fairness.**
- Go's `select` picks uniformly among the ready cases, so a case that stays
  ready is eventually taken. `FairSpec` assumes weak fairness of `Connect`,
  `ProcessCommand`, `HandleIdle` and `HandleTimeout`, and nothing about the
  clients.
- `TimedSpec` (the heartbeat run) adds strong fairness of each client's two
  timer actions:
  - An armed Go timer fires once its time has passed.
  - Its callback then blocks on the full event channel until Run drains it.
  - Go queues blocked senders in order, so a timer that keeps being enabled
    does get through.

### Findings

- **unique_nick (a code bug, server.go:316).** During registration, NICK
  checks only the index, which holds only registered clients. Two
  registering clients can both take `alice`. `tryRegister` registers both,
  and the second `Add` fails silently. The result is two Normal clients
  with one nick, and one of them missing from the index. This violates
  spec 8.4.
- **quit_trace (a code bug, server.go:117).** A command still queued when
  its client is quit runs in the default branch. A NICK indexes the dead
  client, which blocks that nick for good. In the shortest trace the client
  never registered: while its first NICK waits in `Server.commands`, the
  idle and quit timers fire and the timeout event quits it; the NICK then
  runs in the default branch and indexes it. A JOIN puts the dead client back
  into a channel. This violates spec 8.5.
- **timeout_race (the code and spec diverge, server.go:162).** `Touch`
  stops the quit timer but cannot recall a timeout event that is already
  in `Server.timeout`. A client that answered after its quit timer fired is
  still quit. Spec 4.4 says a client quits only when no PONG arrives. The
  property cannot tell a PONG sent before the quit timer fired (but
  processed after) from one sent after it; the trace TLC reports is most
  likely the first kind, which is still a quit despite an answered PING.
- **db_fault (the code and spec diverge, server.go:988).** `ClientDB.Add`
  and `Remove` only log a failed statement, after `byNick` has changed. The
  run checks `FindAllSound`; the trace TLC reports (15 states):
  1. c1 registers as alice.
  2. c1 renames to bob. The DELETE of the `alice` row fails (as does, in
     this trace, the INSERT of `bob`; that one does not matter).
  3. c2 registers as alice. Its INSERT is refused by `UNIQUE` because of
     the stale row.

  The table still holds `<<alice, c1's user@host>>`, so `FindAll` by c1's
  user@host looks `alice` up in `byNick` and returns c2: a ban or WHO mask
  written for c1 selects c2. Spec 3 says the two structures are updated
  atomically.
- **pong_registration (the code and spec diverge, server.go:110).** The
  idle timer is armed at connect. A client still registering after T_idle
  is PINGed. Its PONG is not a `RegServerCommand`, so `processCommand`
  quits it with "unexpected command". Spec 4.4 and 7 say a PONG keeps the
  client, and that outside Authorization a misplaced command gets a
  numeric and the connection stays open.

### Mutants

Each property of a passing run is broken by a plausible bug in the
definition it guards:

| mutant | property it breaks |
|---|---|
| Remove without the owner check | IndexEntryStable |
| ChangeNickname without the Remove | IndexConsistent |
| Indexing at NICK time, before registration | IndexedNormalOrTerminated |
| NICK without `IsNickname` | TypeOK (index run) |
| Add that overwrites a key in use | RegistrySpec |
| Remove that never runs the table's DELETE | DbMirrorsIndex |
| JOIN without the channel lookup | MembershipConsistent |
| Leave without deleting emptied channels | ChannelTableExact |
| The registration branch taking a Terminated client's commands | LifecycleSpec |
| Indexing at NICK time, so that a second NICK leaves a stale key Quit misses | QuitErasesClient |
| QUIT ignored in the default branch | QuitHonoured |
| Idle sending PING without starting the quit timer | SilentClientRemoved |

## What is proved (TLAPS)

All proofs assume only the `ASSUME`s of `IrcServer`:
- `Lower` maps nicknames to nicknames and is idempotent.
- The null values (`NoNick`, `NoClient`, `NoChan`, `BadNick`) are not
  clients, nicknames or channels.
- The persistent channels are channels.
- The capacities are positive.
- `PasswordSet` and `DbFaults` are Booleans.

These hold for any finite or infinite sets of clients, nicknames and
channels.

### The theorems

- **`TypeCorrect == Spec => []TypeOK`** (`IrcServerProofs`). `TypeOK` is
  split into `CoreOK` (clients, index, table, channels), `QueueOK` and
  `TimerOK`. There is one lemma per Client or Channel operation, one per
  handler, and one per `processCommand` branch and `Run` case.
- **`IndexCorrect`** (`IndexConsistent`), **`NoRegisteringClientIndexed`**
  (`IndexedNormalOrTerminated`) and **`EntryStable`** (`IndexEntryStable`), in
  `IrcServerIndexProofs`.
- **`Refinement == Spec => RegistrySpec`** (`IrcServerRegistryProofs`).
- **`DbMirrored == ASSUME ~DbFaults PROVE Spec => []DbMirrorsIndex`** and
  **`FindAllCorrect == ASSUME ~DbFaults PROVE Spec => []FindAllSound`**
  (`IrcServerDbProofs`).
- **`MembershipCorrect`** (`MembershipConsistent`) and
  **`ChannelTableCorrect`** (`ChannelTableExact`), in
  `IrcServerChannelProofs`.
- **`LifecycleRefinement == Spec => LifecycleSpec`** and
  **`QuitErases == Spec => QuitErasesClient`** (`IrcServerLifecycleProofs`).

### IInv, the inductive invariant of the index

`IndexConsistent` on its own is not inductive. A registering client's NICK
rewrites `client.nick` and leaves the index alone, which would break an
entry pointing at that client. The inductive invariant is
`IInv == TypeOK /\ IdxInv /\ ConnInv`:
- `IdxInv` is `IndexConsistent /\ IndexedNormalOrTerminated`, so no client in
  Authorization or Registration is indexed.
- `ConnInv` says two things:
  - `Server.newConns` holds distinct connections that are still
    Unconnected;
  - every client in `Server.timeout` has connected.

`ConnInv` is needed because `Connect`, like `NewClient`, does not look at
the phase. That the head of `newConns` is a fresh, unindexed connection
follows from the listener accepting each connection once. It also relies on
no handler moving a client into or out of Unconnected (`UFrozen`). A KILL
target is found through the index, so `IndexedNormalOrTerminated` places it in
Normal or Terminated.

The argument for `IdxInv` rests on four facts:
- **`RemoveOwn`:** under `IndexConsistent`, `Remove(c, nick[c])` clears
  exactly the entries that point at `c`, and there is at most one.
- **Quit:** it removes the client's entry and leaves all others alone.
- **ChangeNickname:** it is reached only when the new key is free or
  already `c`'s. It moves `c`'s one entry to the new key.
- **tryRegister:** it indexes a client that had no entry, under the nick
  just set.

### Index entry stability

`IndexEntryStable` needs only `TypeOK`. The guards of `Add` (key free) and
`Remove` (entry is the caller's) keep any step from changing an entry of a
client that neither renames nor quits. There is one lemma per handler, and
`NextStable` states `[Next]_vars => [StableStep]_vars`.

### The refinement

Every step maps to a Claim, a Release, a Rename of a single client, or a
stutter of `byNick`:
- **`RemoveCases`:** a Remove either clears the caller's single key or
  changes nothing.
- **`AddStep`:** an Add either claims a free key for a client with no key,
  or changes nothing.
- A nick change composes the two into a Rename, or into a Release when the
  new key is taken.

The "at most one key per client" premise of Claim comes from `IInv`.

### The table mirroring the index

`DbMirrorsIndex` is restated pointwise as `DbInv`: a row `<<n, c>>` exists
iff `byNick[Lower(n)] = c` and `nick[c] = n`. This form lets the SMT solver
treat each row separately. `DbAddInv` and `DbRemoveInv` show that `Add`'s
INSERT and `Remove`'s DELETE keep `DbInv`, given `IInv`. The theorem assumes
`~DbFaults`; with faults, the db_fault run shows it fails.

`FindAllSound` follows from `DbInv` in each state (`FindAllFromDbInv`): a
row `<<m, c>>` puts `c` under `Lower(m)`, which is where `Get(m)` looks.
Both theorems rest on `DbInvInvariant == Spec => [](IInv /\ DbInv)`.

### Channel membership

`ChInv == MembershipConsistent /\ ChannelTableExact` is inductive together
with `TypeOK`. Only `Join` and `Leave` touch channels, and each updates both
sides of the membership in one step.

### The client lifecycle

`NextL` shows `IInv /\ [Next]_vars => [Lifecycle!Next]_phase`, one lemma
per `processCommand` branch. Each branch dispatches on the phase it reads,
so a Terminated client's commands reach only the default branch, which
leaves the phase alone or quits an already Terminated client. Three cases
need more than the action itself:
- `Connect` (`NewClient`) does not look at the phase. `ConnInv` says the
  head of `newConns` is Unconnected, so this is a Start.
- `HandleTimeout` quits whatever client the event names. `ConnInv` says
  that client has connected, so it is not Unconnected.
- KILL quits the client found through the index. `IndexedNormalOrTerminated` puts
  it in Normal or Terminated.

### Quit erases the client

`NextE` shows that every step whose phase change reaches Terminated is a
`QuitClient(c)`, and that this step erases `c`:
- **Channels:** `Leave` removes `c` from every channel in `memberOf[c]`.
  `MembershipConsistent` says `c` is in no other channel.
- **Index:** `RemoveOwn` under `IndexConsistent` says `Remove(c, nick[c])`
  clears every entry that points at `c`.

The theorem therefore combines `IInvInvariant` and `ChInvInvariant`.

### Process

Each invariant was first checked by TLC in a run, then proved.

### Left to TLC

- Liveness (`QuitHonoured`, `SilentClientRemoved`) and
  anything with `ENABLED` are out of the prover's reach.
- The `DbFaults` case and the violation runs are model-checked only.

## Not modelled

- The wire parser and reply formatting. Commands arrive already typed.
- The handlers that only reply or read: MOTD, VERSION, TIME, DEBUG, WHO,
  WHOIS, ISON, LIST, NAMES and WHOWAS. Two single-step bugs were seen in
  them while reading, but are not modelled because no state records
  replies:
  - `whoChannel` tests the requester's Invisible flag rather than the
    member's (server.go:584).
  - NAMES with no argument tests `len(server.channels) == 0` instead of the
    argument count (server.go:731). spec.md records this one.
- AWAY, which sets a flag that only replies read.
- PRIVMSG and NOTICE fan-out, TOPIC, channel MODE and INVITE. Their effect
  is in `channel.go`, whose channel modes and invite list spec.md describes
  too loosely to model faithfully.
- The text of the mask search (`FindAll`'s `QuoteLike`, `ExpandUserHost` and
  the `LIKE` pattern). `FindAllHost` models a mask that matches exactly one
  userhost. `ClientLookupSet.Find` (server.go:941-965) is not called in server.go.
- `loadChannels` skipping rows with scan errors. The stored channels are a
  constant.
- Configuration and password hashing.
- The timers of a Terminated client. Its idle and quit timers are stopped
  by Quit, so they are inert in the model.
