# A TLA+ verification of appium-agent-inspector

appium-agent-inspector is a CLI (`src/src/cli`) that talks over HTTP to a
background daemon (`src/src/daemon`), which holds one Appium session through
webdriverio. This directory models the daemon (session manager, heartbeat,
element registry, the handlers that keep state across awaits, shutdown), the
processes around it (start lock, state file, `daemon:start`, `daemon:kill`) and
the two pure parts with an algorithm of their own, the accessibility tree and
the gestures. The modules are checked by TLC and their main invariants proved by
TLAPS. Paths below are relative to the repository root `src/`.

## 1. Inventory

| Component | State it keeps | Operations | Talks to |
|---|---|---|---|
| Session manager, `src/daemon/session-manager.ts` | `driver`, `sessionMeta`, `starting`, `heartbeatTimer`, `heartbeatFailures`, `heartbeatInFlight`, `lastActivityAt`, `implicitWaitOverrides` | `startSession`, `endSession`, `beat`, `discard`, `markSessionLost`, `touch`, `getDriver`, `withoutImplicitWait`, contexts, device info | Appium (awaits), the registry (`onSessionLost` callback), the event loop (interval) |
| Element registry, `src/daemon/element-registry.ts` | `refs` | `store`, `retrieve`, `findElement`, `findAll`, `countMatches`, `retrieveElement`, `rehydratePositional`, `invalidateAll` | session manager, Appium |
| HTTP server, `src/daemon/server.ts` | none | token and touch hooks, `/health`, `/daemon/shutdown`, the error handler | session manager (`touch`, `markSessionLost`), `requestShutdown` |
| Routes, `src/daemon/routes/*.ts` | locals kept across awaits | session, element, action routes | session manager, registry, Appium |
| Daemon process, `src/daemon/index.ts` | `shuttingDown`, the bound port | `listenWithFallback`, `shutdown`, `forceExit`, `onSignal` | all of the above, the state file |
| State file, `src/shared/state-file.ts` | `daemon.json` | write, read, remove-if-owned, health probe, `findRunningDaemon` | daemon, every CLI command |
| Start lock, `src/shared/start-lock.ts` | `daemon-start.lock` | acquire, release, reclaim | concurrent `daemon:start` |
| `daemon:start`, `daemon:kill`, `src/cli/commands/` | none | spawn and wait; signal and wait | lock, state file, processes |
| Daemon client, `src/cli/daemon-client.ts` | none | one request with a timeout | HTTP |
| Accessibility tree, `src/cli/accessibility-tree.ts` | none (pure) | parse, prune, render | page source |
| Other CLI commands, types, constants, output | none | | |

**What is hard here.** The daemon is one JavaScript thread, so the code
between two awaits is atomic; everything difficult happens across awaits. A
call to Appium may take a minute or fail. Meanwhile other requests, heartbeats,
the idle timeout and the shutdown run; the session a continuation resumes
with may have been ended, lost or replaced. Around it, several processes share
the lock and state files and signal each other by recorded PIDs.

**What makes each component correct.**
- Session manager: one session at a time; none leaked on the Appium server;
  a stored session is always watched; a late answer to a call on an old session
  never harms the new one; a dead or idle session is eventually dropped.
- Registry and find: a reference is only resolved in the session it was found in;
  a lost session takes its references along.
- Shutdown: a clean exit has released the device; it always ends.
- Start lock, state file, start, kill: at most one daemon; a running daemon can
  always be found and stopped; nobody removes another's record or lock.
- Implicit wait: zero while any override is active, restored after the last.
- Positional references: never act on an element with another text; follow the one
  that moved when it is the only one that fits.
- Scrolls: a swipe stays on the screen and goes the distance; the client does not
  abort a scroll that is running as it should.
- Accessibility tree: a missing or stray end tag moves no later element, pruning
  drops no target, each row of a summary stands for its sibling value by value,
  and a summary can be undone.

The list of hazards, each at its line, with the properties that watch it, is in
`PROJECT.json`.

## 2. Plan

| Module | Content | State |
|---|---|---|
| `OneSession` | what the manager promises: a lease on one session at a time | checked, proved against |
| `SessionManager` | the manager, heartbeat, idle timeout, clients, Appium | checked, proved |
| `Daemon` | composes `SessionManager` with registry, find handler and shutdown | checked, proved |
| `StartLock` | concurrent `daemon:start`, each file operation a step, crashes | checked, proved |
| `Lifecycle` | composes `StartLock` with the state file, the daemons, the health probe and `daemon:kill` | checked, proved |
| `ImplicitWait` | `withoutImplicitWait`, overlapping waits and scrolls, session loss | checked, proved |
| `Gestures` | swipe geometry, the time a scroll may take and is given | checked, proved |
| `References` | fingerprints and `rehydratePositional` while the list shifts | checked, proved |
| `PageSource` | parsing a page source whose end tags may be missing or stray | checked, proved |
| `AccessibilityTree` | extends `PageSource` with pruning, printing, summaries | checked, proved |
| `TreeReader` | extends `AccessibilityTree` with the reader who undoes summaries | checked |

What would come next: a clock in `Lifecycle`, so that the relation of the time
limits (8 s for a forced exit, 10 s in `daemon:kill`, 15 s and 30 s in
`daemon:start`) replaces the fault `slow`; PIDs that are used again.

## 3. The models and the code

### OneSession
The abstract specification: `stage` is free, connecting or held; `session` the
session opened by the connect and then held; `used` the ids ever handed out.
`Begin`, `Open`, `Hold`, `GiveUp`. A session that was given up never returns.

### SessionManager
One action per stretch of code between awaits. `calls[c]` says what each
activation (an HTTP handler, a beat, the daemon's shutdown) waits for and the
session the call was sent to: the locals its continuation will resume with.

| TLA+ | Code |
|---|---|
| `driver` | `this.driver` and `this.sessionMeta`, always assigned together |
| `starting`, `failures`, `inFlight` | the fields of the same meaning |
| `timer`, `intervals` | `heartbeatTimer`, and the intervals that really run: an overwritten handle leaves one behind |
| `idle` | time since `lastActivityAt`, in ticks up to `IdleLimit` |
| `appium` | whether the server has opened, holds, or lost each session |
| `badBeats`, `released` | history variables for the properties; no guard reads them |
| `Arrive`, `Dismiss` | the `onRequest` hooks; requests that change nothing |
| `StartBegin` ... `CleanupSettles` | `startSession`, cut at `remote()`, `setTimeout()` and `deleteSession()` |
| `EndSession`, `EndBegin`, `EndSettles` | `endSession`, cut at `deleteSession()`; the finally block is unconditional, as in the code |
| `RequestBegin` ... `RequestReportsGone` | every other route and the error handler's `markSessionLost` |
| `BeatIdle`, `BeatSends`, `BeatAnswered`, `BeatFails` | `beat()` |
| `AppiumDrops`, `TimePasses` | the surroundings |

Details that are abstracted:
- A call that fails is not told apart by its cause, except `invalid session id`.
- A reply still on its way is part of the call: a call settles when its
  continuation runs. Deleting a session may or may not succeed.
- `remote()` failing after the server opened a session is not modelled: the
  daemon never learns its id.
- A beat that returns at once (no driver, another in flight) is a stutter.
- The number of activations bounds how many requests and beats overlap, not how
  many ever run.

### Daemon
Extends `SessionManager` with the registry (`refs`: the session of each
reference, and whether it was stored late), the find handlers (`finds`), and the
shutdown (`phase`, `exit`). `ManagerStep` is the manager's step together with
`onSessionLost`, which flushes `refs` in the same step. `FindBegin` joins the
hook's touch and `getDriver()`; `FindLocated` reads the session id and asks for
the matches; one match is stored at once (`FindCounted`), several with an await
before each (`FindAmbiguous`, `FindStores`). The second `invalidateAll()` of
`DELETE /session` clears what was just cleared and is part of `EndSettles`.
`server.close()` refuses new requests and waits for those in flight
(`Accepting`, `Drained`). After `exited` only Appium moves, so these runs do not
check deadlock.

### StartLock
Every file operation is a step of one of several processes.

| TLA+ | Code (`start-lock.ts`) |
|---|---|
| `lock`, `old` | `daemon-start.lock`: who created it, whether its PID is written, whether it is older than the grace period |
| `pc`, `text`, `age` | where a process is, and what its `readLock()` has read so far |
| `CreateLock`, `LockExists`, `WritePid` | `writeFile(.., {flag: 'wx'})`, which creates and then writes |
| `ReadText`, `ReadAge` | the two reads `Promise.all` starts, in either order |
| `RetriesLock`, `TakesForAbandoned`, `WaitsForLock`, `GivesUpLock` | the four ways on from `readLock()` |
| `ReclaimLock`, `Unlock` | `unlink`, of whatever is at the path by then |
| `ReleaseFindsOwn`, `ReleaseFindsOther` | `releaseStartLock()` |
| `StarterCrashes`, `LockAges` | the surroundings |

A file is named by its creator; a process writes into its own file also after
that was unlinked (`WritePid` then changes nothing). `LockAges` assumes that a
running creator writes its PID, and a reader makes its second read, within the
five seconds of the grace period. A process starts once.
`stolen` is a history variable: a reclaim removed the lock of a running process.

### Lifecycle
Extends `StartLock`. A daemon is named by the start that spawns it; the state
file is a daemon's record, `NoFile`, or `Blank` while it is being written.

| TLA+ | Code |
|---|---|
| `LookForRecord` ... `StartErases` | `findRunningDaemon()`: read, probe `/health`, `isDaemonProcessAlive`, the read and the unlink of `removeDaemonStateIfOwnedBy` |
| `Spawn`, `SeesRecord`, `StartHealth`, `ChildExited`, `StartupTimeout` | `spawn` and `waitForStartup()` |
| `StartFinishes` | the finally block: `releaseLock()` on every way out |
| `Listen`, `ListenFails` | `listenWithFallback()`: the first free port |
| `OpenState`, `WriteState`, `Chmod`, `ChmodFails` | `writeDaemonState()`: `writeFile` truncates, then writes; `chmod`; a failure ends the daemon |
| `Signal`, `CloseServer`, `ServerClosed`, `ForceExit`, `ChecksRecord`, `RemovesRecord` | `onSignal`, `shutdown`, `forceExit`, which run beside `main()` |
| `KillReads` ... `KillErases` | `daemon:kill` |
| `DaemonCrashes`, `StartDies`, `StartTime` | the surroundings |

The session and the requests inside the daemon are `Daemon`'s; here ending the
session is part of `CloseServer`. A health probe is answered by whichever daemon
listens at the recorded port, as in the code, which compares no PID. `Faults`
says what may go wrong: `crash` (of any process), `slow` (a live daemon misses a
probe or the startup timeout) and `signal` (from outside, at any time).
`accident` is a history variable over which no guard is stated.

### ImplicitWait
`overrides` is `implicitWaitOverrides`, `job` the handlers of `/elements/wait` and
`/actions/scroll` with both drivers a scroll takes; `queue` the commands a
session's server has still to execute, `implicit` its implicit wait. `Enters` and
`Leaves` are the two halves of `withoutImplicitWait()`: everything up to its
first await, and its finally block. A command that fails may have had its
effect (`Refuses`). Of the session manager only the steps of `OneSession` are
used. Assumed of Appium, which is external: one session's commands are executed
one by one in the order they were sent. `isInView()`, which sends one to four
commands, is one look.

### Gestures
One `/actions/scroll` from its request to its reply. `SwipeVector` is
`swipeVector()`, `ScrollTimeout` the CLI's `scrollTimeoutMs()`; `scroll` carries the
vector, which all swipes of a scroll share, and the time spent when each
command takes as long as it may: `CheckAllowance` for a check of the target
and for each command around the loop, the pause and the duration for a swipe.
`Rotates` turns the screen; `turned` remembers that it happened after the size
was read. A fraction of the screen is in hundredths and the arithmetic exact;
in the code's floating point numbers a product next to a half may be rounded to
the other side, by one pixel.

### References
`screen` is the list of elements the selector matches, which may change at every
await; `refs` the registry with `index` and fingerprint (`mark`); `use` the
locals of each request. `Fetches`, `Checks`, `Scans` are `rehydratePositional()`
cut at `driver.$$()` and at every `getText()`; the loop's `i === ref.index` reads
the live reference, as in the code. `found` (the element a reference was made
for) and `calm` are history; no guard reads them. The session does not change
here: what its loss does to references is in `Daemon`.

### PageSource
Documents are written element by element, and parsed as they are written:
`parser` is the state of `parseXml()`, `written` what the document means. An
element may lack its end tag, and a stray end tag may close nothing. `Parsed` is
one turn of the parser's loop: `Opened` for a start tag, `Closed` for an end tag.
Left out: escapes, quoting, comments and CDATA, the text between the tags.

### AccessibilityTree
Extends `PageSource`. A list is made by writing the last subtree again, piece by
piece (`CopyBegins`, `CopyGoesOn`), with another last element perhaps; `copy` says
which subtree is under way, so every state is one of a document that is cut off
somewhere. After the last copy no more is written. `ToAccessibilityYaml` is the renderer:

| TLA+ | Code |
|---|---|
| `Children`, `Rendered`, `RenderNode`, `Groups`, `Shifted` | `renderNode()`: of every node, at every depth; the children that print anything |
| `GetRole`, `GetName`, `IsHidden`, `GetStates`, `GetRect`, `GetBoundsParts`, `NodeWords` (`Words` is their table) | the functions of these names, and the line |
| `ShapeOf`, `TokensOf`, `RunEnd`, `WorthASummary`, `Detail`, `Note`, `Summary`, `CollapseRuns` | `collapseRuns()` |

A line is a depth and a sequence of words, of which some are tokens, the parts
that may differ between the siblings of a run. The `"="` in the note is in
quotes, so it is a token too, in the model as in the code. A tag is the sequence
of its parts. `InOrder` lists a set of numbered things by number, and `At` takes
what a sequence has at given positions: what `filter` does in the code. They are
written with cardinalities, not by recursion, so that they can be reasoned about.

### TreeReader
The reader the note addresses: `Expanded` replaces each note and its rows by
what the example becomes with their tokens (`Filled`), from the last note to the
first. It knows how many lines an example has (see section 4).

## 4. Runs

All runs use small sets of model values. Handlers, beats, sessions, finders,
starts and pollers are interchangeable where a run declares symmetry; no
constant is distinguished by any definition. The run with liveness uses no
symmetry.

| Run | Question | Bounds |
|---|---|---|
| `session_overlap` | Do the manager's invariants, its lease and its patience survive every overlap, and are dead and idle sessions always dropped in the end? | 2 sessions, 2 handlers, 2 beats, 1 shutdown, 3 failures, idle limit 1, fair |
| `session_alone` | Is a single client, without idle timeout, free of leaks? | 3 sessions, 1 handler, 2 beats, 3 failures |
| `daemon` | Does the shutdown let go of the session, a clean exit release the device, and every loss flush the registry? | 2 sessions, 1 handler, 1 beat, 1 shutdown, 2 finds, 2 matches, no idle timeout |
| `lifecycle` | When can a running daemon be lost, and does a kill tell the truth? | 2 starts and their daemons, 1 kill, 2 ports, all faults |
| `implicit_wait` | Does an override hold for every look, and is it undone? Are swipes right, and in time? | 3 requests, 2 sessions, 1 swipe; or one scroll: square screens of 1 to 40 and a phone, 9 fractions, up to 50 swipes |
| `references` | Does a shifting list ever lead a request to another element? | 2 requests, 1 reference, 9 lists of up to 3 elements, 2 texts |
| `tree` | Is the tree right, every target printed, each row in line with its example, a summary reversible? | 4 elements of 6 kinds and up to 4 copies of subtrees |
| `late_end` | Violated: a late `endSession` forgets a newer session | 1 handler, 1 beat, idle limit 1 |
| `late_report` | Violated: a late `invalid session id` discards a newer session | 2 handlers, no idle timeout |
| `late_reference` | Violated: a reference of a lost session reaches the next one | 1 handler, 1 find |
| `lock_race` | Violated: the start lock is not exclusive | 3 starts |
| `same_shape` | Violated: siblings that differ in structure share a shape | 1 document of 25 elements |

Why these bounds are enough:
- Sessions: every harm needs an old session, a new one and one continuation of
  the old (two sessions, two activations); a third session in `session_alone`
  shows that nothing builds up over a sequence. Two beats are needed to stack. A
  failure limit of 3 separates first, next and last failure. `IdleLimit` 1 tells
  idle from not idle; 0 is the documented way to disable it. `MaxMatches` 2
  gives a find with an await between two stores.
- `daemon` has no idle timeout: with one, the overlap of `late_end` makes the
  shutdown find no session while one is live, and `CleanExitReleasesTheDevice`
  fails for the reason that run already shows; two handlers would do the same.
  `ReferencesDieWithTheirSession` and `ShutdownLetsGo` are proved without these limits.
- `lifecycle`: two starts are enough for every accident listed below but the last; the
  race of `lock_race` needs a third and is excluded by `stolen`. Two ports let a
  second daemon listen beside the first.
- `implicit_wait`: a first, a last and one in between; a session and its
  successor. `ImplicitWait` and `Gestures` share no variable, so a behaviour of
  this run is one of either. The two directions of a swipe are computed apart, so
  squares cover them; sizes up to 40 give both roundings every remainder.
- `references`: lists of up to three elements of two texts contain none, one and
  two that fit, at, before and after the index, and the step from one to the
  other while the loop is reading.
- `tree`: four elements are enough for two hidden or wrapping ancestors above a
  target with a sibling; copies make runs of three inside a copied subtree, so
  that summaries nest. The kinds include a wrapper that is hidden, a nameless view,
  a clickable one, an invisible one and two cells of the same shape with another
  name and place. `Variants` limits what ends the rows of a list to one of them;
  a list that begins with the other has rows that differ from its example.

The theorems of section 5 hold without these bounds.

### What holds, and where it ends
`NoSessionLeaked`, `NoStrayInterval` and `ReportDropsTheReported` hold for one
client that waits for its replies, without the idle timeout (`session_alone`,
and proved in general). They do not hold beyond that, which is the content of
the first findings:

1. `late_end`: the idle heartbeat calls `endSession()`; while Appium works on it,
   the client's `DELETE` completes and a `connect` opens a new session; then the
   first `deleteSession()` settles, and its finally block
   (`session-manager.ts:221`) clears the new driver. The session stays live on
   Appium, with nobody to delete it. `beat()` compares `this.driver` with its
   local after the await; `endSession()` does not.
2. `late_report`: a request of an old session is answered `invalid session id`
   after a new one was opened; the error handler (`server.ts:140`) discards the
   new session.
3. `late_reference`: a find stores its reference after the session it named was
   lost and the registry flushed (`element.routes.ts:68`); a connect does not
   flush, so the reference can be resolved in the next session.
4. `lock_race`: a waiting start reads the PID of one that is just finishing. That
   one releases its lock and exits, and a third creates its own. The first now
   finds the PID it read dead (`isAbandoned`), its `unlink` (`start-lock.ts:44`)
   removes the fresh lock of the third, and it creates its own.

`ReferencesDieWithTheirSession` states the part of the third that does hold: the
flush itself is never late. `CleanExitReleasesTheDevice` excludes a connect
that overlaps the shutdown, where the code does leave a session behind
(`index.ts:93` sees no active session and exits 0). `ShutdownLetsGo` excludes only
that, and holds for any overlap of other requests, beats and idle endings: the
session the daemon still knows is always let go, and what a clean exit may leave
behind is a session it had already forgotten.

`RecordedUnlessAccident` is the counterpart of the fourth. It lists every way in
which the code can leave a running daemon that no command finds:
- a start that dies while it waits for its daemon (the next start may look
  before the daemon has recorded itself, and spawn another);
- a start that gives up after 15 seconds on a daemon that is still coming up;
- a live daemon that misses one health probe;
- a removal of the state file whose check came before another daemon's record
  (`state-file.ts:58`), by a start, a kill or a daemon on its way out;
- a lock taken from a running start.

Everything else the commands, daemons, crashes and signals do together is
harmless; in particular the removal between `writeFile` and `chmod`, the port of
a crashed daemon answered by another, and a shutdown during the startup.

`FollowsOrRefuses` holds unless something changes between the fetch of the
matches and the last text read. One such change is another request that follows
the same reference: the loop then skips the index the other has just moved the
reference to, finds none and reports `STALE_ELEMENT`. `ActsOnTheSameText` has no such
exception: the wrong element is never hit.

A summary (`SummariesLoseNothing`) can be undone by a reader who knows how many
lines the example has. The code does not print that number; with several lines
of the same depth before the note it has to be guessed. That is also behind the
fifth finding, a divergence from a comment, which the proof attempt brought up:

5. `same_shape`: `shapeOf()` (`accessibility-tree.ts:268`) is applied to lines in
   which inner lists are summarised already. A row with a disabled, nameless
   button and three layouts of two such buttons, and a row with three layouts of
   three of them, print the same lines: three buttons, a note, two rows. The
   comment says that subtrees that share a shape "differ only in their variable
   tokens"; these differ in seven and nine buttons.

`SummariesLoseNothing` therefore excludes documents with such siblings.
`RowsLineUp` excludes nothing: of two groups of lines in one run, the example and
the row give the lines of the sibling, as they would have been printed, with the
summaries that are in them.

### Fairness
`FairSpec` assumes only that the continuation of a call to Appium runs in the
end (webdriverio bounds each call by its own timeout and retries), that an armed
interval keeps firing (`setInterval`), and that the clock moves. It assumes
nothing of clients, nor that Appium answers well. `DeadSessionIsDropped` holds
because a dead session cannot answer a beat, so the failures add up to the limit;
`IdleSessionIsEnded` also needs the shared `heartbeatInFlight` to be released by
a beat whose session was replaced. The other modules state no fairness: nothing
in them is promised to happen in the end.

## 5. Proofs

All theorems hold for arbitrary sets of sessions, handlers, beats, shutdowns,
starts, kills, ports, requests, lists and texts, and any limits, under the named
assumptions of the modules: `NoSession` is no session, the three kinds of
activations are disjoint, `FailureLimit` is positive, the other limits are
natural numbers, the marks for nothing (`NoLock`, `NoFile`, `Blank`, `NoRef`,
`NoText`) differ from what they are no instance of. `ImplicitWait` counts, so
its set of requests is finite; a list shows an element once.

**`SessionManagerProofs`.** The invariants are not inductive one by one. `IInv`
joins `TypeOK`, `OneStartAtATime`, `SessionIsWatched`, `BeatsNeverStack` and
`FailuresAreItsOwn` with three facts about what activations remember:
`CallsNameSessions` (a waiting call names a session), `WaitsOn`/`Opened` and
`DriverWasOpened` (it is one Appium opened, so a newly opened session is named
by no old call). The last is what makes a late failure or answer recognisable:
the identity test in `beat()` cannot confuse an old session with a new one.
`IInvStep` proves it action by action. From it follow the five invariants, the
action property `HeartbeatIsPatient` (`DiscardStep`), and `Refinement`: each step of
the manager is a step or a stutter of `OneSession` (`LeaseStep`, with `OneConnect`
for the session of the connect under way).

Under `SoloClient` (one handler, no shutdown, no idle timeout) the three
properties that fail in general are proved as well. `SoloInv` says what makes
the difference: an `endSession()` under way is on the stored session
(`EndsAreCurrent`), a request under way is on it too (`RequestsAreCurrent`), and a
session being cleaned up or ended has had its deletion tried. The shutdown is no
client, so `SoloStep` is proved for `OneAtATime` (one handler, no idle timeout) with
any number of shutdowns, as long as no connect overlaps one (`ConnectsAlone`).

**`DaemonProofs`.** `DaemonKeepsIInv` carries `IInv` over to the composition: a
step of the daemon is a step of the manager, a stutter of it, or a find's touch.
`DriverChanges` shows that the stored session never becomes another without
being lost first, so a step that does not flush cannot make a reference stale
(`ManagerKeepsReferences`). `DInv` adds `FindsNameSessions`.
`DaemonHoldsOneSession` and `DaemonHeartbeatIsPatient` say that the daemon as a whole
still implements `OneSession`, and discards only what is unresponsive: a find
moves neither the lease nor a count.

For the shutdown there are two results. `HeldSessionIsLetGo` assumes nothing: unless a
connect overlaps the shutdown, the session the daemon holds from its first step
on is one whose deletion was tried (`ShutdownLetsGo`). It needs that nothing is being
started (`NothingStarts`), as outside a connect no session is stored (`NothingStored`),
and that only the shutdown occupies an ender (`ShutdownIsUnderWay`). `CleanExit` proves
`CleanExitReleasesTheDevice`, which speaks of all sessions, under `OneAtATime`; any
number of finds may overlap anything. `NothingStarts` gives `ConnectsAlone`, so `SoloInv`
carries over (`CleanStep`). When the server has drained no connect holds a session
either; `NoSessionLeaked` leaves the stored session, which was let go, and what was
released before (`ExitStep`). The hypothesis is needed: the overlaps of `late_end` and
`late_report` leave a session live that the shutdown does not see.

**`StartLockProofs`.** `LInv` ties the lock to its owner in both directions:
unless stolen, the lock names whoever holds it (`HolderIsNamed`), and whom it
names holds it or crashed (`NamedIsHolder`). The second is what makes a check
that finds the owner dead worth anything. `OwnerSeesItself` is needed for
`NoneLeftBehind`: what the owner reads of its own lock while releasing it is its
PID, so it never takes its lock for another's.

**`LifecycleProofs`.** `LockRefined` shows that a step of the life cycle is a step
or a stutter of the lock, so `LInv` carries over. `Always` has what holds
whatever happens: a record is only ever that of a daemon that wrote it, what a
kill found dead stays dead (`KillerKnows`), which gives `KillTellsTheTruth`.
`WhileCalm` holds until an accident: every live daemon is waited for by its
start or recorded (`AccountedFor`), the file of a daemon being waited for is its
own or nobody's (`FileOfTheNewDaemon`), and the holder of the lock knows the
one active daemon (`HolderKnows`): none when it spawns, the recorded one when
it probes, its own when it waits. Each kind of step is shown to keep these, or to be an accident.

**`ImplicitWaitProofs`.** The count is a cardinality, so each action is reduced to one of three
moves of one request: it stays, it enters a session or it leaves one (`Stays`,
and the lemmas after it). `Placed` says that who is inside is inside a session.
For the wait itself (`AbsenceIsSeenAtOnce`, `LastOneRestores`) the commands still in
the queue have to be reckoned with. `Settled` says what the wait of the current
session is, or will be: zero, or a lowering on its way, while the count is
positive; the default, or a restoring on its way, when it is zero; and no look or
lowering is sent before a change of the wait (`InOrder`). It is kept because the
sender of each command waits for it (`Awaited`), so a request that has yet to
leave cannot have its restoring in the queue; because a new session has an empty
queue (`Fresh`); and because a scroll's two drivers agree when its own is the
current one (`Known`).

**`ReferencesProofs`.** `RInv` follows the recorded text through the loop: what a
request has in hand or noted as moved has the mark's text (`Fits`), the element of
a request under way is in the list it fetched, and references only change their
index (`Keeps`), so steps of one request keep this for all others (`StaysGood`).
`DecidesAsIfAtOnce` needs more of a request that nothing disturbs (`Steady`): its
reference still has the index it began with, which is what the scan leaves
out; the index it leaves out does not fit; and what it has noted so far is
exactly what fits in the part it has read.

**`GesturesProofs`.** `RoundIsNear` bounds the rounded products, by nonlinear steps
that the solver cannot find by itself: 95 hundredths leave room for both
roundings on any screen (`VectorFits`), and twice the half is the whole but for a
pixel (`VectorGoes`). `VectorIsKept` holds from the moment the size is read.
`TimeInv` bounds the time by the place in the handler and the number of swipes;
the limit of 50 swipes is needed, as the pause in each is not in the allowance.

**`AccessibilityTreeProofs`.** For the parser, `PInv` joins `TreeTypeOK` and
`ParsesWhatIsMeant` with the shape of the parser's record, `RootIsFirst`, and
`DocumentOrder`: every subtree is an interval of the nodes. `ElementStep` serves start
tags and self-closing ones, `EndStep` end tags; `ClosesTheRightOne` shows that the
innermost element with the tag is the one that is meant. Documents and their
lists may be of any length; `CopyStep` shows that a copy is written by the same pieces.

What is printed is a function of the tree, so the other three theorems are
consequences of `PInv`, by induction over the nodes from the last to the first
(`FromAbove`) and over sequences (`Induction`). The induction theorems of the library
cannot be used, but a least counterexample of a set of numbers exists by `WFMin`,
and the recursive functions are shown to be what their equations say
(`DownwardFunction`, `RenderedIs`, `CollapseIs`).

- `EveryTargetIsPrinted`. The lines of a subtree are its printed nodes in order,
  each at its depth (`Lists`): a statement about sorted sets. The subtrees of
  the children are intervals one after the other, so their lists concatenate
  to one (`ListsBoth`), under the node itself or in its place.
- `SummariesOnlyShorten`. At each node the summarised lines are no more than the
  full ones and empty only with them (`Fits`). `RunFits` has the arithmetic: a run
  of n groups, which by its shape have the same number of lines, m >= 2, becomes
  m + n lines instead of m * n or more, and n >= 3.
- `RowsAlwaysLineUp`. All that is printed are lines of words (`RenderedLines`), and
  groups of one run have the same shape (`RunIsThere`). From a shape follow, line by
  line, the same depth and number of words, and that the words agree but for
  tokens in the same places (`SameShape`, `Aligned`). Hence the n-th token of one
  is at the place of the n-th token of the other (`PlaceIs`), and putting the row
  into the example gives the sibling (`FilledIn`); `=` cannot be mistaken, because it
  is no token.

**Only model-checked.** Liveness (`DeadSessionIsDropped`, `IdleSessionIsEnded`: they
need fairness, which is out of the prover's reach); `SummariesLoseNothing`, whose
reader is a RECURSIVE operator (what one row and its example give is proved, that
undoing all of them one after the other gives the whole list is not); and the
five violations.

## 6. Not modelled

- CLI commands other than `daemon:start` and `daemon:kill`: each validates its
  options, sends one request and prints the reply; nothing survives it. The
  client's `request()` has one await and no retry; that a client gives up while
  the handler runs on is in `SessionManager`, where a handler is not bound to its client.
- PIDs that are used again: `kill(pid, 0)` then takes a stranger for a daemon. The
  code has no defence, so a model would only restate it.
- A lock file that exists and cannot be read: `start-lock.ts:41` retries without
  delay and without its deadline.
- Token comparison, JSON parsing and body validation appear as requests that
  change nothing; schemas, wording, output, logging and the mapping of errors to
  codes and hints keep no state.
- Selector strategies, context names, capabilities, screenshots and other data.
- Video, app and context commands are requests of `SessionManager`.

## 7. Files

| Module | Instance | Configurations | Proofs |
|---|---|---|---|
| `SessionManager`, `OneSession` | `MCSessionManager` | `SessionOverlap`, `SessionAlone`, `LateEnd`, `LateReport` | `SessionManagerProofs` |
| `Daemon` | `MCDaemon` | `Daemon`, `LateReference` | `DaemonProofs` |
| `StartLock` | itself | `LockRace` | `StartLockProofs` |
| `Lifecycle` | `MCLifecycle` | `Lifecycle` | `LifecycleProofs` |
| `ImplicitWait`, `Gestures` | `MCImplicitWait` | `ImplicitWait` | `ImplicitWaitProofs`, `GesturesProofs` |
| `References` | `MCReferences` | `References` | `ReferencesProofs` |
| `PageSource`, `AccessibilityTree`, `TreeReader` | `MCAccessibilityTree`, `MCSameShape` | `Tree`, `SameShape` | `AccessibilityTreeProofs` |

Definitions with an underscore (`MayStart_DriverOnly`, ...) are plausible bugs of
the definition they precede; `PROJECT.json` says which property each of them breaks.
