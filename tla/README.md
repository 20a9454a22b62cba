# A verification of lttng-ivc

lttng-ivc checks the inter-version compatibility of the LTTng projects: it
builds many versions of lttng-ust, lttng-tools, lttng-modules, babeltrace and
urcu, and runs tests that mix them. This directory holds TLA+ modules that model
its code, TLC configurations that model-check them, and theorems that the TLA+
proof system checks. Line numbers refer to `src/lttng_ivc`.

## 1. The system

Three programs run one after the other, each a Python process: `bootstrap.py`
resolves `config.yaml` into `runtime/run_configuration.yaml`, `build_projects.py`
fills the project cache, and `pytest` runs the tests, which use the cache and
start daemons and traced applications.

| Component | State | Operations | Talks to |
|---|---|---|---|
| Run configuration (`config.yaml`, `bootstrap.py`) | `run_configuration.yaml`: for each label (marker) its project, commit and dependencies | read config, check dependencies, fetch, resolve references, write | git remotes; read by everything else at import |
| Project cache (`utils/ProjectFactory.py`) | `projects_cache/<label>/` with `source`, `install` and `<label>.pickle`; the markers and the checksum of `project.py` loaded at import | `get_precook`, `_validate_pickle`, `get_fresh` | project objects, recursively its own dependencies |
| Project object (`utils/project.py`) | `isConfigured`, `isBuilt`, `isInstalled`, `skip`, `_immutable`, `dependencies`, special environment variables, its directories | constructor (wipe, checkout, bootstrap), `configure`, `build`, `install`, `rpath_strip`, `autobuild`, `cleanup`, `get_env` | git, make, chrpath; the objects of its dependencies |
| Build driver (`build_projects.py`) | none | `get_precook` for every label that is not deprecated | project cache |
| Test matrix (`settings.py`) | lists of deprecated projects and of scenarios | `generate_runtime_test_matrix` | markers |
| Runtime (`utils/runtime.py`) | registry of subprocesses and of their open files, projects of the environment, whether the test module is loaded, temporary `lttng_home` | `spawn_subprocess`, `run`, `subprocess_{signal,terminate,kill,wait}`, `load/unload_test_module`, `close` | daemons, applications, `lttng` commands |
| Daemon startup (`utils/utils.py`) | the handler of SIGUSR1, ports found free | `sessiond_spawn`, `relayd_spawn`, `wait_for_file`, `create_empty_file`, `find_free_port` | Runtime, signals, files |
| Traced applications (`apps/`) | iteration count, synchronisation files | `create_file`, `wait_on_file`, `usleep_safe`, events | driver through files; session daemon |
| Test scenarios (`tests/`) | the sequence of one test | the `lttng` commands and assertions of a scenario | all of the above |

What is hard in it: the cache outlives the processes, which may be killed
anywhere (ctrl-C of an hour-long build is the normal way to stop it), while its
sources change under it; a project is a tree whose parts live in directories
that other calls wipe and rebuild; drivers, daemons and applications synchronise
by signals, files, log lines and timeouts of a minute; cleanup happens in
`finally` clauses that may raise themselves.

What makes each component correct:

* project cache: a returned project is what the sources describe, whatever was
  in the cache; what the cache accepts is true of the directories; what is valid
  is immutable; calls end; leftovers of a kill are rebuilt;
* project object: what `autobuild` returns is configured, built, installed and
  stripped, on dependencies that are installed, whatever was tried before;
* run configuration: every dependency is a marker, every marker one commit, the
  one its remote has; what is built and tested is this run's configuration;
* test matrix: what the tests ask for is what the build driver has built;
* Runtime: after `close` no process is left and every error has been reported,
  and nothing else was killed for it;
* daemon startup: a daemon is ready when its spawn function returns, or the
  function raises; the driver survives a late daemon;
* scenarios: driver and application do not wait on each other for ever, and the
  outcome of a test does not depend on the order of independent events.

The modules, each with an `MC...` module and its `.cfg` files for TLC:

| Module | Models | Uses | Proofs |
|---|---|---|---|
| `RunConfiguration` | bootstrap.py, build_projects.py, settings.py | | `RunConfigurationProofs` |
| `PrecookCache` | ProjectFactory.py, project.py as it drives it | refines `PrecookPromise` | `PrecookCacheInv`, `PrecookCacheProofs`, `PrecookCacheHonesty` |
| `ProjectObject` | project.py as a test drives it | | `ProjectObjectProofs` |
| `Runtime` | runtime.py | refines `RuntimePromise` | `RuntimeProofs` |
| `RuntimeInterrupts` | runtime.py under ctrl-C | EXTENDS `Runtime` | `RuntimeInterruptsProofs` |
| `DaemonStartup` | the daemons' start, utils.py | | `DaemonStartupProofs` |
| `SnapshotScenario` | the snapshot tests, with their application | EXTENDS `Runtime` | `SnapshotScenarioProofs` |

## 2. What is modelled: the project cache

`PrecookCache` models `get_precook` (ProjectFactory.py:108-150) with
`_validate_pickle` (72-105) and the construction and build of a `Project` it
drives (project.py:37-82, 163-205, 207-353, 362-398).

| TLA+ | Code |
|---|---|
| `files` | `run_configuration.yaml` and `project.py` on disk |
| `loaded` | `_markers` and `_project_py_checksum`, loaded at import (ProjectFactory.py:42-48) |
| `running` | a Python process is alive |
| `stack` | the nested calls of `get_precook`, each with the statement it is at, the dependencies it still has to get and the object under construction |
| `answer` | the label asked for by the outermost call and how the call ended |
| `install[l]` | the installation directory of `l`: the sources it was made from, those it was linked against, and whether its rpath is stripped |
| `pickle[l]` | the pickle of `l`: absent, truncated, or an object |

A `Project` object with its nested `dependencies` is the set of its nodes
`[label, sha, py, deps]`. `_validate_pickle` walks the tree and compares every
node with the markers by label; it cannot see more than this set shows, and a
node names the labels of its own children.

Each statement of `get_precook` that changes state or may raise is an action:
the lookup (`UnknownLabel`, `LoadFails`, `CacheHit`, `CacheStale`, `CacheMiss`),
the constructor (`Construct`, `ConstructFails`), the loop over the dependencies
(`CallDependency`, `RecursionLimit`), autobuild (`Configure`, `Make`, `Install`,
`RpathStrip`, `BuildFails`, `ModulesSkip`) and the pickle (`OpenPickle`,
`DumpPickle`, `DumpFails`). They are separate actions because `Stop` (the end of
the process, or its kill) may come between any two of them, and that is where
the files differ. `open(path, 'wb')` and `pickle.dump` are two steps: in between
the file exists and is empty. `Edit` changes the files by a pair of the constant
`Edits`: `bootstrap.py` run on an edited `config.yaml` or after a branch moved,
or an edit of `project.py`. With `EditedDuringRun = FALSE` only the run
configuration changes while a process runs.

Abstractions: the contents of a directory are the identities of what was
compiled into it; environment, logs and output are left out; two Python
processes never use the cache at the same time (README and `tox.ini` run them in
sequence); a failure of `cleanup`, of `os.path.exists` or of `pickle.dump` half
way is the same as a kill or `DumpFails` at that point. `project.py` of a
running process is the version imported, and what it installs records that
version. That lttng-modules are nobody's dependency is `ConfigsAssumption`, true
of `config.yaml`; a label never changes its project, since the name contains it.

`PrecookPromise` is the abstract specification: there are sources, a running
process, a label asked for, a project given, and a set of cooked projects that
is closed under dependencies, grows one project at a time after its dependencies,
and is never lost to a call, a failure or a restart while the sources stay. The
refinement mapping reads `cooked` off the disk: the labels whose pickle is valid.

### Properties

* `TypeOK`.
* `ReturnedMatchesMarkers`: what is returned is the complete tree the markers
  and `project.py` of the process describe.
* `ValidCacheIsHonest`: a pickle the process would accept is backed by the
  directories of all projects of its tree: installed, stripped, made from the
  recorded sources against recorded installations. `get_precook` returns such a
  pickle without a look at the directories, which other calls wipe and rebuild.
* `ReturnedIsCached`: the returned project is the one asked for and the next
  call will hit the cache (proved; no run lists it beside `KeepsPromise`, which
  says nearly as much).
* `DependenciesInstalled`: `make` never runs against a missing dependency.
* `ImmutableWhileValid` (action property): nobody touches a valid pickle or an
  installation it vouches for.
* `KeepsPromise`: refinement of `PrecookPromise`.
* `LimitOnlyIfDeep`: a call reaches the recursion limit only when the projects of
  the run configuration cannot be numbered below it, each after its
  dependencies, that is, when they depend on each other in a circle or in too
  long a chain. `get_precook` recurses without a check, and `bootstrap.py`
  accepts both.
* `CallsEnd` (liveness): every call ends.
* `LeftoversAreRebuilt`: a kill leaves nothing that stops a later call. The code
  violates this one.

### Runs

| Run | Instance | Result |
|---|---|---|
| `precook_cache` | two histories of the run configuration over four labels: the dependencies of `config.yaml` (lttng-tools on lttng-ust and urcu, lttng-ust on urcu), then urcu moves, then lttng-tools drops urcu; and lttng-modules that may not build, whose marker then disappears while two others come to depend on each other; two versions of `project.py`, recursion limit 4; 87 000 states | all safety properties and the refinement hold, every call ends |
| `precook_killed` | two labels, no edits | violates `LeftoversAreRebuilt` |

Why the bounds are enough to be interesting: three labels give a dependency that
is shared and one that is transitive; three configurations give a pickle two
versions old, a commit that changes below a project that does not, and a
dependency list that changes; no bound is put on the number of processes, calls,
kills or failures. `MaxDepth` stands for the recursion limit of Python and is
only reached with the cycle (`LimitOnlyIfDeep`). No configuration and no `project.py` of a history
comes back (`OnlyForward`), and `project.py` changes between two processes only
(`~EditedDuringRun`). Neither can be given up:

* `cleanup()` keeps the pickle. If the process is killed before the constructor
  wipes the directory and the user goes back to the configuration the pickle was
  made for, the pickle is valid again and the installation is gone: `make` of
  another project then runs against an empty directory (`DependenciesInstalled`
  fails on the edits `A -> B -> A`).
* The constructor takes the checksum of `project.py` from the disk
  (project.py:55), the process runs the code it imported. An edit during a run
  records what the old code built as the new code's (`ValidCacheIsHonest` fails
  with `EditedDuringRun = TRUE`).

No document of the repository promises either, so they are assumptions here and
not findings.

Fairness, for `CallsEnd` only: weak fairness of `GetPrecook`. The process is
sequential code in which every statement ends by success or by an exception, so
it takes its next step unless it is killed. Nothing is assumed of edits, starts,
requests or kills.

### Finding

A process killed between `open` and the end of `pickle.dump` leaves an empty
file. `os.path.exists` holds, `pickle.load` raises, nothing removes the file: the
label cannot be built again by hand of the program (`precook_killed`).

### Theorems

`PrecookCacheInv` states the inductive invariant, `PrecookCacheProofs` and
`PrecookCacheHonesty` hold the proofs. They are for all labels, configurations,
edits and recursion limits.

* `TypeCorrect`, no assumption. The strengthening `KnownInv` adds that a call at
  work asks for a label the configuration has (else `NodeOf` has no value) and
  that nothing is in progress when no process runs.
* `LimitNeedsDepth`, no assumption. `RankInv` adds that the dependencies a call
  still has to get are among those of its label, and that under any numbering
  (`Ranks`) the number of a label in the stack and its place together stay within
  the limit: a nested call is one place deeper and has a smaller number. At the
  limit the innermost call lacks a dependency, whose number would be negative.
* `ReturnedMatches`, assuming `~EditedDuringRun`; the sources may go back and
  forth. `MatchInv` adds that readable pickles hold complete trees
  (`PicklesComplete`) and that an object under construction lacks exactly the
  dependencies its call has still to get (`FramesSound`).
* `CacheHonest`, `AnswerCached`, `MakeFindsDependencies`, `CacheImmutable` and
  `CacheKeepsPromise`, assuming `~EditedDuringRun` and `OnlyForward` (what an
  edit replaces of a project's description does not come back, `NeverReturns`).

The argument of the last group (`CacheInv`): a call writes only in the directory
of its own label, and only after it found no valid pickle there
(`WritesOnlyInvalid`); the parts of a valid tree have valid pickles of their own
(`PartsCached`, `PartsValid`); so no write falls on anything a valid pickle
vouches for (`Undisturbed`). A pickle that becomes valid is one just dumped. Its
nodes are the project's own, whose installation the call has just made, or come
from dependencies whose pickles were valid when got and still are. A caller
with the same label further down the stack, as a dependency cycle would make
it, is impossible: it waits for a dependency the completed call has got
(`CallersDiffer`). Across processes a pickle that the new process accepts was
valid under older sources (`PickleOrigins`), hence, because what is replaced
does not come back, under all sources in between (`Convex`): it was trusted, and
protected, by every process before (`AcceptedBefore`).

Model-checked only: `CallsEnd`, a liveness property, which the prover cannot
handle. `LimitNeedsDepth` is its half about how a call may end.

## 3. What is modelled: Runtime

`Runtime` models the class of the same name in utils/runtime.py and
`get_runtime`, which closes it in a `finally`. A test runs in the body of
`with get_runtime(...) as runtime`.

| TLA+ | Code |
|---|---|
| `projects` | `__projects` |
| `registry` | the keys of `__subprocess`, in the order `close` goes through them |
| `state`, `rc`, `signalled` | what the kernel and `Popen` know of each subprocess: not yet spawned, running, a zombie, or waited for; its return code; whether a SIGTERM is pending |
| `files` | the subprocesses whose two log files (`__stdout_stderr`) are open |
| `flag`, `kernel` | `_is_test_modules_loaded`, and what the kernel holds: none, some or all of the test modules |
| `pc`, `target`, `check` | the statement the driver is at, and the arguments of the call |
| `next`, `failures` | the position and `subprocess_execeptions` of `close` |
| `outcome` | how the `with` statement ended: the last exception raised |

The driver is one thread; the subprocesses run beside it and may end between
any two of its steps (`Exit`), by themselves with or without an error, or of a
SIGTERM they were sent. A call that waits is therefore several actions: it sends
the signal and blocks (`subprocess_terminate`, `subprocess_wait`), and then
returns or times out (`WaitReturns`, `TermTimeout`); a kill is the decision,
`KillGroup`, and `KillReturns`. `subprocess_kill` does not ask whether the process
was waited for: then `os.getpgid` raises (`KillRaises`), or finds that the pid is
another process's by now, which `killpg` kills (`KillGroup`). The same actions serve the calls of `close`
(`CloseNext`), as in the code; what follows a return differs (`CallReturns`).

Abstractions: every subprocess is spawned once (its uuid) and its process group
is the process itself; the body calls whatever it likes in any order, so that
every test is one of its behaviours; `run` changes nothing here and is modelled
by its failure (`BodyRaises`), as is a `Popen` or `get_env` that raises;
`get_env` raises when two projects define the same special variable
(`EnvRaises`), its values do not matter; no project is added twice;
`load_test_module` may fail with some dependencies loaded.

`RuntimeInterrupts` adds ctrl-C. The subprocesses run in sessions of their own
(170), so that only the driver gets the signal, as an exception between any two
bytecodes. What a statement of `Runtime` does in one step may then be half done,
and the actions say what the halves are:

| TLA+ | Code |
|---|---|
| `Interrupt` | between two statements, or blocked in a wait: in the body like any exception, in `close` the end of it (`cut`) |
| `InterruptReaping` | `Popen.wait`, which on KeyboardInterrupt gives the process another quarter of a second and reaps it, before the files are closed (109-115, 132-139) |
| `InterruptSpawn` | between `Popen` and the entry in `__subprocess` (170-171): the process is in `lost`; its files may be open or not, as the frame of the call lives on or not |
| `InterruptFiling` | between that entry and the one in `__stdout_stderr` (171-172): the process is registered and in `unfiled` |
| `NoFiles` | the KeyError that `subprocess_terminate` or `subprocess_kill` raises for such a process after its wait (113, 125), which nothing in `close` catches |
| `InterruptLoad` | `modprobe`, which is interrupted too, or the line before the flag is set (298-299) |

The interrupted body is closed by the actions of `Runtime` itself, except that a
wait for an `unfiled` process comes back with `NoFiles` (`InterruptedWaiting`), and
the user may press ctrl-C again. `Runtime` goes through the registry in the order
of insertion, which matters to none of its properties; where an entry without
files stands decides what comes behind it, and the dictionaries of Python 3.5
(src/README:13) have no order, so `InterruptFiling` puts it anywhere.

`RuntimePromise` is the abstract specification, what a test may rely on without
knowing of registry, calls or the order of the loop: subprocesses are spawned in
the test only; each ends at some time, with an error or not; one that has ended
may be waited for; and the statement is over only when each has been waited for,
raising the errors of all that failed, or saying that it broke off (the copy of
`lttng_home` or the unloading raised). The mapping reads the phase off `pc`, the
sets off `state` and `rc`, and the report off `outcome` and `failures`.

### Properties

* `TypeOK`.
* `NoSurvivor`: when the `with` statement is over, however the test and `close`
  ended, no subprocess is alive or a zombie and no file is open.
* `FailuresReported`: `close` raises the errors of exactly those subprocesses
  that ended with one, also of those the test had dealt with and of those whose
  return code a timeout made `subprocess_terminate` forget.
* `FilesFollowProcesses`: the log files are open until the wait, never longer.
* `ReapedIsFinal` (action property): a process that was waited for is never
  signalled through its `Popen` again and keeps its return code, though `close`
  terminates all of the registry. Its pid may be somebody else's, and
  `subprocess_kill` does not ask: it is entered for such a process by the test
  only, never by the timeout of `subprocess_terminate`; and SIGKILL reaches another
  process than the one meant only out of such a call of the test, never in `close`.
* `KeepsPromise`: refinement of `RuntimePromise`.
* `CloseNeverBlocks`: what `close` waits for without a timeout has ended, also
  when the body left its call in the middle, so no process can hang it.
* `CloseAdvances` (action property): each step of `close` leaves fewer of them;
  `StepsLeft` counts at most four for each entry of the registry and four after
  the loop. It never goes back, and only the ends of subprocesses come between.
* `CloseEnds` (liveness): `close` ends, whatever the subprocesses do.
* `InterruptedIsClean`: if `close` itself is not interrupted, every registered
  process has been waited for at its end and its files are closed, also those an
  interrupted wait had reaped. Two kinds survive, both of a ctrl-C in the three
  statements of a spawn: what was lost before it was registered, and what comes
  in the registry behind an entry without files (`Behind`), since `close` dies
  there.
* `InterruptedIsReported`: without such an entry the failures `close` raises are
  those of exactly the registered processes; with one `close` always ends in the
  KeyError.
* `AlwaysTriesToUnload`: `close` tries to remove the modules that a test has
  brought into the kernel. The code violates this one.

### Runs

| Run | Instance | Result |
|---|---|---|
| `runtime_close` | two subprocesses, two projects that exclude each other; 89 000 states | `NoSurvivor` and the refinement hold |
| `runtime_interrupted` | the same, with ctrl-C any number of times or never; 157 000 states | `InterruptedIsClean`, `InterruptedIsReported`, `ReapedIsFinal` and `CloseAdvances` hold and `close` ends |
| `runtime_partial` | one subprocess | violates `AlwaysTriesToUnload` |

Two subprocesses give a failure of the first while the second is alive, and a
registry `close` has half gone through; nothing else is bounded. The driver
stops when the statement is over, so deadlock is not checked.

What a behaviour without ctrl-C does the second run checks as well, hence
`ReapedIsFinal`, `CloseAdvances` and `CloseEnds` are there. `FailuresReported` and
`FilesFollowProcesses` are proved and listed in no run: the refinement and
`NoSurvivor` say the first and what the second is for. `CloseNeverBlocks` is
proved; that it holds of the instance follows from `CloseEnds`.

Fairness, for `CloseEnds`: weak fairness of `Waiting` and of `Close`. The user may
press ctrl-C or not. The driver is sequential; the wait of `subprocess_terminate`
has a timeout, after which SIGKILL is not refused. Nothing is assumed of the
subprocesses or of the body, where `subprocess_wait` may block for ever.

### Finding

`close` says it always tries to remove the test module. It does so only when
`modprobe` had succeeded as a whole: after a failure half way the dependencies
it loaded stay in the kernel (`runtime_partial`).

### Theorems

`RuntimeProofs`: all safety properties above, for any number of subprocesses and
projects and any conflicts between them (`TypeCorrect`, `NothingSurvives`,
`FailuresAreReported`, `FilesFollow`, `ReapedStays`). None is inductive. The
inductive invariant `Inv` is the conjunction of `TypeOK` and of

* `Consistent`: the registry holds what was spawned; state, return code and
  files of each process agree;
* `InCall`: a call at work has a process of the registry, in `close` the next
  one, and what `close` is about to kill was not waited for (what the test kills
  may have been);
* `Noted`: the entries before `next` were waited for, and `failures` holds those
  of them that failed;
* `Ending`: the outcome agrees with `failures`.

The registry may hold a process twice as far as the types go, so `Noted` speaks
of the processes `close` has dealt with (`Dealt`) rather than of positions; at
the end of the loop these are all that were spawned.

`ReapedStays` is a conjunction of three facts about a step: what was waited for is
left alone (`ReapedLeftAlone`), how `subprocess_kill` is entered (`KillEntered`),
and whom its SIGKILL reaches (`OneIsKilled`, by `InCall`).

`RuntimeKeepsPromise` (`Spec => KeepsPromise`) goes through the actions under
`Inv`: a step of a call or of `close` is a stutter unless it spawns, leaves the
test, is told that a process has ended (`Collect`; `InCall` and `CloseNeverBlocks`
are about which), or is the last (`Over`, where `Noted` and `Ending` give the
report).

`CloseIsNotBlocked` and `CloseGoesOn` need one more invariant, `Advancing`:
`close` goes at most one position past the registry, and what it is about to reap
has ended; `InCall` adds that it is never in `subprocess_wait` and that a call is
about the entry at `next`. With these each statement of the loop lowers
`StepsLeft`: within an entry by its rank in `StepsToNext`, from one entry to the
next because four statements are paid for the entry that is left (`StepOfClose`).
Nothing raises it and each subprocess ends once, so `close` takes boundedly many
steps; that the driver takes them is the fairness of `CloseEnds`.

`RuntimeInterruptsProofs` (`InterruptedClean`, `InterruptedReported`,
`InterruptedStaysReaped`, `InterruptedGoesOn`) reuses what these lemmas say of the calls and of the
loop (`Rest`), since an interruption of the body is one more exception. It
replaces `Consistent`, which is no longer true: `Registry` says that the registry
holds what was spawned and not lost, `Closed` that what `close` has dealt with
has no file open, `Filed` that an entry without files is still ahead of `close`:
the ctrl-C that made it (`FilingAdds`) has ended the body. Both ways of leaving `close` half way, the user and the KeyError,
go to "over" with entries left; of the second `Left` says that it stands at an
entry without files (`LeftAt`), so that what it did not look at is `Behind`. From
then on only processes end. `Advancing`
holds until `close` is interrupted, which ends it, so that `CloseAdvances` holds
under ctrl-C as well. `CloseEnds` is model-checked only, in both modules.

## 4. What is modelled: daemon startup

`DaemonStartup` models `sessiond_spawn`, `relayd_spawn` and their helpers
(utils/utils.py:69-150), and the wait for a viewer of
tests/babeltrace/live/test_babeltrace_live.py:141-161, over any number of tests
that one driver runs one after the other.

| TLA+ | Code |
|---|---|
| `pc`, `target`, `cue`, `polls` | the statement of the driver; daemon, text and count of the wait it is in |
| `handler`, `previous` | the disposition of SIGUSR1 and `previous_handler` |
| `status` | each daemon: not spawned, starting, ready, ended |
| `claims` | the ports on the command lines |
| `log` | the kinds of lines a relay daemon has written |
| `viewers` | relay daemons a babeltrace was started against |
| `returned`, `early` | history: the daemons whose spawn function has returned, and those whose did before they were ready (relay daemons: before the cue) |

The statements of `sessiond_spawn` are separate actions, since the signal may
fall between any two. `Sigusr1` says what it does: taken by `sigtimedwait`, or
swallowed by the dummy handler, or the end of the driver. The daemons are
external: a session daemon signals once when it becomes ready, a relay daemon
writes its cue when it does, either may end at any time. A daemon binds its ports
when it becomes ready; `find_free_port` gives any port not bound. A log line is
its kind; `file_contains` compares what a line contains with the members of its
second argument, which for a string are its characters (`AsList`). Every line
of a log has letters of either text. `Late` says whether a session daemon may
need more than the minute of `sigtimedwait`. `spawn_subprocess`, termination and
`close` are those of `Runtime`, reduced to their effect.

### Properties

* `TypeOK`.
* `DriverSurvives`: the signal of a session daemon never ends the driver.
* `SessiondAnswered`: a session daemon is ready, or dead, when `sessiond_spawn`
  returns.
* `OnlyLateKills`: when the driver does die of it, the signal is that of a session
  daemon whose `sessiond_spawn` gave up and put the handler back; no other
  placement, in this call or the next, leaves a gap.
* `PortsClashOnlyIfEarly`: two live daemons have the same port on their command
  lines only if the function that spawned one of them returned before it was
  ready.
* `WaitsEnd` (liveness): every wait of the driver ends.
* `CleanupPerformed`: no daemon outlives a driver that waited in vain.
  `FoundIsThere` (action property): `relayd_spawn` returns, and the live test
  goes on, when the log has the text they wait for. The code violates these.

### Runs

| Run | Instance | Result |
|---|---|---|
| `startup` | two session daemons and a relay daemon, five ports, two polls, in time; 36 000 states up to symmetry of the ports | `DriverSurvives` and `SessiondAnswered` hold |
| `startup_ends` | two session daemons and a relay daemon, late or silent, three ports; 432 000 states | every wait ends; `OnlyLateKills` and `PortsClashOnlyIfEarly` hold |
| `startup_late` | two session daemons, late | violates `CleanupPerformed` |
| `startup_cue` | one daemon of each kind and a viewer | violates `FoundIsThere` |

Five ports are enough for all daemons of the instance to have their own and few
enough for a clash; `Timeout` (60 in the code) is the number of polls of a log.
The driver may be dead, so deadlock is not checked. Fairness, for `WaitsEnd`:
weak fairness of `Waits`, the steps of the sequential driver and its timeouts.

### Findings

* `relayd_spawn` and the live test pass a string where `file_contains` takes a
  list of strings: any line matches. The relay daemon is taken for ready on its
  first line, and the live test, which is marked flaky, does not wait for its
  viewer (`startup_cue`).
* A session daemon that is ready after the timeout kills the driver, which has
  restored the default action of SIGUSR1; `close` does not run (`startup_late`).

### Theorems

`DaemonStartupProofs`, for any number of daemons, ports and polls, and whether or
not session daemons are late: `StartupTypeCorrect`, `OnlyTheLateKill` and
`PortsClash`. Assuming `~Late` (`startup_late` shows that it is needed):
`SignalsAreSurvived` and `SessiondAnswers`.

The inductive invariant `Inv` is `Typed`, `InSpawn` (in `sessiond_spawn` the
handler is installed and the target is in the state its statement implies),
`Awaited` (a daemon that is starting is being waited for or is in `early`, if the
driver has not gone to `close`), `OnlyLateKills` and `Claimed` (ports are claimed
by what was spawned, and clash only through `early`). The last holds because at
the start of a spawn every live daemon that is not in `early` is ready, hence
holds its ports, and a port found free is none of them (`FreeIsUnclaimed`).
With `~Late`, `Prompt` adds that no session daemon is ever in `early`, and
`OnlyLateKills` then says that none kills. `WaitsEnd` is model-checked only.

## 5. What is modelled: the snapshot tests

`SnapshotScenario` EXTENDS `Runtime`: it is the first scenario that composes
several components. It models the loop of `test_output_path_snapshot`
(tests/output_path/test_output_path.py:307-347; the three other tests with
snapshots have the same loop), `wait_for_file` and `create_empty_file`
(utils/utils.py:50-66), and the application (apps/gen_ust_events/gen-ust-events.c).

| TLA+ | Code |
|---|---|
| `test`, `step` | the iteration of the loop, and its next statement |
| `app_sync_start`, `app_sync_end` | these two files exist; their names are the same in all iterations |
| `tracing`, `recorded` | the session of the iteration: started, and the events in its buffers |
| `events`, `hit`, `file_created` | the application: events written, whether it is between `tracepoint` and `create_file`, and its static variable |
| `refused` | history: a command or a wait of the driver failed |
| the variables of `Runtime` | subprocesses, calls and `close` |

A statement that calls Runtime is the conjunction of its effect on the scenario
and of the action of `Runtime` (`SpawnApp`, `TerminateApp`, ...); the waits of
such a call and all of `close` are the actions of `Runtime` unchanged
(`Calling`). The driver, the session daemon and the application interleave
freely. An application ends after its last event or of a SIGTERM, for which it
has no handler; a session daemon ends with code 0 when it is told. `CommandFails`
stands for every command that exits with an error, for `wait_for_file` that
gives up and for the final `pytest.fail`.

Abstractions: the `lttng` commands do what their names say and are one step for
each group without another actor's interest in between; daemon and applications
do not crash by themselves (`Runtime` covers that they may); buffers are not
overwritten (ten events in the code); the synchronisation of `sessiond_spawn` is
in `DaemonStartup`. A wait of the application is the guard `FileAwaited` of
`Tracepoint`.

### Properties

* `ScenarioTypeOK`.
* `AliveAtRecord`: the application is alive when the snapshot is recorded. In
  per-pid mode there would be nothing to record otherwise.
* `EventBeforeRecord`: the session then holds at least one event.
* `OnlyRaceFails`: when every command succeeds, only one thing fails a test: the
  SIGTERM of line 335 that reaches an application before it has written its last
  event and ended. That race is real (the outcome of a test depends on it); this
  property says there is no other, in particular that no file of one iteration
  is in the way of the next.
* `NeverBothWait`: while the driver waits for its file the application is alive
  and on its way to it, and while the application waits the driver has that
  file's statement before it. This is the absence of deadlock as a safety
  property, for each wait at the time it is made.
* `ScenarioEnds` (liveness): driver and application never wait for each other's
  file for ever.

### Run

`snapshot`: two iterations with applications of three events, 12 000 states; all
properties hold. Two iterations are what a left-over file needs. Three events
make the first and the last event, where the application synchronises, different
from the one between; `LoopAssumption` asks for two at least, since with a single
event the application would wait for the driver before it tells the driver
anything. The driver stops at the end, so deadlock is not checked;
`ScenarioEnds` excludes any other stop. Fairness: weak fairness of the driver's
statements, of its waits, and of each process. All are sequential programs whose
commands return. No wait is assumed to time out, so the property does not rest
on the minute of `wait_for_file`.

### Theorems

`SnapshotScenarioProofs`, for any number of iterations and events:

* `ScenarioUsesRuntime`: `ScenarioSpec => Spec`, the scenario implements
  `Runtime`, so everything proved of `Runtime` holds of it
  (`NothingSurvivesScenario`, `ScenarioKeepsPromise`); no test kills what was
  waited for (`KillsItsOwn`);
* `ScenarioTypeCorrect`, `AppAliveAtRecord`, `EventWritten`, `OnlyTheRaceFails`,
  `OnlyOneWaits`.

They rest on `Inv` of `RuntimeProofs` and on `ScenarioInv`, which is inductive
with it: the applications to come are not born (`Fresh`); the body is between
two calls or in one of its two terminations (`BodyCall`); which files exist at
which statement (`Files`); between its spawn and the creation of `sync_end` an
application is alive, was not signalled and has an event left, whatever it has
announced is in the buffers, and from its first event on it has announced itself
or is about to (`Alive`); files are removed only after it was
waited for, so it cannot create them again (`Gone`); a wait that raises has seen
a SIGTERM (`Codes`, `Reason`). `ScenarioEnds` is model-checked only.

## 6. What is modelled: a project object in the hands of a test

`PrecookCache` drives `autobuild` the way `get_precook` does: once, on a fresh
object. A test does more. It gets objects with `get_fresh`, whose dependencies
are objects of the cache, replaces a dependency by another fresh object
(`tools.dependencies["lttng-ust"] = ust`), calls `autobuild` or single steps, and
goes on after an exception it expects. `ProjectObject` models that
(utils/project.py; `get_fresh` of ProjectFactory.py).

| TLA+ | Code |
|---|---|
| `born`, `deps` | the objects that exist and their `dependencies` |
| `configured`, `built`, `installed`, `skip` | `isConfigured`, `isBuilt`, `isInstalled`, `skip` |
| `Cached` (constant) | the objects with `_immutable` set |
| `environ`, `Special(o)` | special variables in `os.environ`, in `special_env_variables` |
| `makefile[o]`, `linked[o]`, `stripped` | what is on the disk: what the Makefiles were configured against, what the installation was linked to, and whether it has lost its rpath |
| `stack`, `at`, `answer` | the nested calls of `autobuild`, the statement of the innermost one, how the outermost ended |
| `byHand`, `late`, `replaced` | history: the objects a step of which the test ran itself; those an exception left after `isInstalled` was set; those with a dependency that was replaced after a configure and that no autobuild has installed since |

The flags are kept apart from the disk because the steps set them at different
places: `install` sets `isInstalled` before it strips, the `install` of lttng-ust
defines `PYTHONPATH` after it and raises the second time, a failing `make install`
may have written files with an rpath over stripped ones. `configure`, `build`,
`install` and `rpath_strip` are operators on the outcome of the step (`ok`; a
`CalledProcessError`; another exception), shared by `Manual` and by the statements
of `autobuild` (`StepSucceeds`, `StepFails`). The classes differ where the code
does: lttng-modules have no configure and no strip, and their `autobuild`
swallows a `CalledProcessError` and sets `skip`.

Abstractions: commands succeed or fail, their arguments are left out; paths and
the search-path variables of `get_env` are left out, its conflicts are there
(`EnvRaises`); a dependency is replaced as the one test that does so replaces it,
in an object of its own and by another one of the same project (`Replaceable`),
but at any time, also after a configure or an installation, since the code does
not look; `rpath_strip` is never called by a test; a test is one Python process, which ends
with the model. `DepsAssumption` says what is true of `config.yaml`: no cycle of
projects, one dependency of each project, lttng-modules apart.

### Properties

* `TypeOK`.
* `ReturnedIsComplete`: an `autobuild` that returns leaves a project that is
  configured, built and installed, whatever steps, failures and retries came
  before; lttng-modules may be left to be skipped instead. The guard is the
  exclusive or of three flags (177), which is why this is not obvious: it lets
  two of three through.
* `UnstrippedExplained`: a project that counts as installed and still has its
  rpath was worked on by hand, or left by an exception after `isInstalled` was
  set. The next `autobuild` of such an object returns at once. The property says
  that there is no other way to it.
* `LinkedToInstalled`: what is installed was linked to what is installed, down the
  tree, and to the dependencies the object has now, the replaced ones included.
  When one is replaced after a configure, that is true again after the next
  `autobuild` that installs, because `autobuild` starts from `configure` whatever
  flags are set; before that, and when the object was complete, nothing notices
  (`replaced`).
* `ConflictsAreTheUsers`: `get_env` raises only over a variable that the user has
  in the environment.
* `RefusedExplained`: what `autobuild` refuses as "manually triggered" was, or its
  `make` failed (of lttng-modules, the installation), which leaves one flag set
  and makes every retry futile. A failing configure, install or strip of the
  other projects can be retried.
* `ImmutableUntouched` (action property): no call of a test changes an object of
  the cache or its installation.

### Run

`project_object`: a test gets two of four fresh objects (lttng-tools, lttng-ust,
lttng-modules, babeltrace) over urcu, lttng-ust and lttng-modules of the cache;
the user may have set `PYTHONPATH`; 208 000 states; all properties hold. Two fresh
objects are what the replacement of a dependency takes; lttng-ust is both fresh
and cached, so that a replaced dependency shares a variable with the one it
replaces; nothing bounds the calls, failures and retries.

### Theorems

`ProjectObjectProofs`, for any objects, dependencies and variables: all
properties (`ObjectsTyped`, `AutobuildCompletes`, `UnstrippedOnlyThen`,
`LinkedAsConfigured`, `ConflictsOfTheUser`, `RefusesOnlyThen`,
`CacheStaysUntouched`). The invariant has two groups beside `TypeOK`. `Nested` is
about the recursion: projects rank above their dependencies (`Ranked`, the one
use of the assumption that there is no cycle), so nested calls are for objects of
falling rank, hence all different (`Descending`); none but the innermost is for a
cached object (`Mutable`), and those that wait are incomplete (`Incomplete`). The
object of the caller is therefore not touched by the call it waits for. `Rest`
ties flags, disk and statement together: which steps the statement implies
(`InStep`; in `build` and `install` the Makefile is one for the dependencies of
now, since nothing replaces them during a call), that without work by hand the
flags form a chain (`Chain`), that a Makefile is for dependencies that are
installed, those the object has unless it is in `replaced` (`Made`: `configure`
looks at `isInstalled`), with the properties themselves. `Unique`, that an object has one dependency of each
project, is inductive by itself and carries `ConflictsOfTheUser`.

## 7. What is modelled: the run configuration and what reads it

`RunConfiguration` models the three programs as tox runs them: `bootstrap.py`
statement by statement, `build_projects.py`, and the part of `pytest` that decides
which tests run (`generate_runtime_test_matrix`, settings.py:46-70).

| TLA+ | Code |
|---|---|
| `remote`, `moves` | branches and tags of the git remotes (external), and how often somebody has moved one |
| `place`, `clone` | what is at the path of each clone, and the remote branches, tags, local branches and commits it has |
| `file` | `run_configuration.yaml`: its markers, and whether it was written to its end |
| `cached` | the tree of markers of each valid project of the cache |
| `pc`, `loaded`, `todo` | the running program and its statement, the `config.yaml` read, the remotes still to fetch |
| `missed` | the look-ups of a reference that an exception cut short in this run |
| `seen`, `origin` | history: what the remotes had when this run fetched them; `loaded`, `seen` and `missed` when the file was opened |

`Fetch` is the clone or fetch of a remote with git's own rules, on which the code
rests: a branch that is gone from the remote stays in the clone, a tag that has
moved does not move in it, and the local branch that `git clone` has made of the
remote's HEAD stays what it was (the TODO of line 116). `Sha` is `is_ref_branch`,
`is_ref_tag`, `is_ref_commit`, in the order of the code; a name gets to the last of
them too, where `rev_parse` knows tags and local branches. Each has a bare
`except` (18, 28, 38), so that an error of git, or the KeyboardInterrupt of a
ctrl-C, counts as "no such reference" and the next one is tried (`Miss`; only for
a look-up that would have found something, as it changes nothing for the others).
Opening the file empties it
(`OpenFile`); a program that dies leaves any part of it (`Dies`). An exit is
modelled by its status: `ResolveFails` stops tox, `PathIsFile` (the `exit()` of
line 111) does not. The project cache is what `PrecookPromise` promises of it: a
label is cached as the tree of its markers. A row of a test matrix is a sequence
of columns, and a column is a set, since `pytest.param` rows hold tuples of labels
and marks. A test (`Tests`) is its row, the indexes of its criteria, and the labels
it gets with `get_precook`, which may be others: `Settings.default_babeltrace`
(tests/consumerd_vs_sessiond/test_consumerd_vs_sessiond.py:124), or a third column
that no index names (tests/babeltrace/base/test_babeltrace_base.py:178-180, 287).
`TestGets` is such a call, which builds what the cache has not.

Abstractions: a commit is a name; one fetch is one step; a failing fetch is a
program that dies; `config.yaml` is whatever the user makes of it (`Configs`),
with the fields the code reads.

### Properties

* `TypeOK`.
* `MarkersClosed`: a file that was written to its end has every marker of the
  `config.yaml` it was made from, and every dependency of one.
* `AsRemoteSaid`: a branch stands for the commit the remote had when this run
  fetched it, whatever an older clone, a tag of the same name or a later push
  says, and all markers of one remote are taken from one state of it. The one
  exception is a branch whose own look-up was cut short.
* `PipelineUsesItsOwn`: what is built and tested is the file that this run of
  `bootstrap.py` made, never one that a failed or killed run left; the exception
  is the `exit()` without a status of line 111, when a plain file is where the
  clone of one of this run's own remotes should be.
* `TestsFindPrebuilt`: every label of the run configuration that a test asks for
  is in the cache as described, from the start of the tests to their end.
  `build_projects.py` and `settings.py` decide apart from each other what is
  deprecated, and agree but on a label that is no criterion of its matrix: when it
  is deprecated the test runs and builds it (the property names the case).

### Run

`run_configuration`: urcu and lttng-ust on remotes of their own and a deprecated
lttng-ust pinned to a commit; a reference moves once (`MaxMoves`), by anything from
a push to the deletion of a branch to a tag of the same name; two look-ups of a
run are cut short (`MaxMissed`); four tests, the last of which gets a deprecated
label that is no criterion; four `config.yaml`: a good one,
one with an undefined dependency, one with a name twice, one with a dependency
cycle (which `bootstrap.py` accepts); 1 336 000 states. One move makes a clone
wrong about a branch or gives its tag another commit, over any number of runs; two
look-ups take a branch to the stale local branch of the clone; two labels share a
remote. The
user, the remotes and kills are the environment, so nothing is said about
progress, and no fairness is assumed. All properties hold.

### Theorems

`RunConfigurationProofs`, for any labels, remotes, references, `config.yaml`,
deprecated labels and matrices: all five properties (`PipelineTyped`,
`ConfigurationClosed`, `ResolvedAsSaid`, `OwnConfiguration`, `Prebuilt`). The
invariant adds what `bootstrap.py` knows at each statement: from the check on,
the configuration is closed (`Sound`); the clones that were fetched agree with
what was seen (`FetchedAsSeen`); the file is being written from what was resolved
(`Opened`). `Prebuilt` rests on `generate_runtime_test_matrix` leaving
out every row with a deprecated label among its criteria, in whatever column or
tuple, and on `TestGets` building only what the run configuration describes.

## 8. Not modelled, and why

* The search paths of `get_env` (project.py:91-120, runtime.py:237-294): string
  concatenation over the tree, with no state of its own; its conflicts of special
  variables are modelled.
* `usleep_safe` of gen-ust-events.c (53): no test asks for a wait between two
  events, so no state of the system reaches its loop a second time.
* The last poll of `wait_for_file` and `relayd_spawn`, which is followed by a sleep
  and not by a look (utils.py:55-59, 114): a second of a minute, and no document
  says otherwise.
* The relay and live scenarios beyond the waits of section 4: sequences of the same
  calls of `Runtime` with two daemons. Of the tests with snapshots one is modelled,
  the other three have its loop.
* The other compatibility scenarios: straight sequences of `lttng` commands whose
  results the LTTng programs under test decide.
* XML validation, trace inspection, directory walks, logging: pure input and output.
* The LTTng programs, git, make and Python itself are external, modelled by what
  the code expects of them.

Liveness (`CallsEnd`, `CloseEnds`, `WaitsEnd`, `ScenarioEnds`) is model-checked
only, since the prover does not handle fairness. What these properties rest on
beside fairness is proved where it could be stated without it: `close` has a
measure that each of its steps lowers (`CloseGoesOn`) and cannot be blocked
(`CloseIsNotBlocked`), driver and application never both wait (`OnlyOneWaits`),
and only configurations too deep to be built reach the recursion limit
(`LimitNeedsDepth`). Every other property of a passing run is also proved for all
values of the constants, some under the assumptions named in sections 2 and 4. `PROJECT.json` lists every component with
its status and every hazard with the properties that cover it.
