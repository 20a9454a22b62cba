---------------------------- MODULE DaemonStartup ----------------------------
(***************************************************************************)
(* utils/utils.py, 69-150: how a test waits until a daemon is ready.       *)
(* lttng-sessiond tells its parent by SIGUSR1 (option -S); lttng-relayd    *)
(* cannot, and is known by what it writes into its log.  Either wait ends  *)
(* after a minute.  The driver is one Python process that runs test after  *)
(* test: spawns daemons, waits for a viewer (test_babeltrace_live.py), and *)
(* terminates what is left in Runtime.close().                             *)
(***************************************************************************)
EXTENDS FiniteSets, FiniteSetsExt, Naturals

CONSTANTS
    Sessionds, Relayds, \* the daemons that may be spawned, each once
    Ports,              \* of the machine
    Timeout,            \* polls of a log before a wait is given up
    Late                \* a session daemon may take more than a minute

ASSUME DaemonsAssumption == Sessionds \cap Relayds = {}
ASSUME TimeoutAssumption == Timeout \in Nat \ {0}
ASSUME LateAssumption == Late \in BOOLEAN

Daemons == Sessionds \cup Relayds
-----------------------------------------------------------------------------
VARIABLES
    pc,       \* where the driver is
    target,   \* the daemons of the spawn call it is in: one or none
    cue,      \* what it looks for in the log of the target
    polls,    \* how often it has looked
    handler,  \* of SIGUSR1, in the driver
    previous, \* previous_handler
    status,   \* of the daemons
    claims,   \* <<daemon, role, port>>: the ports on the command lines
    log,      \* the kinds of lines a relay daemon has written
    viewers,  \* relay daemons a babeltrace was started against
    returned, \* daemons whose spawn function has returned
    early     \* those whose function returned before they were ready

call == <<target, cue, polls>>
signals == <<handler, previous>>
daemons == <<status, log>>
history == <<returned, early>>
vars == <<pc, call, signals, daemons, claims, viewers, history>>

\* "handler": dummy installed, before spawn_subprocess; "spawned": before
\* sigtimedwait; "restore": after it; "poll": a log loop; "close": in close().
Statement == {"test", "handler", "spawned", "sigtimedwait", "restore", "poll",
              "close", "killed"}

TypeOK ==
    /\ pc \in Statement
    /\ target \in SUBSET Daemons /\ Cardinality(target) <= 1
    /\ cue \in {"none", "ready_cue", "synchro_text"}
    /\ polls \in 0..Timeout
    /\ {handler, previous} \subseteq {"default", "dummy"}
    /\ status \in [Daemons -> {"unborn", "starting", "ready", "ended"}]
    /\ claims \subseteq Daemons \X {"agent", "data", "ctrl", "live"} \X Ports
    /\ log \in [Relayds -> SUBSET {"other", "ready_cue", "synchro_text"}]
    /\ viewers \subseteq Relayds
    /\ returned \subseteq Daemons
    /\ early \subseteq Daemons
-----------------------------------------------------------------------------
At(statement) == pc = statement
Alive(d) == status[d] \in {"starting", "ready"}

\* A daemon holds its ports from the time it is ready.
PortsOf(d) == {c[3] : c \in {b \in claims : b[1] = d}}
Bound == UNION {PortsOf(d) : d \in {e \in Daemons : status[e] = "ready"}}
find_free_port == Ports \ Bound

\* `ports' has no duplicates: find_free_port is asked again.
find_multiple_free_port(number) == kSubset(number, find_free_port)

\* What file_contains finds in a line: a text, or the characters of a text.
\* Every line of a log has some characters of either text.
StringsIn(line) == {"character", line}
file_contains(lines, list_of_string) ==
    \E line \in lines : StringsIn(line) \cap list_of_string # {}

\* The callers pass one string where a list is expected: its members are
\* its characters.
AsList(string) == {"character"}

NoCall == target' = {} /\ cue' = "none" /\ polls' = 0

\* Mutant: spawns without a handler.
InstallNothing(d) ==
    /\ previous' = handler
    /\ UNCHANGED handler

InstallHandler(d) ==
    /\ previous' = handler
    /\ handler' = "dummy"

Init ==
    /\ pc = "test"
    /\ target = {} /\ cue = "none" /\ polls = 0
    /\ handler = "default" /\ previous = "default"
    /\ status = [d \in Daemons |-> "unborn"]
    /\ claims = {}
    /\ log = [r \in Relayds |-> {}]
    /\ viewers = {}
    /\ returned = {} /\ early = {}
-----------------------------------------------------------------------------
(* The daemons.                                                            *)

(* SIGUSR1 at the driver: taken by sigtimedwait, or by the handler, which  *)
(* does nothing; its default action ends the process.                      *)
Sigusr1 ==
    pc' = CASE At("sigtimedwait")                          -> "restore"
            [] ~At("sigtimedwait") /\ handler = "dummy"    -> pc
            [] OTHER                                       -> "killed"

SessiondReady(d) ==
    /\ status[d] = "starting"
    /\ PortsOf(d) \subseteq find_free_port
    /\ status' = [status EXCEPT ![d] = "ready"]
    /\ Sigusr1
    /\ UNCHANGED <<call, signals, claims, log, viewers, history>>

\* A relay daemon accepts viewers, then says so.
RelaydReady(r) ==
    /\ status[r] = "starting"
    /\ PortsOf(r) \subseteq find_free_port
    /\ status' = [status EXCEPT ![r] = "ready"]
    /\ log' = [log EXCEPT ![r] = @ \cup {"ready_cue"}]
    /\ UNCHANGED <<pc, call, signals, claims, viewers, history>>

RelaydWrites(r) ==
    /\ Alive(r)
    /\ log' = [log EXCEPT ![r] = @ \cup {"other"}]
    /\ UNCHANGED <<pc, call, signals, status, claims, viewers, history>>

ViewerConnects(r) ==
    /\ r \in viewers
    /\ status[r] = "ready"
    /\ log' = [log EXCEPT ![r] = @ \cup {"synchro_text"}]
    /\ UNCHANGED <<pc, call, signals, status, claims, viewers, history>>

\* A daemon ends by itself, for want of a port for instance.
DaemonFails(d) ==
    /\ Alive(d)
    /\ status' = [status EXCEPT ![d] = "ended"]
    /\ UNCHANGED <<pc, call, signals, claims, log, viewers, history>>
-----------------------------------------------------------------------------
(* sessiond_spawn.                                                         *)

sessiond_spawn(d) ==
    /\ At("test")
    /\ status[d] = "unborn"
    /\ \E port \in find_free_port : claims' = claims \cup {<<d, "agent", port>>}
    /\ InstallHandler(d)
    /\ pc' = "handler"
    /\ target' = {d}
    /\ UNCHANGED <<cue, polls, daemons, viewers, history>>

SpawnSubprocess(d) ==
    /\ At("handler")
    /\ target = {d}
    /\ status' = [status EXCEPT ![d] = "starting"]
    /\ pc' = "spawned"
    /\ UNCHANGED <<call, signals, claims, log, viewers, history>>

\* When spawn_subprocess raises the handler stays and the port is forgotten.
SpawnRaises ==
    /\ At("handler")
    /\ pc' = "close"
    /\ claims' = {c \in claims : c[1] \notin target}
    /\ NoCall
    /\ UNCHANGED <<signals, daemons, viewers, history>>

\* Mutant: returns as soon as the daemon is there.
SkipSigtimedwait ==
    /\ At("spawned")
    /\ pc' = "restore"
    /\ UNCHANGED <<call, signals, daemons, claims, viewers, history>>

EnterSigtimedwait ==
    /\ At("spawned")
    /\ pc' = "sigtimedwait"
    /\ UNCHANGED <<call, signals, daemons, claims, viewers, history>>

\* Mutant: sigwaitinfo, which has no timeout.
Sigwaitinfo == At("sigtimedwait") /\ UNCHANGED vars

\* Nobody looks at what sigtimedwait returned.
SigtimedwaitExpires ==
    /\ At("sigtimedwait")
    /\ ~Late => \A d \in target : status[d] # "starting"
    /\ pc' = "restore"
    /\ UNCHANGED <<call, signals, daemons, claims, viewers, history>>

RestoreHandler ==
    /\ At("restore")
    /\ handler' = previous
    /\ previous' = handler
    /\ pc' = "test"
    /\ returned' = returned \cup target
    /\ early' = early \cup {d \in target : status[d] = "starting"}
    /\ NoCall
    /\ UNCHANGED <<daemons, claims, viewers>>
-----------------------------------------------------------------------------
(* relayd_spawn, and the wait for a viewer.                                *)

\* Mutant: the same port may be drawn twice.
AnyPorts(r) ==
    /\ At("test")
    /\ status[r] = "unborn"
    /\ \E p, q, s \in find_free_port :
          claims' = claims \cup {<<r, "data", p>>, <<r, "ctrl", q>>, <<r, "live", s>>}
    /\ status' = [status EXCEPT ![r] = "starting"]
    /\ pc' = "poll"
    /\ target' = {r} /\ cue' = "ready_cue" /\ polls' = 0
    /\ UNCHANGED <<signals, log, viewers, history>>

relayd_spawn(r) ==
    /\ At("test")
    /\ status[r] = "unborn"
    /\ \E ports \in find_multiple_free_port(3) :
          \E p, q \in ports : p # q /\
          claims' = claims \cup {<<r, "data", p>>, <<r, "ctrl", q>>}
                           \cup {<<r, "live", s>> : s \in ports \ {p, q}}
    /\ status' = [status EXCEPT ![r] = "starting"]
    /\ pc' = "poll"
    /\ target' = {r} /\ cue' = "ready_cue" /\ polls' = 0
    /\ UNCHANGED <<signals, log, viewers, history>>

StartViewer(r) ==
    /\ At("test")
    /\ r \in returned \ viewers
    /\ viewers' = viewers \cup {r}
    /\ pc' = "poll"
    /\ target' = {r} /\ cue' = "synchro_text" /\ polls' = 0
    /\ UNCHANGED <<signals, daemons, claims, history>>

Found(r) == file_contains(log[r], AsList(cue))

PollFinds(r) ==
    /\ At("poll")
    /\ target = {r}
    /\ polls < Timeout
    /\ Found(r)
    /\ pc' = "test"
    /\ NoCall
    /\ returned' = returned \cup {r}
    /\ early' = IF cue = "ready_cue" /\ cue \notin log[r]
                THEN early \cup {r} ELSE early
    /\ UNCHANGED <<signals, daemons, claims, viewers>>

\* Mutant: looks once more than it may.
PollMissesOnceMore(r) ==
    /\ At("poll")
    /\ target = {r}
    /\ polls <= Timeout
    /\ ~Found(r)
    /\ polls' = polls + 1
    /\ UNCHANGED <<pc, target, cue, signals, daemons, claims, viewers, history>>

PollMisses(r) ==
    /\ At("poll")
    /\ target = {r}
    /\ polls < Timeout
    /\ ~Found(r)
    /\ polls' = polls + 1
    /\ UNCHANGED <<pc, target, cue, signals, daemons, claims, viewers, history>>

\* `readyness timeout expired'.
PollExpires ==
    /\ At("poll")
    /\ polls = Timeout
    /\ pc' = "close"
    /\ NoCall
    /\ UNCHANGED <<signals, daemons, claims, viewers, history>>
-----------------------------------------------------------------------------
(* Runtime: the end of a daemon, of a test.                                *)

Terminate(d) ==
    /\ At("test") \/ At("close")
    /\ Alive(d)
    /\ status' = [status EXCEPT ![d] = "ended"]
    /\ UNCHANGED <<pc, call, signals, claims, log, viewers, history>>

TestEnds ==
    /\ At("test")
    /\ pc' = "close"
    /\ UNCHANGED <<call, signals, daemons, claims, viewers, history>>

NextTest ==
    /\ At("close")
    /\ \A d \in Daemons : ~Alive(d)
    /\ pc' = "test"
    /\ UNCHANGED <<call, signals, daemons, claims, viewers, history>>
-----------------------------------------------------------------------------
Waits ==
    \/ \E d \in Sessionds : SpawnSubprocess(d)
    \/ SpawnRaises
    \/ EnterSigtimedwait
    \/ SigtimedwaitExpires
    \/ RestoreHandler
    \/ \E r \in Relayds : PollFinds(r) \/ PollMisses(r)
    \/ PollExpires

Test ==
    \/ \E d \in Sessionds : sessiond_spawn(d)
    \/ \E r \in Relayds : relayd_spawn(r) \/ StartViewer(r)
    \/ \E d \in Daemons : Terminate(d)
    \/ TestEnds
    \/ NextTest

Environment ==
    \/ \E d \in Sessionds : SessiondReady(d)
    \/ \E r \in Relayds : RelaydReady(r) \/ RelaydWrites(r) \/ ViewerConnects(r)
    \/ \E d \in Daemons : DaemonFails(d)

Next == Waits \/ Test \/ Environment

Spec == Init /\ [][Next]_vars

\* The driver is sequential, and its timeouts expire.
FairSpec == Spec /\ WF_vars(Waits)
-----------------------------------------------------------------------------
(* Correctness.                                                            *)

\* The signal by which a session daemon announces itself (76, -S) does not
\* end the driver, whenever it comes: before the wait, in it or between.
DriverSurvives == ~At("killed")

\* A session daemon is ready, or dead, when sessiond_spawn returns (73-81).
SessiondAnswered ==
    \A d \in returned \cap Sessionds : status[d] \in {"ready", "ended"}

\* When the driver does die of it, the signal is that of a daemon whose
\* sessiond_spawn has given up and put the handler back (79-80): no other
\* call, however it is interleaved with the daemons, leaves a gap.
OnlyLateKills ==
    At("killed") => \E d \in Sessionds \cap early : status[d] \in {"ready", "ended"}

\* Two daemons are told to use the same port only if sessiond_spawn (69-81)
\* or relayd_spawn (84-120) returned before one of them was ready.
PortsClashOnlyIfEarly ==
    \A b, c \in claims :
       b # c /\ b[3] = c[3] /\ Alive(b[1]) /\ Alive(c[1]) =>
          {b[1], c[1]} \cap early # {}

\* What a readiness timeout leaves behind: `Cleanup is performed by runtime'
\* (utils.py:117), so no daemon outlives the driver.
CleanupPerformed == At("killed") => \A d \in Daemons : ~Alive(d)

\* `Synchronization based on verbosity' (utils.py:101), `Make sure that
\* babeltrace did hook itself or at least tried to' (test_babeltrace_live.py:
\* 150): a test goes on when the log has the text it was waiting for.
FoundIsThere ==
    [][At("poll") /\ pc' = "test" => \A r \in target : cue \in log[r]]_vars

\* Every wait for a daemon ends, whatever the daemons do.
WaitsEnd == pc \in Statement \ {"test", "close", "killed"} ~>
                pc \in {"test", "close", "killed"}
=============================================================================
