---------------------------- MODULE AppLifecycle ----------------------------
(***************************************************************************)
(* The companion application, app.go: who may start and stop the watcher,  *)
(* and how the token and the settings change underneath it.                *)
(*                                                                         *)
(* The goroutines are initialize, the calls from the window, the setup     *)
(* monitor, Quit, the watchers, and those restartWatcherWhenStopped leaves *)
(* behind.  setupMu is the variable lock; each critical section of app.mu  *)
(* is within one step.  A step that holds setupMu includes what nobody     *)
(* else can see or disturb before its next one.                            *)
(*                                                                         *)
(* Of the settings the folder of World of Warcraft and the prefix shown of *)
(* the token are left out: no start or stop depends on them.  The data     *)
(* directory was found at the start; without one no watcher ever starts.   *)
(***************************************************************************)
EXTENDS Integers, FiniteSets

CONSTANTS
    Clients,      \* calls from the window that may be under way together
    Tokens,       \* installation tokens
    FormerTokens, \* tokens a former version may have left, None for none
    Paths,        \* SavedVariables files, one per account
    Runs,         \* bound: watcher goroutines alive together
    Operations,   \* which calls the window makes
    Installs,     \* what can be installed: "none", "game", "addon" (and the game)
    MaxChanges,   \* bound: changes of the SavedVariables files
    FaultKinds,   \* which of "inspect", "save", "keyring", "reset", "run", "refuse"
                  \* and "crash" can happen
    MaxFaults,    \* bound: how often, together
    None          \* "", nil

ASSUME NoneAssumption ==
    None \notin Clients \cup Tokens \cup Paths \cup Runs \cup {"monitor"}
ASSUME ClientsAssumption == "monitor" \notin Clients
ASSUME FormerTokensAssumption == FormerTokens \subseteq Tokens \cup {None}
ASSUME OperationsAssumption ==
    Operations \subseteq {"token", "forget", "folder", "file", "refresh", "channel"}
ASSUME InstallsAssumption == Installs \subseteq {"none", "game", "addon"}
ASSUME LimitsAssumption == MaxChanges \in Nat /\ MaxFaults \in Nat

VARIABLES
    lock,         \* who holds setupMu
    calls,        \* the calls from the window
    initializer,  \* where initialize is
    monitor,      \* where the setup monitor is
    quit,         \* where Quit is
    quitAwaits,   \* the watcher Quit waits for
    run,          \* each watcher goroutine
    given,        \* the token and file it was started with
    current,      \* watcherDone and watcherCancel; running when not None
    restarters,   \* watchers restartWatcherWhenStopped waits for
    restartDue,   \* one of them has ended
    token,        \* app.token
    config,       \* app.config: the scan file and the update channel
    writable,     \* app.configWritable
    seen,         \* what the last inspection found of World of Warcraft
    fingerprint,  \* setupScanFingerprint
    keyring,      \* the credential store: the token, and that of a former version
    disk,         \* config.json, and whether it was left torn
    refused,      \* tokens with which queued scans were refused (401, 403)
    install,      \* what is installed: nothing, the game, the addon too
    files,        \* the SavedVariables files that parse
    changes,      \* how often they changed
    faults        \* failures so far

threads  == <<lock, calls, initializer, monitor, quit, quitAwaits>>
watchers == <<run, given, current, restarters, restartDue>>
setup    == <<config, writable, seen, fingerprint>>
world    == <<install, files, changes>>
appVars  == <<threads, watchers, token, setup, keyring, disk, refused, world, faults>>

-----------------------------------------------------------------------------
Settings == [path : Paths \cup {None}, beta : BOOLEAN]
Defaults == [path |-> None, beta |-> FALSE]

NoCall  == [pc |-> "idle", op |-> None, arg |-> None, draft |-> Defaults,
            replaced |-> FALSE, awaited |-> None]

Quitting     == quit # "no"
Initializing == initializer \in {"load", "refresh", "finish"}
Active(w)    == run[w] \in {"running", "cancelled"}     \* inside watchagent.Run

Fault(kind) ==
    kind \in FaultKinds /\ faults < MaxFaults /\ faults' = faults + 1

\* loadInstallationToken finds the token, or else moves the former one there.
Stored == IF keyring.current # None THEN keyring.current ELSE keyring.former

Migrated ==
    [keyring EXCEPT !.current = Stored,
                    !.former = IF keyring.current = None THEN None ELSE @]

Ready == token # None /\ seen = "addon" /\ config.path # None

CurrentStep ==
    CASE token = None -> "token"
      [] token # None /\ seen = "none" -> "wow"
      [] token # None /\ seen = "game" -> "addon"
      [] token # None /\ seen = "addon" /\ config.path = None -> "saved_variables"
      [] OTHER -> "ready"

-----------------------------------------------------------------------------
(* The watcher: startWatcher, stopWatcher and the goroutine                *)

CanStart == current = None /\ ~Initializing /\ ~Quitting /\ Ready

\* Mutant: a quitting application starts the watcher all the same.
StartWatcherQuitting ==
    \/ /\ current = None /\ ~Initializing /\ Ready
       /\ \E w \in {v \in Runs : run[v] = "ended"} :
            /\ run' = [run EXCEPT ![w] = "running"]
            /\ given' = [given EXCEPT ![w] = [token |-> token, path |-> config.path]]
            /\ current' = w
    \/ /\ ~(current = None /\ ~Initializing /\ Ready)
       /\ UNCHANGED <<run, given, current>>

StartWatcher ==
    \/ /\ CanStart
       /\ \E w \in {v \in Runs : run[v] = "ended"} :
            /\ run' = [run EXCEPT ![w] = "running"]
            /\ given' = [given EXCEPT ![w] = [token |-> token, path |-> config.path]]
            /\ current' = w
    \/ ~CanStart /\ UNCHANGED <<run, given, current>>

CancelWatcher ==
    run' = IF current # None /\ run[current] = "running"
           THEN [run EXCEPT ![current] = "cancelled"] ELSE run

\* The goroutine: Run returns, it clears the handle if it is still its own,
\* and last it closes done, which lets go of whoever waits for it.
RunReturns(w) ==
    /\ \/ run[w] = "cancelled" /\ UNCHANGED faults
       \/ run[w] = "running" /\ Fault("run")
    /\ run' = [run EXCEPT ![w] = "returned"]
    /\ UNCHANGED <<threads, given, current, restarters, restartDue, token, setup,
                   keyring, disk, refused, world>>

ClearHandle(w) ==
    /\ run[w] = "returned"
    /\ run' = [run EXCEPT ![w] = "cleared"]
    /\ current' = IF current = w THEN None ELSE current
    /\ UNCHANGED <<threads, given, restarters, restartDue, token, setup, keyring,
                   disk, refused, world, faults>>

CloseDone(w) ==
    /\ run[w] = "cleared"
    /\ run' = [run EXCEPT ![w] = "ended"]
    /\ given' = [given EXCEPT ![w] = [token |-> None, path |-> None]]
    /\ restarters' = restarters \ {w}
    /\ restartDue' = (restartDue \/ w \in restarters)
    /\ UNCHANGED <<threads, current, token, setup, keyring, disk, refused, world, faults>>

\* Mutant: the restart does not wait for setupMu.
RestartUnlocked ==
    /\ restartDue
    /\ StartWatcher /\ restartDue' = FALSE
    /\ UNCHANGED <<threads, restarters, token, setup, keyring, disk, refused, world, faults>>

Restart ==
    /\ restartDue /\ lock = None
    /\ StartWatcher /\ restartDue' = FALSE
    /\ UNCHANGED <<threads, restarters, token, setup, keyring, disk, refused, world, faults>>

\* The server refuses a scan for its token: its record fails with 401 or 403.
Refuse(w) ==
    /\ Active(w) /\ Fault("refuse")
    /\ refused' = refused \cup {given[w].token}
    /\ UNCHANGED <<threads, watchers, token, setup, keyring, disk, world>>

-----------------------------------------------------------------------------
(* Files                                                                   *)

Candidates  == IF install = "none" THEN {} ELSE files
\* A hash of sizes and times: no change brings all of them back.
Fingerprint == IF Candidates = {} THEN 0 ELSE changes

Write(settings) == disk' = [settings |-> settings, torn |-> FALSE]

\* saveConfig rewrites the file in place: a failure may leave it torn.
WriteBreaks ==
    Fault("save") /\ disk' \in {disk, [disk EXCEPT !.torn = TRUE]}

\* The file that stays or becomes selected.
Selected ==
    IF config.path \in Candidates THEN {config.path}
    ELSE IF Candidates # {} THEN Candidates ELSE {None}

\* refreshSetupLocked
RefreshSucceeds ==
    /\ \E p \in Selected :
        /\ config' = [config EXCEPT !.path = p]
        /\ IF config' # config /\ writable THEN Write(config') ELSE UNCHANGED disk
    /\ seen' = install
    /\ UNCHANGED <<writable, faults>>

RefreshFails ==
    /\ \/ install # "none" /\ Fault("inspect") /\ UNCHANGED disk
       \/ Selected # {config.path} /\ writable /\ WriteBreaks
    /\ UNCHANGED <<config, writable, seen>>

-----------------------------------------------------------------------------
(* The calls from the window                                               *)

Goes(u, from, to) ==
    calls[u].pc = from /\ calls' = [calls EXCEPT ![u].pc = to]

\* Wails runs each call in a goroutine of its own; the window makes none of
\* these while it shows the loading view.
Call(u, op, arg) ==
    /\ calls[u].pc = "idle" /\ ~Initializing
    /\ op \in Operations
    /\ \/ op = "token" /\ arg \in Tokens
       \/ op = "file" /\ arg \in Candidates           \* it was just read
       \/ op = "folder" /\ install # "none" /\ arg = None
       \/ op \in {"forget", "refresh", "channel"} /\ arg = None
    /\ calls' = [calls EXCEPT ![u] = [NoCall EXCEPT !.pc = "lock", !.op = op, !.arg = arg]]
    /\ UNCHANGED <<lock, initializer, monitor, quit, quitAwaits, watchers, token,
                   setup, keyring, disk, refused, world, faults>>

First(op) ==
    CASE op = "refresh" -> "inspect" [] op = "channel" -> "read" [] OTHER -> "stop"

\* Mutant: forgetting the token does not take setupMu.
AcquireExceptForForget(u) ==
    /\ Goes(u, "lock", First(calls[u].op))
    /\ IF calls[u].op = "forget" THEN UNCHANGED lock ELSE lock = None /\ lock' = u
    /\ UNCHANGED <<initializer, monitor, quit, quitAwaits, watchers, token, setup,
                   keyring, disk, refused, world, faults>>

\* Mutant: a change of channel does not take setupMu.
AcquireExceptForChannel(u) ==
    /\ Goes(u, "lock", First(calls[u].op))
    /\ IF calls[u].op = "channel" THEN UNCHANGED lock ELSE lock = None /\ lock' = u
    /\ UNCHANGED <<initializer, monitor, quit, quitAwaits, watchers, token, setup,
                   keyring, disk, refused, world, faults>>

Acquire(u) ==
    /\ lock = None /\ Goes(u, "lock", First(calls[u].op))
    /\ lock' = u
    /\ UNCHANGED <<initializer, monitor, quit, quitAwaits, watchers, token, setup,
                   keyring, disk, refused, world, faults>>

AfterStop(op) == IF op \in {"token", "forget"} THEN "token" ELSE "read"

StopWatcher(u) ==
    /\ calls[u].pc = "stop"
    /\ calls' = [calls EXCEPT
            ![u].pc = IF current = None THEN AfterStop(calls[u].op) ELSE "waiting",
            ![u].awaited = current]
    /\ CancelWatcher
    /\ UNCHANGED <<lock, initializer, monitor, quit, quitAwaits, given, current,
                   restarters, restartDue, token, setup, keyring, disk, refused,
                   world, faults>>

WatcherStopped(u) ==
    /\ Goes(u, "waiting", AfterStop(calls[u].op))
    /\ run[calls[u].awaited] = "ended"
    /\ current' = IF current = calls[u].awaited THEN None ELSE current
    /\ UNCHANGED <<lock, initializer, monitor, quit, quitAwaits, run, given,
                   restarters, restartDue, token, setup, keyring, disk, refused,
                   world, faults>>

\* Mutant: after ten seconds the call goes on without the watcher's end.
StopTimesOutContinuing(u) ==
    /\ Goes(u, "waiting", AfterStop(calls[u].op))
    /\ UNCHANGED <<lock, initializer, monitor, quit, quitAwaits, watchers, token,
                   setup, keyring, disk, refused, world, faults>>

\* restartWatcherWhenStopped: the watcher may have ended just now.
RestartWhenStopped(w) ==
    /\ restarters' = IF run[w] = "ended" THEN restarters ELSE restarters \cup {w}
    /\ restartDue' = (restartDue \/ run[w] = "ended")

\* Mutant: after ten seconds the watcher is forgotten.
StopTimesOutForgetting(u) ==
    /\ Goes(u, "waiting", "unlock")
    /\ RestartWhenStopped(calls[u].awaited) /\ current' = None
    /\ UNCHANGED <<lock, initializer, monitor, quit, quitAwaits, run, given, token,
                   setup, keyring, disk, refused, world, faults>>

\* Ten seconds have passed: the call fails, and leaves someone to restart.
StopTimesOut(u) ==
    /\ Goes(u, "waiting", "unlock")
    /\ RestartWhenStopped(calls[u].awaited)
    /\ UNCHANGED <<lock, initializer, monitor, quit, quitAwaits, run, given, current,
                   token, setup, keyring, disk, refused, world, faults>>

\* Mutant: the current entry goes first.
DeletedFirstCurrent == "current"

\* deleteInstallationToken deletes one entry, and then the other.
DeletedFirst == "former"

DeleteFirst(u) ==
    /\ calls[u].pc = "token" /\ calls[u].op = "forget"
    /\ \/ /\ keyring' = [keyring EXCEPT ![DeletedFirst] = None]
          /\ Goes(u, "token", "delete") /\ UNCHANGED faults
       \/ Fault("keyring") /\ Goes(u, "token", "start") /\ UNCHANGED keyring
    /\ UNCHANGED <<lock, initializer, monitor, quit, quitAwaits, watchers, token, setup,
                   disk, refused, world>>

\* SetInstallationToken and RemoveInstallationToken: the credential store, then
\* memory.  A configuration that cannot be written ends both here.
ChangeToken(u) ==
    /\ \/ calls[u].pc = "token" /\ calls[u].op = "token"
       \/ calls[u].pc = "delete"
    /\ \/ /\ keyring' = IF calls[u].op = "token" THEN [keyring EXCEPT !.current = calls[u].arg]
                        ELSE [e \in DOMAIN keyring |->
                                IF e = DeletedFirst THEN keyring[e] ELSE None]
          /\ token' = calls[u].arg
          /\ calls' = [calls EXCEPT ![u].pc = IF writable THEN "save" ELSE "start",
                                    ![u].draft = config,
                                    ![u].replaced = token # calls[u].arg]
          /\ UNCHANGED faults
       \/ /\ Fault("keyring") /\ Goes(u, calls[u].pc, "start")
          /\ UNCHANGED <<keyring, token>>
    /\ UNCHANGED <<lock, initializer, monitor, quit, quitAwaits, watchers, setup,
                   disk, refused, world>>

Draft(op, path) ==
    CASE op = "folder"  -> {[config EXCEPT !.path = None]}
      [] op = "file"    -> {[config EXCEPT !.path = path]}
      [] op = "channel" -> {[config EXCEPT !.beta = b] : b \in BOOLEAN}

Rest(op) == IF op = "channel" THEN "unlock" ELSE "start"     \* after an error

\* SetWowFolder, SetScanFile and SetUpdateChannel copy the configuration, ...
ReadConfig(u) ==
    /\ calls[u].pc = "read"
    /\ \E d \in Draft(calls[u].op, calls[u].arg) :
        calls' = [calls EXCEPT
            ![u].pc = IF writable THEN "save" ELSE Rest(calls[u].op),
            ![u].draft = IF writable THEN d ELSE @]
    /\ UNCHANGED <<lock, initializer, monitor, quit, quitAwaits, watchers, token,
                   setup, keyring, disk, refused, world, faults>>

AfterSave(op, replaced) ==
    CASE op \in {"folder", "file"} -> "inspect"
      [] op = "token" /\ replaced  -> "reset"
      [] op = "channel"            -> "unlock"
      [] OTHER                     -> "start"

\* Mutant: the settings are in use before they are known to be saved.
SaveConfigAfterUse(u) ==
    LET op == calls[u].op IN
    /\ calls[u].pc = "save"
    /\ config' = calls[u].draft
    /\ \/ /\ Write(calls[u].draft) /\ UNCHANGED faults
          /\ Goes(u, "save", AfterSave(op, calls[u].replaced))
       \/ WriteBreaks /\ Goes(u, "save", Rest(op))
    /\ UNCHANGED <<lock, initializer, monitor, quit, quitAwaits, watchers, token,
                   writable, seen, fingerprint, keyring, refused, world>>

\* ... save the copy, and only then make it the configuration.
SaveConfig(u) ==
    LET op == calls[u].op IN
    /\ calls[u].pc = "save"
    /\ \/ /\ Write(calls[u].draft) /\ config' = calls[u].draft /\ UNCHANGED faults
          /\ Goes(u, "save", AfterSave(op, calls[u].replaced))
       \/ WriteBreaks /\ UNCHANGED config /\ Goes(u, "save", Rest(op))
    /\ UNCHANGED <<lock, initializer, monitor, quit, quitAwaits, watchers, token,
                   writable, seen, fingerprint, keyring, refused, world>>

\* ResetFailedAuthorization
RequeueRefused(u) ==
    /\ Goes(u, "reset", "start")
    /\ \/ refused' = {} /\ UNCHANGED faults
       \/ refused # {} /\ Fault("reset") /\ UNCHANGED refused
    /\ UNCHANGED <<lock, initializer, monitor, quit, quitAwaits, watchers, token,
                   setup, keyring, disk, world>>

Inspect(u) ==
    /\ calls[u].pc = "inspect"
    /\ \/ RefreshSucceeds /\ Goes(u, "inspect", "start")
       \/ /\ RefreshFails
          /\ Goes(u, "inspect", IF calls[u].op = "refresh" THEN "unlock" ELSE "start")
    /\ UNCHANGED <<lock, initializer, monitor, quit, quitAwaits, watchers, token,
                   fingerprint, keyring, refused, world>>

\* The deferred startWatcher and Unlock.
Return(u) ==
    /\ calls[u].pc \in {"start", "unlock"}
    /\ IF calls[u].pc = "start" THEN StartWatcher ELSE UNCHANGED <<run, given, current>>
    /\ lock' = None /\ calls' = [calls EXCEPT ![u] = NoCall]
    /\ UNCHANGED <<initializer, monitor, quit, quitAwaits, restarters, restartDue,
                   token, setup, keyring, disk, refused, world, faults>>

-----------------------------------------------------------------------------
(* initialize                                                              *)

Load ==
    /\ initializer = "load" /\ initializer' = "refresh"
    /\ config' = IF disk.torn THEN Defaults ELSE disk.settings
    /\ writable' = ~disk.torn
    /\ \/ token' = Stored /\ keyring' = Migrated /\ UNCHANGED faults
       \/ Fault("keyring") /\ UNCHANGED <<token, keyring>>
       \/ /\ keyring.current = None /\ keyring.former # None /\ Fault("keyring")
          /\ token' = Stored /\ keyring' = [keyring EXCEPT !.current = Stored]
    /\ UNCHANGED <<lock, calls, monitor, quit, quitAwaits, watchers, seen,
                   fingerprint, disk, refused, world>>

FirstRefresh ==
    /\ initializer = "refresh" /\ lock = None /\ initializer' = "finish"
    /\ RefreshSucceeds \/ RefreshFails
    /\ UNCHANGED <<lock, calls, monitor, quit, quitAwaits, watchers, token,
                   fingerprint, keyring, refused, world>>

\* Mutant: an incomplete setup is not monitored.
FinishInitializeUnmonitored ==
    /\ initializer = "finish"
    /\ initializer' = IF Quitting THEN "done" ELSE "start"
    /\ monitor' = IF Quitting \/ ~Ready THEN monitor ELSE "sleep"
    /\ UNCHANGED <<lock, calls, quit, quitAwaits, watchers, token, setup, keyring,
                   disk, refused, world, faults>>

FinishInitialize ==
    /\ initializer = "finish"
    /\ initializer' = IF Quitting THEN "done" ELSE "start"
    /\ monitor' = IF Quitting THEN monitor ELSE "sleep"
    /\ UNCHANGED <<lock, calls, quit, quitAwaits, watchers, token, setup, keyring,
                   disk, refused, world, faults>>

FirstStart ==
    /\ initializer = "start" /\ lock = None /\ initializer' = "done"
    /\ StartWatcher
    /\ UNCHANGED <<lock, calls, monitor, quit, quitAwaits, restarters, restartDue,
                   token, setup, keyring, disk, refused, world, faults>>

-----------------------------------------------------------------------------
(* The setup monitor                                                       *)

\* Mutant: the monitor takes no care of a setup that is complete.
MonitorTickUnlessReady ==
    /\ monitor = "sleep"
    /\ CurrentStep \notin {"token", "ready"}
    /\ monitor' = CurrentStep
    /\ UNCHANGED <<lock, calls, initializer, quit, quitAwaits, watchers, token, setup,
                   keyring, disk, refused, world, faults>>

\* It looks without setupMu, and remembers the step it saw.
MonitorTick ==
    /\ monitor = "sleep"
    /\ CurrentStep # "token" /\ ~(Ready /\ current # None)
    /\ monitor' = CurrentStep
    /\ UNCHANGED <<lock, calls, initializer, quit, quitAwaits, watchers, token, setup,
                   keyring, disk, refused, world, faults>>

\* One of refreshMissing...Locked, by the step it saw.
MonitorActs ==
    /\ lock = None /\ lock' = "monitor" /\ monitor' = "start"
    /\ \/ monitor = "ready"
       \/ monitor = "wow" /\ install = "none"
       \/ monitor = "saved_variables" /\ fingerprint = Fingerprint
    /\ UNCHANGED <<calls, initializer, quit, quitAwaits, watchers, token, setup,
                   keyring, disk, refused, world, faults>>

\* The addon's marker or the files cannot be looked at.
MonitorCannotLook ==
    /\ lock = None /\ monitor \in {"addon", "saved_variables"} /\ Fault("inspect")
    /\ monitor' = "sleep"
    /\ UNCHANGED <<lock, calls, initializer, quit, quitAwaits, watchers, token, setup,
                   keyring, disk, refused, world>>

MonitorMissesAddon ==
    /\ lock = None /\ monitor = "addon" /\ install # "addon"
    /\ lock' = "monitor" /\ monitor' = "start"
    /\ seen' = IF seen = "none" THEN "none" ELSE "game"
    /\ UNCHANGED <<calls, initializer, quit, quitAwaits, watchers, token, config,
                   writable, fingerprint, keyring, disk, refused, world, faults>>

MonitorRefreshes ==
    /\ lock = None
    /\ \/ monitor = "wow" /\ install # "none" /\ UNCHANGED fingerprint
       \/ monitor = "addon" /\ install = "addon" /\ UNCHANGED fingerprint
       \/ /\ monitor = "saved_variables" /\ fingerprint # Fingerprint
          /\ fingerprint' = Fingerprint
    /\ \/ RefreshSucceeds /\ lock' = "monitor" /\ monitor' = "start"
       \/ RefreshFails /\ monitor' = "sleep" /\ UNCHANGED lock
    /\ UNCHANGED <<calls, initializer, quit, quitAwaits, watchers, token, keyring,
                   refused, world>>

MonitorStarts ==
    /\ monitor = "start" /\ StartWatcher
    /\ monitor' = "sleep" /\ lock' = None
    /\ UNCHANGED <<calls, initializer, quit, quitAwaits, restarters, restartDue, token,
                   setup, keyring, disk, refused, world, faults>>

\* Quit cancelled it: it ends at its next look at its context.
MonitorEnds ==
    /\ monitor = "sleep" /\ quit \in {"stop", "waiting", "exit"}
    /\ monitor' = "off"
    /\ UNCHANGED <<lock, calls, initializer, quit, quitAwaits, watchers, token, setup,
                   keyring, disk, refused, world, faults>>

-----------------------------------------------------------------------------
(* Quit, the end of the process, and the world                             *)

Quit ==
    /\ quit = "no" /\ quit' = "stop"
    /\ UNCHANGED <<lock, calls, initializer, monitor, quitAwaits, watchers, token,
                   setup, keyring, disk, refused, world, faults>>

\* stopSetupMonitor waits two seconds at most, and not for setupMu.
QuitStops ==
    /\ quit = "stop"
    /\ quit' = IF current = None THEN "exit" ELSE "waiting"
    /\ quitAwaits' = current
    /\ CancelWatcher
    /\ UNCHANGED <<lock, calls, initializer, monitor, given, current, restarters,
                   restartDue, token, setup, keyring, disk, refused, world, faults>>

QuitWaited ==
    /\ quit = "waiting" /\ quit' = "exit"
    /\ \/ /\ run[quitAwaits] = "ended"
          /\ current' = IF current = quitAwaits THEN None ELSE current
          /\ UNCHANGED <<restarters, restartDue>>
       \/ RestartWhenStopped(quitAwaits) /\ UNCHANGED current
    /\ UNCHANGED <<lock, calls, initializer, monitor, quitAwaits, run, given, token,
                   setup, keyring, disk, refused, world, faults>>

\* The process ends, and is started again.
Relaunch ==
    /\ lock' = None /\ calls' = [u \in Clients |-> NoCall]
    /\ initializer' = "load" /\ monitor' = "off"
    /\ quit' = "no" /\ quitAwaits' = None
    /\ run' = [w \in Runs |-> "ended"]
    /\ given' = [w \in Runs |-> [token |-> None, path |-> None]]
    /\ current' = None /\ restarters' = {} /\ restartDue' = FALSE
    /\ token' = None /\ config' = Defaults /\ writable' = FALSE
    /\ seen' = "none" /\ fingerprint' = -1
    /\ UNCHANGED <<keyring, refused, world>>

Exit == quit = "exit" /\ Relaunch /\ UNCHANGED <<disk, faults>>

\* A crash may hit config.json while it is written.
Crash ==
    /\ Fault("crash") /\ Relaunch
    /\ \/ UNCHANGED disk
       \/ /\ \E u \in Clients : calls[u].pc = "save"
          /\ disk' = [disk EXCEPT !.torn = TRUE]

Install(what) ==
    /\ install' = what
    /\ UNCHANGED <<threads, watchers, token, setup, keyring, disk, refused, files,
                   changes, faults>>

ChangeFiles(F) ==
    /\ changes < MaxChanges /\ changes' = changes + 1
    /\ files' = F
    /\ UNCHANGED <<threads, watchers, token, setup, keyring, disk, refused, install,
                   faults>>

-----------------------------------------------------------------------------
Init ==
    /\ lock = None /\ calls = [u \in Clients |-> NoCall]
    /\ initializer = "load" /\ monitor = "off" /\ quit = "no" /\ quitAwaits = None
    /\ run = [w \in Runs |-> "ended"]
    /\ given = [w \in Runs |-> [token |-> None, path |-> None]]
    /\ current = None /\ restarters = {} /\ restartDue = FALSE
    /\ token = None /\ config = Defaults /\ writable = FALSE
    /\ seen = "none" /\ fingerprint = -1
    /\ \E t \in FormerTokens : keyring = [current |-> None, former |-> t]
    /\ disk = [settings |-> Defaults, torn |-> FALSE]
    /\ refused = {} /\ install \in Installs /\ files = {} /\ changes = 0 /\ faults = 0

Holding(u) ==
    \/ StopWatcher(u) \/ WatcherStopped(u) \/ DeleteFirst(u) \/ ChangeToken(u)
    \/ ReadConfig(u) \/ SaveConfig(u) \/ RequeueRefused(u) \/ Inspect(u) \/ Return(u)

Initialize == Load \/ FirstRefresh \/ FinishInitialize \/ FirstStart

Monitoring == MonitorActs \/ MonitorCannotLook \/ MonitorMissesAddon \/ MonitorRefreshes

Watching(w) == RunReturns(w) \/ ClearHandle(w) \/ CloseDone(w)

Next ==
    \/ \E u \in Clients :
        \/ \E op \in Operations, arg \in Tokens \cup Paths \cup {None} : Call(u, op, arg)
        \/ Acquire(u) \/ StopTimesOut(u) \/ Holding(u)
    \/ Initialize \/ MonitorTick \/ Monitoring \/ MonitorStarts \/ MonitorEnds
    \/ \E w \in Runs : Watching(w) \/ Refuse(w)
    \/ Restart
    \/ Quit \/ QuitStops \/ QuitWaited \/ Exit \/ Crash
    \/ \E what \in Installs : Install(what)
    \/ \E F \in SUBSET Paths : ChangeFiles(F)

AppSpec == Init /\ [][Next]_appVars

\* Goroutines run; setupMu is handed to one that keeps asking (Go's mutex
\* starves nobody); a cancelled watcher returns.  Nobody has to call, quit, or
\* time out.
Fairness ==
    /\ \A u \in Clients : SF_appVars(Acquire(u)) /\ WF_appVars(Holding(u))
    /\ SF_appVars(Initialize)
    /\ WF_appVars(MonitorTick) /\ SF_appVars(Monitoring) /\ WF_appVars(MonitorStarts)
    /\ \A w \in Runs :
        /\ WF_appVars(RunReturns(w) /\ run[w] = "cancelled")
        /\ WF_appVars(ClearHandle(w)) /\ WF_appVars(CloseDone(w))
    /\ SF_appVars(Restart)

AppLiveSpec == AppSpec /\ Fairness

-----------------------------------------------------------------------------
(* Properties                                                              *)

Inside == {"stop", "waiting", "token", "delete", "read", "save", "reset", "inspect",
           "start", "unlock"}

\* setupMu is held by whoever is inside, one at a time.
OneInside == \A u \in Clients : calls[u].pc \in Inside <=> lock = u

CallRecords ==
    [pc : {"idle", "lock"} \cup Inside, op : Operations \cup {None},
     arg : Tokens \cup Paths \cup {None}, draft : Settings,
     replaced : BOOLEAN, awaited : Runs \cup {None}]

ThreadTypes ==
    /\ lock \in Clients \cup {None, "monitor"} /\ calls \in [Clients -> CallRecords]
    /\ initializer \in {"load", "refresh", "finish", "start", "done"}
    /\ monitor \in {"off", "sleep", "wow", "addon", "saved_variables", "ready", "start"}
    /\ quit \in {"no", "stop", "waiting", "exit"} /\ quitAwaits \in Runs \cup {None}

WatcherTypes ==
    /\ run \in [Runs -> {"ended", "running", "cancelled", "returned", "cleared"}]
    /\ given \in [Runs -> [token : Tokens \cup {None}, path : Paths \cup {None}]]
    /\ current \in Runs \cup {None} /\ restarters \subseteq Runs
    /\ restartDue \in BOOLEAN

SetupTypes ==
    /\ token \in Tokens \cup {None}
    /\ keyring \in [current : Tokens \cup {None}, former : Tokens \cup {None}]
    /\ config \in Settings /\ disk \in [settings : Settings, torn : BOOLEAN]
    /\ writable \in BOOLEAN /\ seen \in {"none", "game", "addon"}
    /\ fingerprint \in -1..MaxChanges

WorldTypes ==
    /\ refused \subseteq Tokens /\ install \in Installs
    /\ files \subseteq Paths /\ changes \in 0..MaxChanges /\ faults \in 0..MaxFaults

AppTypeOK == OneInside /\ ThreadTypes /\ WatcherTypes /\ SetupTypes /\ WorldTypes

\* Two watchers never run at once: both would load, change and replace the same
\* uploads.json.  Stops that time out, restarts, the monitor and Quit included.
OneWatcher == \A v, w \in Runs : Active(v) /\ Active(w) => v = w

\* The queue is reset for a new token only while no watcher runs: a watcher in
\* the middle of ProcessDue would write its older copy of the queue back.
QueueIsQuiet ==
    \A u \in Clients : calls[u].pc = "reset" => \A w \in Runs : ~Active(w)

\* A watcher that was not told to stop uploads with the token the user set last:
\* every call that changes the token stops the watcher before, and none comes up
\* before the call is through.
WatcherHasToken == \A w \in Runs : run[w] = "running" => given[w].token = token

\* The token the next start will find changes only by a call for it, and to what
\* the user asked for: a token that was replaced or forgotten never comes back from
\* the entry of a former version, whatever failed or ended half way.
OnlyCallsChangeToken ==
    [][Stored' # Stored =>
        \E u \in Clients : calls[u].pc \in {"token", "delete"} /\ Stored' = calls[u].arg]_appVars

\* Once Quit is done with the watcher, none runs that was not told to stop, and
\* none comes up after it, whoever was about to start one.
QuitStopsWatcher == quit = "exit" => \A w \in Runs : run[w] # "running"

\* Outside a settings call the configuration in use is the one on disk, unless
\* a write has torn it or it could not be read at the start.
SettingsAreSaved ==
    lock = None /\ writable /\ ~disk.torn /\ ~Initializing
        => disk.settings = config

\* The copy a call is about to save differs from the configuration by what that
\* call changes and nothing else, so it undoes no one else's change.
CopyIsCurrent ==
    \A u \in Clients : calls[u].pc = "save" =>
        calls[u].draft \in IF calls[u].op \in {"token", "forget"} THEN {config}
                            ELSE Draft(calls[u].op, calls[u].arg)

\* README: "The watcher starts automatically once setup is complete."  With
\* everything in place the application comes to be ready.
SetupCompletes ==
    (token # None /\ install = "addon" /\ files # {} /\ initializer = "done") ~>
        \/ Ready
        \/ token = None \/ install # "addon" \/ files = {} \/ Quitting \/ Initializing

\* A ready application has a watcher running sooner or later, whatever stopped
\* the last one.
ReadyRuns ==
    Ready ~> \/ \E w \in Runs : run[w] = "running"
             \/ ~Ready \/ Quitting \/ Initializing

\* companion/README.md: "Replacing a rejected token requeues scans that failed with
\* HTTP 401 or 403."  So a call that requeues nothing, because its token is the one
\* in use already, leaves no scan refused with another.
SameTokenLeavesNoneRefused ==
    \A u \in Clients :
        calls[u].op = "token" /\ calls[u].pc = "save" /\ ~calls[u].replaced
            => refused \subseteq {token}

=============================================================================
