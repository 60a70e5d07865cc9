------------------------ MODULE AppLifecycle_proofs ------------------------
(***************************************************************************)
(* Proofs about AppLifecycle for every number of calls, watchers, tokens   *)
(* and files, and any number of faults.                                    *)
(***************************************************************************)
EXTENDS AppLifecycle, TLAPS

-----------------------------------------------------------------------------
(* The inductive invariant                                                 *)

\* Each call has the argument its operation takes, and is only where that
\* operation goes.
CallsFitOperations ==
    \A u \in Clients : LET c == calls[u] IN
        c.pc # "idle" =>
            /\ c.op \in Operations
            /\ c.op = "token" => c.arg \in Tokens
            /\ c.op = "file" => c.arg \in Paths
            /\ c.op \notin {"token", "file"} => c.arg = None
            /\ c.pc \in {"token", "delete"} => c.op \in {"token", "forget"}
            /\ c.pc = "delete" => c.op = "forget" /\ keyring.former = None
            /\ c.pc \in {"stop", "waiting"} => c.op \notin {"refresh", "channel"}
            /\ c.pc = "read" => c.op \in {"folder", "file", "channel"}
            /\ c.pc = "save" => c.op # "refresh" /\ writable
            /\ c.pc = "reset" => c.op = "token"
            /\ c.pc = "inspect" => c.op \in {"folder", "file", "refresh"}

\* A call that has stopped the watcher finds none until it returns.
StoppedStays ==
    \A u \in Clients :
        /\ calls[u].op \notin {"refresh", "channel"}
        /\ calls[u].pc \in {"token", "delete", "read", "save", "reset", "inspect", "start"}
        => current = None

\* A call waits for the watcher that is current, if one still is.
AwaitsCurrent ==
    \A u \in Clients : calls[u].pc = "waiting" =>
        calls[u].awaited \in Runs /\ current \in {None, calls[u].awaited}

\* The monitor holds setupMu when it is about to start the watcher.
MonitorHolds == lock = "monitor" <=> monitor = "start"

\* The handle is that of the one goroutine that has not cleared it.
HandleIsOfRunning ==
    \A w \in Runs : current = w <=> run[w] \in {"running", "cancelled", "returned"}

\* A watcher at work was given a token.
GivenToken == \A w \in Runs : Active(w) => given[w].token \in Tokens

\* Nothing else goes on while initialize loads and refreshes.
InitializesAlone ==
    Initializing => /\ current = None /\ monitor = "off"
                    /\ \A u \in Clients : calls[u].pc = "idle"

\* Quit has told the watcher it waits for to stop.
QuitHasStopped ==
    /\ quit \in {"waiting", "exit"} => \A w \in Runs : run[w] # "running"
    /\ quit = "waiting" => quitAwaits \in Runs

\* The configuration in use is the one on disk.
ConfigOnDisk == writable /\ ~disk.torn => disk.settings = config

AppInv ==
    /\ AppTypeOK /\ CallsFitOperations /\ StoppedStays /\ AwaitsCurrent
    /\ MonitorHolds /\ HandleIsOfRunning /\ GivenToken /\ InitializesAlone
    /\ WatcherHasToken /\ QuitHasStopped /\ ConfigOnDisk /\ CopyIsCurrent

-----------------------------------------------------------------------------
(* Typing                                                                  *)

LEMMA TypeInit == Init => AppTypeOK
<1> SUFFICES ASSUME Init PROVE AppTypeOK
  OBVIOUS
<1>1. Defaults \in Settings
  BY DEF Defaults, Settings
<1>2. NoCall \in CallRecords
  BY <1>1 DEF NoCall, CallRecords
<1>3. OneInside
  BY NoneAssumption DEF Init, NoCall, OneInside, Inside
<1>4. keyring \in [current : Tokens \cup {None}, former : Tokens \cup {None}]
  BY FormerTokensAssumption DEF Init
<1>5. disk \in [settings : Settings, torn : BOOLEAN]
  BY <1>1 DEF Init
<1>6. MaxChanges \in Nat /\ MaxFaults \in Nat
  BY LimitsAssumption
<1>7. ThreadTypes
  BY <1>2 DEF Init, ThreadTypes
<1>8. WatcherTypes
  BY DEF Init, WatcherTypes
<1>9. SetupTypes
  <2>1. fingerprint \in -1..MaxChanges
    BY <1>6 DEF Init
  <2>2. QED BY <1>1, <1>4, <1>5, <2>1 DEF Init, SetupTypes
<1>10. WorldTypes
  BY <1>6 DEF Init, WorldTypes
<1>11. QED BY <1>3, <1>7, <1>8, <1>9, <1>10 DEF AppTypeOK

\* The record of a client without a call.
LEMMA NoCallTyping == NoCall \in CallRecords /\ NoCall.pc = "idle"
<1>1. Defaults \in Settings BY DEF Defaults, Settings
<1>2. QED BY <1>1 DEF NoCall, CallRecords

\* What a call may do to itself.
LEMMA CallTyping ==
    ASSUME calls \in [Clients -> CallRecords], NEW u \in Clients,
           NEW c \in CallRecords, calls' = [calls EXCEPT ![u] = c]
    PROVE  /\ calls' \in [Clients -> CallRecords]
           /\ calls'[u] = c /\ \A v \in Clients \ {u} : calls'[v] = calls[v]
OBVIOUS

\* A call that goes on keeps what it was asked for and what it has read.
LEMMA GoesTyping ==
    ASSUME calls \in [Clients -> CallRecords], NEW u \in Clients, NEW from,
           NEW to \in {"idle", "lock"} \cup Inside, Goes(u, from, to)
    PROVE  /\ calls' \in [Clients -> CallRecords]
           /\ calls[u].pc = from /\ calls'[u].pc = to
           /\ calls'[u].op = calls[u].op /\ calls'[u].arg = calls[u].arg
           /\ calls'[u].draft = calls[u].draft /\ calls'[u].replaced = calls[u].replaced
           /\ calls'[u].awaited = calls[u].awaited
           /\ \A v \in Clients \ {u} : calls'[v] = calls[v]
<1>1. /\ calls[u] \in CallRecords /\ calls[u].pc = from
      /\ calls' = [calls EXCEPT ![u] = [calls[u] EXCEPT !.pc = to]]
  BY DEF Goes
<1> DEFINE c == [calls[u] EXCEPT !.pc = to]
<1>2. /\ c \in CallRecords /\ c.pc = to /\ c.op = calls[u].op /\ c.arg = calls[u].arg
      /\ c.draft = calls[u].draft /\ c.replaced = calls[u].replaced
      /\ c.awaited = calls[u].awaited
  BY <1>1 DEF CallRecords
<1> HIDE DEF c
<1>3. calls' = [calls EXCEPT ![u] = c]
  BY <1>1 DEF c
<1>4. QED BY <1>1, <1>2, <1>3, CallTyping

\* What is next after a stop, a copy or a save is within setupMu.
LEMMA NextPlaces ==
    \A op, r : /\ AfterStop(op) \in {"token", "read"} /\ Rest(op) \in {"start", "unlock"}
              /\ AfterSave(op, r) \in {"inspect", "reset", "unlock", "start"}
BY DEF AfterStop, Rest, AfterSave

\* What a call makes of the configuration is a configuration.
LEMMA DraftTyping ==
    ASSUME config \in Settings, NEW op, NEW arg,
           op \in {"folder", "file", "channel"}, op = "file" => arg \in Paths
    PROVE  Draft(op, arg) \subseteq Settings
BY DEF Draft, Settings

\* A step within setupMu moves the call that holds it, and no other, along the
\* path of its operation.
Path(c, d) ==
    \/ c.pc = "stop" /\ d.pc = "waiting" /\ d.awaited = current /\ current # None
    \/ c.pc = "stop" /\ d.pc = AfterStop(c.op) /\ current = None
    \/ c.pc = "waiting" /\ d.pc = AfterStop(c.op)
    \/ c.pc = "token" /\ c.op = "forget" /\ d.pc = "delete" /\ keyring'.former = None
    \/ c.pc \in {"token", "delete"} /\ d.pc = "save" /\ writable /\ d.draft = config
    \/ c.pc \in {"token", "delete", "reset"} /\ d.pc = "start"
    \/ c.pc = "read" /\ d.pc = "save" /\ writable /\ d.draft \in Draft(c.op, c.arg)
    \/ c.pc \in {"read", "save"} /\ d.pc = Rest(c.op)
    \/ c.pc = "save" /\ d.pc = AfterSave(c.op, c.replaced)
    \/ c.pc = "inspect" /\ d.pc \in {"start", "unlock"}

\* Every step of a call between two of its places is inside setupMu.
LEMMA PathInside ==
    ASSUME NEW c, NEW d, Path(c, d) PROVE c.pc \in Inside /\ d.pc \in Inside
BY NextPlaces DEF Path, Inside

\* A step inside setupMu is the next one of its call, or its return.
LEMMA HoldingCalls ==
    ASSUME AppTypeOK, CallsFitOperations, NEW u \in Clients, Holding(u)
    PROVE  /\ calls' \in [Clients -> CallRecords]
           /\ \A v \in Clients \ {u} : calls'[v] = calls[v]
           /\ calls[u].pc \in Inside
           /\ \/ /\ Path(calls[u], calls'[u]) /\ lock' = lock
                 /\ calls'[u].op = calls[u].op /\ calls'[u].arg = calls[u].arg
              \/ Return(u) /\ calls'[u] = NoCall
<1>a. /\ calls \in [Clients -> CallRecords] /\ calls[u] \in CallRecords
      /\ current \in Runs \cup {None} /\ config \in Settings
      /\ token \in Tokens \cup {None} /\ DOMAIN keyring = {"current", "former"}
  BY DEF AppTypeOK, ThreadTypes, WatcherTypes, SetupTypes
<1> DEFINE Moved(d) == /\ calls' = [calls EXCEPT ![u] = d] /\ d \in CallRecords
                       /\ Path(calls[u], d) /\ lock' = lock
                       /\ d.op = calls[u].op /\ d.arg = calls[u].arg
<1>b. ASSUME \E d : Moved(d)
      PROVE  /\ calls' \in [Clients -> CallRecords]
             /\ \A v \in Clients \ {u} : calls'[v] = calls[v]
             /\ calls[u].pc \in Inside
             /\ Path(calls[u], calls'[u]) /\ lock' = lock
             /\ calls'[u].op = calls[u].op /\ calls'[u].arg = calls[u].arg
  <2>1. PICK d : Moved(d)
    BY <1>b
  <2>2. calls[u].pc \in Inside
    BY <2>1, PathInside
  <2>3. QED BY <2>1, <2>2, <1>a, CallTyping
<1>c. ASSUME NEW from, NEW to \in Inside, Goes(u, from, to), lock' = lock,
             \A d : /\ d.pc = to /\ d.op = calls[u].op /\ d.arg = calls[u].arg
                   /\ calls[u].pc = from
                   => Path(calls[u], d)
      PROVE  \E d : Moved(d)
  <2> DEFINE d == [calls[u] EXCEPT !.pc = to]
  <2>1. /\ d \in CallRecords /\ d.pc = to
        /\ d.op = calls[u].op /\ d.arg = calls[u].arg
    BY <1>a DEF CallRecords
  <2>2. calls' = [calls EXCEPT ![u] = d] /\ calls[u].pc = from
    BY <1>c DEF Goes
  <2> HIDE DEF d
  <2>3. Moved(d)
    BY <2>1, <2>2, <1>c
  <2>4. QED BY <2>3
<1>1. CASE StopWatcher(u)
  <2> DEFINE to == IF current = None THEN AfterStop(calls[u].op) ELSE "waiting"
             d == [calls[u] EXCEPT !.pc = to, !.awaited = current]
  <2>1. to \in Inside
    BY NextPlaces DEF Inside
  <2> HIDE DEF to
  <2>2. /\ d \in CallRecords /\ d.pc = to /\ d.awaited = current
        /\ d.op = calls[u].op /\ d.arg = calls[u].arg
    BY <1>a, <2>1 DEF CallRecords
  <2>3. /\ calls' = [calls EXCEPT ![u] = d] /\ calls[u].pc = "stop" /\ lock' = lock
    BY <1>1 DEF StopWatcher, to
  <2> HIDE DEF d
  <2>4. Moved(d)
    BY <2>2, <2>3 DEF Path, to
  <2>5. QED BY <2>4, <1>b
<1>2. CASE WatcherStopped(u)
  <2>1. AfterStop(calls[u].op) \in Inside
    BY NextPlaces DEF Inside
  <2>2. \E d : Moved(d)
    BY <1>2, <1>c, <2>1 DEF WatcherStopped, Path
  <2>3. QED BY <2>2, <1>b
<1>3. CASE DeleteFirst(u)
  <2>1. CASE keyring' = [keyring EXCEPT ![DeletedFirst] = None] /\ Goes(u, "token", "delete")
    <3>1. keyring'.former = None /\ calls[u].op = "forget" /\ lock' = lock
      BY <2>1, <1>3, <1>a DEF DeleteFirst, DeletedFirst
    <3>2. \E d : Moved(d)
      BY <2>1, <3>1, <1>c DEF Path, Inside
    <3>3. QED BY <3>2, <1>b
  <2>2. CASE Goes(u, "token", "start")
    <3>1. \E d : Moved(d)
      BY <2>2, <1>3, <1>c DEF DeleteFirst, Path, Inside
    <3>2. QED BY <3>1, <1>b
  <2>3. QED BY <1>3, <2>1, <2>2 DEF DeleteFirst
<1>4. CASE ChangeToken(u)
  <2>a. calls[u].pc \in {"token", "delete"} /\ lock' = lock
    BY <1>4 DEF ChangeToken
  <2>1. CASE Goes(u, calls[u].pc, "start")
    <3>1. \E d : Moved(d)
      BY <2>1, <2>a, <1>c DEF Path, Inside
    <3>2. QED BY <3>1, <1>b
  <2>2. CASE calls' = [calls EXCEPT ![u].pc = IF writable THEN "save" ELSE "start",
                                    ![u].draft = config,
                                    ![u].replaced = token # calls[u].arg]
    <3> DEFINE to == IF writable THEN "save" ELSE "start"
               d == [calls[u] EXCEPT !.pc = to, !.draft = config,
                                     !.replaced = token # calls[u].arg]
    <3>1. to \in Inside
      BY DEF Inside
    <3> HIDE DEF to
    <3>2. /\ d \in CallRecords /\ d.pc = to /\ d.draft = config
          /\ d.op = calls[u].op /\ d.arg = calls[u].arg
      BY <1>a, <3>1 DEF CallRecords
    <3>3. calls' = [calls EXCEPT ![u] = d]
      BY <2>2 DEF to
    <3> HIDE DEF d
    <3>4. Moved(d)
      BY <2>a, <3>2, <3>3 DEF Path, to
    <3>5. QED BY <3>4, <1>b
  <2>3. QED BY <1>4, <2>1, <2>2 DEF ChangeToken
<1>5. CASE ReadConfig(u)
  <2>1. PICK e \in Draft(calls[u].op, calls[u].arg) :
          calls' = [calls EXCEPT ![u].pc = IF writable THEN "save" ELSE Rest(calls[u].op),
                                 ![u].draft = IF writable THEN e ELSE @]
    BY <1>5 DEF ReadConfig
  <2>2. e \in Settings /\ calls[u].draft \in Settings
    BY <1>5, <1>a, DraftTyping DEF CallsFitOperations, ReadConfig, CallRecords
  <2> DEFINE to == IF writable THEN "save" ELSE Rest(calls[u].op)
             f == IF writable THEN e ELSE calls[u].draft
             d == [calls[u] EXCEPT !.pc = to, !.draft = f]
  <2>3. to \in Inside /\ f \in Settings
    BY <2>2, NextPlaces DEF Inside
  <2>4. calls' = [calls EXCEPT ![u] = d] /\ calls[u].pc = "read" /\ lock' = lock
    BY <2>1, <1>5 DEF ReadConfig
  <2> HIDE DEF to, f
  <2>5. /\ d \in CallRecords /\ d.pc = to /\ d.draft = f
        /\ d.op = calls[u].op /\ d.arg = calls[u].arg
    BY <1>a, <2>3 DEF CallRecords
  <2> HIDE DEF d
  <2>6. Moved(d)
    BY <2>4, <2>5 DEF Path, to, f
  <2>7. QED BY <2>6, <1>b
<1>6. CASE SaveConfig(u)
  <2>1. \E to \in {Rest(calls[u].op), AfterSave(calls[u].op, calls[u].replaced)} :
            Goes(u, "save", to)
    BY <1>6 DEF SaveConfig
  <2>2. \E d : Moved(d)
    BY <2>1, <1>6, <1>c, NextPlaces DEF SaveConfig, Path, Inside
  <2>3. QED BY <2>2, <1>b
<1>7. CASE RequeueRefused(u)
  <2>1. \E d : Moved(d)
    BY <1>7, <1>c DEF RequeueRefused, Path, Inside
  <2>2. QED BY <2>1, <1>b
<1>8. CASE Inspect(u)
  <2>1. \E to \in {"start", "unlock"} : Goes(u, "inspect", to)
    BY <1>8 DEF Inspect
  <2>2. \E d : Moved(d)
    BY <2>1, <1>8, <1>c DEF Inspect, Path, Inside
  <2>3. QED BY <2>2, <1>b
<1>9. CASE Return(u)
  BY <1>9, <1>a, NoCallTyping, CallTyping DEF Return, Inside
<1>10. QED BY <1>1, <1>2, <1>3, <1>4, <1>5, <1>6, <1>7, <1>8, <1>9 DEF Holding

-----------------------------------------------------------------------------
(* What the parts of a step do to the watcher and the configuration         *)

\* The number of failures stays within its bound.
LEMMA FaultTyping ==
    ASSUME WorldTypes, NEW kind, Fault(kind)
    PROVE  faults' \in 0..MaxFaults
BY LimitsAssumption DEF WorldTypes, Fault

\* startWatcher: at most one watcher more, with the handle and the token of now.
LEMMA StartEffect ==
    ASSUME WatcherTypes, SetupTypes, HandleIsOfRunning, WatcherHasToken, StartWatcher
    PROVE  /\ run' \in [Runs -> {"ended", "running", "cancelled", "returned", "cleared"}]
           /\ given' \in [Runs -> [token : Tokens \cup {None}, path : Paths \cup {None}]]
           /\ current' \in Runs \cup {None}
           /\ HandleIsOfRunning' /\ (GivenToken => GivenToken')
           /\ \A w \in Runs : run'[w] = "running" => given'[w].token = token
           /\ CanStart \/ UNCHANGED <<run, given, current>>
<1>1. CASE UNCHANGED <<run, given, current>>
  BY <1>1 DEF WatcherTypes, HandleIsOfRunning, WatcherHasToken, GivenToken, Active
<1>2. CASE CanStart /\ ~UNCHANGED <<run, given, current>>
  <2>1. PICK w \in Runs :
          /\ run[w] = "ended" /\ run' = [run EXCEPT ![w] = "running"]
          /\ given' = [given EXCEPT ![w] = [token |-> token, path |-> config.path]]
          /\ current' = w
    BY <1>2 DEF StartWatcher
  <2>2. [token |-> token, path |-> config.path]
            \in [token : Tokens \cup {None}, path : Paths \cup {None}]
    BY DEF SetupTypes, Settings
  <2>3. \A v \in Runs : run[v] \notin {"running", "cancelled", "returned"}
    BY <1>2, NoneAssumption DEF CanStart, HandleIsOfRunning
  <2>4. HandleIsOfRunning'
    BY <2>1, <2>3 DEF HandleIsOfRunning, WatcherTypes
  <2>5. token \in Tokens
    BY <1>2 DEF CanStart, Ready, SetupTypes
  <2>6. GivenToken => GivenToken'
    BY <2>1, <2>5 DEF GivenToken, Active, WatcherTypes
  <2>7. QED BY <1>2, <2>1, <2>2, <2>3, <2>4, <2>6 DEF WatcherTypes
<1>3. QED BY <1>1, <1>2 DEF StartWatcher

\* cancelWatcher: every watcher that ran is told to stop, and none is started.
LEMMA CancelEffect ==
    ASSUME WatcherTypes, HandleIsOfRunning, CancelWatcher, UNCHANGED current
    PROVE  /\ run' \in [Runs -> {"ended", "running", "cancelled", "returned", "cleared"}]
           /\ HandleIsOfRunning'
           /\ \A w \in Runs : run'[w] # "running"
           /\ \A w \in Runs : Active(w)' => Active(w)
BY NoneAssumption DEF WatcherTypes, HandleIsOfRunning, CancelWatcher, Active

\* Whoever waits for a watcher that has ended finds the handle cleared already.
LEMMA EndedIsNotCurrent ==
    ASSUME HandleIsOfRunning, NEW w \in Runs, run[w] = "ended"
    PROVE  (IF current = w THEN None ELSE current) = current
BY DEF HandleIsOfRunning

\* A refresh that succeeds leaves the configuration and the file the same.
LEMMA RefreshEffect ==
    ASSUME SetupTypes, WorldTypes, RefreshSucceeds
    PROVE  /\ config' \in Settings /\ disk' \in [settings : Settings, torn : BOOLEAN]
           /\ seen' \in {"none", "game", "addon"} /\ writable' = writable
           /\ faults' = faults /\ (ConfigOnDisk => ConfigOnDisk')
<1>1. Selected \subseteq Paths \cup {None}
  BY DEF Selected, Candidates, WorldTypes
<1>2. config' \in Settings
  BY <1>1 DEF RefreshSucceeds, SetupTypes, Settings
<1>3. disk' \in [settings : Settings, torn : BOOLEAN]
  <2>1. disk' \in {disk, [settings |-> config', torn |-> FALSE]}
    BY DEF RefreshSucceeds, Write
  <2>2. [settings |-> config', torn |-> FALSE] \in [settings : Settings, torn : BOOLEAN]
    BY <1>2
  <2>3. disk \in [settings : Settings, torn : BOOLEAN]
    BY DEF SetupTypes
  <2>4. QED BY <2>1, <2>2, <2>3
<1>4. seen' \in {"none", "game", "addon"}
  BY InstallsAssumption DEF RefreshSucceeds, WorldTypes
<1>5. ConfigOnDisk => ConfigOnDisk'
  BY DEF RefreshSucceeds, Write, ConfigOnDisk
<1>6. QED BY <1>2, <1>3, <1>4, <1>5 DEF RefreshSucceeds

\* A write that fails leaves the file as it was, or torn.
LEMMA WriteBreaksEffect ==
    ASSUME SetupTypes, WorldTypes, WriteBreaks
    PROVE  /\ disk' \in [settings : Settings, torn : BOOLEAN]
           /\ disk' = disk \/ disk'.torn
           /\ faults' \in 0..MaxFaults
<1>1. disk' \in {disk, [disk EXCEPT !.torn = TRUE]}
  BY DEF WriteBreaks
<1>2. [disk EXCEPT !.torn = TRUE] \in [settings : Settings, torn : BOOLEAN]
  BY DEF SetupTypes
<1>3. faults' \in 0..MaxFaults
  BY FaultTyping DEF WriteBreaks
<1>4. disk \in [settings : Settings, torn : BOOLEAN]
  BY DEF SetupTypes
<1>5. [disk EXCEPT !.torn = TRUE].torn
  BY <1>4
<1>6. QED BY <1>1, <1>2, <1>3, <1>4, <1>5

\* A refresh that fails leaves the configuration, and the file as it was or torn.
LEMMA RefreshFailsEffect ==
    ASSUME SetupTypes, WorldTypes, RefreshFails
    PROVE  /\ disk' \in [settings : Settings, torn : BOOLEAN]
           /\ disk' = disk \/ disk'.torn
           /\ UNCHANGED <<config, writable, seen>> /\ faults' \in 0..MaxFaults
           /\ (ConfigOnDisk => ConfigOnDisk')
<1>1. /\ disk' = disk \/ disk'.torn
      /\ disk' \in [settings : Settings, torn : BOOLEAN] /\ faults' \in 0..MaxFaults
  BY WriteBreaksEffect, LimitsAssumption DEF SetupTypes, WorldTypes, RefreshFails, Fault
<1>2. UNCHANGED <<config, writable, seen>>
  BY DEF RefreshFails
<1>3. QED BY <1>1, <1>2 DEF ConfigOnDisk

-----------------------------------------------------------------------------
(* The watcher                                                             *)

\* The ways a step may treat the watcher: it leaves it alone, starts one under
\* setupMu, tells it to stop, is a step of its goroutine, or ends the process.
Starting == StartWatcher /\ UNCHANGED <<restarters, token>>
Stopping == CancelWatcher /\ UNCHANGED <<given, current, restarters, restartDue, token>>
Leaving  == UNCHANGED <<run, given, current>> /\ restartDue' \in BOOLEAN
Kept     == UNCHANGED <<run, given, current, restartDue, restarters, token>>

\* What a step can do to the watchers, and to the token.
LEMMA WatcherMoves ==
    ASSUME AppInv, Next
    PROVE  \/ Leaving /\ restarters' \subseteq Runs /\ (token' = token \/ current = None)
           \/ Starting /\ restartDue' \in BOOLEAN
           \/ Stopping
           \/ (\E w \in Runs : Watching(w)) /\ UNCHANGED token
           \/ Relaunch
<1> USE DEF AppInv, AppTypeOK
<1>a. restarters \subseteq Runs /\ restartDue \in BOOLEAN
  BY DEF WatcherTypes
<1>b. Kept => Leaving /\ restarters' \subseteq Runs /\ token' = token
  BY <1>a DEF Kept, Leaving
<1>1. ASSUME NEW u \in Clients, NEW op, NEW arg, Call(u, op, arg) PROVE Kept
  BY <1>1 DEF Call, watchers, Kept, Leaving
<1>2. ASSUME NEW u \in Clients, Acquire(u) PROVE Kept
  BY <1>2 DEF Acquire, watchers, Kept, Leaving
<1>3. ASSUME NEW u \in Clients, StopTimesOut(u)
      PROVE  Leaving /\ restarters' \subseteq Runs /\ token' = token
  BY <1>3, <1>a DEF StopTimesOut, RestartWhenStopped, Goes, AwaitsCurrent, Leaving
<1>4. ASSUME NEW u \in Clients, Holding(u)
      PROVE  \/ Kept
             \/ Stopping
             \/ Starting /\ restartDue' \in BOOLEAN
             \/ Leaving /\ restarters' \subseteq Runs /\ current = None
  <2>1. ASSUME StopWatcher(u) PROVE Stopping
    BY <2>1 DEF StopWatcher, Stopping
  <2>2. ASSUME WatcherStopped(u) PROVE Kept
    BY <2>2, EndedIsNotCurrent DEF WatcherStopped, Goes, AwaitsCurrent, Kept, Leaving
  <2>3. ASSUME DeleteFirst(u) PROVE Kept
    BY <2>3 DEF DeleteFirst, watchers, Kept, Leaving
  <2>4. CASE ChangeToken(u)
    BY <2>4, <1>a DEF ChangeToken, watchers, Kept, Leaving, StoppedStays, CallsFitOperations
  <2>5. ASSUME ReadConfig(u) \/ SaveConfig(u) \/ RequeueRefused(u) \/ Inspect(u)
        PROVE  Kept
    BY <2>5 DEF ReadConfig, SaveConfig, RequeueRefused, Inspect, watchers, Kept, Leaving
  <2>6. CASE Return(u)
    BY <2>6, <1>a DEF Return, Starting, Kept, Leaving
  <2>7. QED BY <1>4, <2>1, <2>2, <2>3, <2>4, <2>5, <2>6 DEF Holding
<1>5. ASSUME Initialize
      PROVE  \/ Kept
             \/ Starting /\ restartDue' \in BOOLEAN
             \/ Leaving /\ restarters' \subseteq Runs /\ current = None
  <2>1. CASE Load
    BY <2>1, <1>a DEF Load, watchers, Kept, Leaving, InitializesAlone, Initializing
  <2>2. ASSUME FirstRefresh \/ FinishInitialize PROVE Kept
    BY <2>2 DEF FirstRefresh, FinishInitialize, watchers, Kept, Leaving
  <2>3. CASE FirstStart
    BY <2>3, <1>a DEF FirstStart, Starting
  <2>4. QED BY <1>5, <2>1, <2>2, <2>3 DEF Initialize
<1>6. ASSUME MonitorTick \/ Monitoring \/ MonitorEnds PROVE Kept
  BY <1>6 DEF MonitorTick, Monitoring, MonitorActs, MonitorCannotLook, MonitorMissesAddon,
              MonitorRefreshes, MonitorEnds, watchers, Kept, Leaving
<1>7. ASSUME MonitorStarts \/ Restart PROVE Starting /\ restartDue' \in BOOLEAN
  BY <1>7, <1>a DEF MonitorStarts, Restart, Starting
<1>8. ASSUME NEW w \in Runs, Watching(w) PROVE token' = token
  BY <1>8 DEF Watching, RunReturns, ClearHandle, CloseDone
<1>9. ASSUME NEW w \in Runs, Refuse(w) PROVE Kept
  BY <1>9 DEF Refuse, watchers, Kept, Leaving
<1>10. ASSUME Quit PROVE Kept
  BY <1>10 DEF Quit, watchers, Kept, Leaving
<1>11. ASSUME QuitStops PROVE Stopping
  BY <1>11 DEF QuitStops, Stopping
<1>12. ASSUME QuitWaited PROVE Leaving /\ restarters' \subseteq Runs /\ token' = token
  BY <1>12, <1>a, EndedIsNotCurrent
     DEF QuitWaited, RestartWhenStopped, QuitHasStopped, Leaving
<1>13. ASSUME Exit \/ Crash PROVE Relaunch
  BY <1>13 DEF Exit, Crash
<1>14. ASSUME NEW what, Install(what) PROVE Kept
  BY <1>14 DEF Install, watchers, Kept, Leaving
<1>15. ASSUME NEW F, ChangeFiles(F) PROVE Kept
  BY <1>15 DEF ChangeFiles, watchers, Kept, Leaving
<1>16. QED
  BY <1>b, <1>1, <1>2, <1>3, <1>4, <1>5, <1>6, <1>7, <1>8, <1>9, <1>10, <1>11, <1>12,
     <1>13, <1>14, <1>15 DEF Next

\* The goroutine clears the handle before it lets go of whoever waits.
LEMMA WatcherStep ==
    ASSUME AppInv, Next
    PROVE  WatcherTypes' /\ HandleIsOfRunning' /\ WatcherHasToken' /\ GivenToken'
<1>a. WatcherTypes /\ SetupTypes /\ HandleIsOfRunning /\ WatcherHasToken /\ GivenToken
  BY DEF AppInv, AppTypeOK
<1>1. CASE Leaving /\ restarters' \subseteq Runs /\ (token' = token \/ current = None)
  <2>1. WatcherTypes' /\ HandleIsOfRunning'
    BY <1>1, <1>a DEF Leaving, WatcherTypes, HandleIsOfRunning
  <2>2. current = None => \A w \in Runs : run[w] # "running"
    BY <1>a, NoneAssumption DEF HandleIsOfRunning
  <2>3. QED BY <1>1, <1>a, <2>1, <2>2 DEF Leaving, WatcherHasToken, GivenToken, Active
<1>2. CASE Starting /\ restartDue' \in BOOLEAN
  BY <1>2, <1>a, StartEffect DEF Starting, WatcherTypes, WatcherHasToken
<1>3. CASE Stopping
  BY <1>3, <1>a, CancelEffect DEF Stopping, WatcherTypes, WatcherHasToken, GivenToken
<1>4. CASE (\E w \in Runs : Watching(w)) /\ UNCHANGED token
  <2>1. PICK w \in Runs : Watching(w)
    BY <1>4
  <2>2. CASE RunReturns(w)
    BY <2>2, <1>4, <1>a
       DEF RunReturns, WatcherTypes, HandleIsOfRunning, WatcherHasToken, GivenToken, Active
  <2>3. CASE ClearHandle(w)
    BY <2>3, <1>4, <1>a, NoneAssumption
       DEF ClearHandle, WatcherTypes, HandleIsOfRunning, WatcherHasToken, GivenToken, Active
  <2>4. CASE CloseDone(w)
    <3>1. [token |-> None, path |-> None]
            \in [token : Tokens \cup {None}, path : Paths \cup {None}]
      OBVIOUS
    <3>2. restartDue' \in BOOLEAN /\ restarters' \subseteq Runs
      BY <2>4, <1>a DEF CloseDone, WatcherTypes
    <3>3. HandleIsOfRunning' /\ WatcherHasToken' /\ GivenToken'
      BY <2>4, <1>4, <1>a
         DEF CloseDone, WatcherTypes, HandleIsOfRunning, WatcherHasToken, GivenToken, Active
    <3>4. QED BY <2>4, <1>a, <3>1, <3>2, <3>3 DEF CloseDone, WatcherTypes
  <2>5. QED BY <2>1, <2>2, <2>3, <2>4 DEF Watching
<1>5. CASE Relaunch
  BY <1>5, NoneAssumption
     DEF Relaunch, WatcherTypes, HandleIsOfRunning, WatcherHasToken, GivenToken, Active
<1>6. QED BY <1>1, <1>2, <1>3, <1>4, <1>5, WatcherMoves

-----------------------------------------------------------------------------
(* The threads, the settings and the world                                 *)

LEMMA WorldStep ==
    ASSUME AppInv, Next
    PROVE  WorldTypes'
<1>a. WorldTypes /\ SetupTypes /\ WatcherTypes
  BY DEF AppInv, AppTypeOK
<1>b. (\E kind : Fault(kind)) => faults' \in 0..MaxFaults
  BY <1>a, FaultTyping
<1>c. WorldTypes /\ UNCHANGED <<refused, world>> /\ faults' \in 0..MaxFaults => WorldTypes'
  BY DEF WorldTypes, world
<1>d. faults \in 0..MaxFaults
  BY <1>a DEF WorldTypes
<1> DEFINE Same == UNCHANGED <<refused, world>> /\ faults' \in 0..MaxFaults
<1>1. ASSUME NEW u \in Clients, NEW op, NEW arg, Call(u, op, arg) PROVE Same
  BY <1>1, <1>d DEF Call
<1>2. ASSUME NEW u \in Clients, Acquire(u) \/ StopTimesOut(u) PROVE Same
  BY <1>2, <1>d DEF Acquire, StopTimesOut
<1>3. ASSUME NEW u \in Clients, Holding(u) PROVE WorldTypes'
  <2>1. ASSUME StopWatcher(u) \/ WatcherStopped(u) PROVE Same
    BY <2>1, <1>d DEF StopWatcher, WatcherStopped
  <2>2. ASSUME DeleteFirst(u) \/ ChangeToken(u) PROVE Same
    BY <2>2, <1>b, <1>d DEF DeleteFirst, ChangeToken
  <2>3. ASSUME ReadConfig(u) \/ SaveConfig(u) \/ Return(u) PROVE Same
    BY <2>3, <1>a, <1>d, WriteBreaksEffect DEF ReadConfig, SaveConfig, Return
  <2>4. CASE RequeueRefused(u)
    <3>1. faults' \in 0..MaxFaults /\ refused' \subseteq Tokens /\ UNCHANGED world
      BY <2>4, <1>a, <1>b DEF RequeueRefused, WorldTypes
    <3>2. QED BY <3>1, <1>a DEF WorldTypes, world
  <2>5. ASSUME Inspect(u) PROVE Same
    BY <2>5, <1>a, <1>d, RefreshEffect, RefreshFailsEffect DEF Inspect
  <2>6. QED BY <1>3, <1>a, <1>c, <2>1, <2>2, <2>3, <2>4, <2>5 DEF Holding
<1>4. ASSUME Initialize PROVE Same
  <2>1. CASE Load
    BY <2>1, <1>b, <1>d DEF Load
  <2>2. CASE FirstRefresh
    BY <2>2, <1>a, <1>d, RefreshEffect, RefreshFailsEffect DEF FirstRefresh
  <2>3. CASE FinishInitialize \/ FirstStart
    BY <2>3, <1>d DEF FinishInitialize, FirstStart
  <2>4. QED BY <1>4, <2>1, <2>2, <2>3 DEF Initialize
<1>5. ASSUME MonitorTick \/ MonitorStarts \/ MonitorEnds \/ Restart PROVE Same
  BY <1>5, <1>d DEF MonitorTick, MonitorStarts, MonitorEnds, Restart
<1>6. ASSUME Monitoring PROVE Same
  BY <1>6, <1>a, <1>b, <1>d, RefreshEffect, RefreshFailsEffect
     DEF Monitoring, MonitorActs, MonitorCannotLook, MonitorMissesAddon, MonitorRefreshes
<1>7. ASSUME NEW w \in Runs, Watching(w) PROVE Same
  BY <1>7, <1>b, <1>d DEF Watching, RunReturns, ClearHandle, CloseDone
<1>8. ASSUME NEW w \in Runs, Refuse(w) PROVE WorldTypes'
  <2>1. given[w].token \in Tokens
    BY <1>8 DEF Refuse, AppInv, GivenToken
  <2>2. QED BY <1>8, <1>a, <1>b, <2>1 DEF Refuse, WorldTypes, world
<1>9. ASSUME Quit \/ QuitStops \/ QuitWaited PROVE Same
  BY <1>9, <1>d DEF Quit, QuitStops, QuitWaited
<1>10. ASSUME Exit \/ Crash PROVE Same
  BY <1>10, <1>b, <1>d DEF Exit, Crash, Relaunch
<1>11. ASSUME NEW what \in Installs, Install(what) PROVE WorldTypes'
  BY <1>11, <1>a DEF Install, WorldTypes
<1>12. ASSUME NEW F \in SUBSET Paths, ChangeFiles(F) PROVE WorldTypes'
  BY <1>12, <1>a, LimitsAssumption DEF ChangeFiles, WorldTypes
<1>13. QED
  BY <1>a, <1>c, <1>1, <1>2, <1>3, <1>4, <1>5, <1>6, <1>7, <1>8, <1>9, <1>10, <1>11, <1>12
     DEF Next

LEMMA SetupStep ==
    ASSUME AppInv, Next
    PROVE  SetupTypes' /\ ConfigOnDisk'
<1>a. WorldTypes /\ SetupTypes /\ ThreadTypes /\ ConfigOnDisk /\ CallsFitOperations
  BY DEF AppInv, AppTypeOK
<1> DEFINE Same == UNCHANGED <<token, setup, keyring, disk>>
           Fine == SetupTypes' /\ ConfigOnDisk'
           Keyrings == [current : Tokens \cup {None}, former : Tokens \cup {None}]
<1>b. Same => Fine
  BY <1>a DEF SetupTypes, ConfigOnDisk, setup
<1>c. /\ Fingerprint \in -1..MaxChanges
      /\ keyring \in Keyrings /\ Migrated \in Keyrings /\ Stored \in Tokens \cup {None}
  <2>1. Fingerprint \in -1..MaxChanges
    BY <1>a, LimitsAssumption DEF Fingerprint, WorldTypes
  <2>2. keyring \in Keyrings /\ Stored \in Tokens \cup {None}
    BY <1>a DEF SetupTypes, Stored
  <2>3. Migrated \in Keyrings
    BY <2>2 DEF Migrated
  <2>4. QED BY <2>1, <2>2, <2>3
<1>d. ASSUME UNCHANGED <<token, keyring>>, fingerprint' \in -1..MaxChanges,
             RefreshSucceeds \/ RefreshFails
      PROVE  Fine
  BY <1>a, <1>d, RefreshEffect, RefreshFailsEffect DEF SetupTypes
<1>1. ASSUME NEW u \in Clients, NEW op, NEW arg, Call(u, op, arg) PROVE Same
  BY <1>1 DEF Call
<1>2. ASSUME NEW u \in Clients, Acquire(u) \/ StopTimesOut(u) PROVE Same
  BY <1>2 DEF Acquire, StopTimesOut
<1>3. ASSUME NEW u \in Clients, Holding(u) PROVE Fine
  <2>a. calls[u] \in CallRecords
    BY <1>a DEF ThreadTypes
  <2>1. ASSUME \/ StopWatcher(u) \/ WatcherStopped(u) \/ ReadConfig(u)
               \/ RequeueRefused(u) \/ Return(u)
        PROVE  Same
    BY <2>1 DEF StopWatcher, WatcherStopped, ReadConfig, RequeueRefused, Return
  <2>2. CASE DeleteFirst(u)
    <3>1. keyring' \in Keyrings /\ UNCHANGED <<token, setup, disk>>
      BY <2>2, <1>c DEF DeleteFirst, DeletedFirst
    <3>2. QED BY <3>1, <1>a DEF SetupTypes, ConfigOnDisk, setup
  <2>3. CASE ChangeToken(u)
    <3>1. calls[u].arg \in Tokens \cup {None}
      BY <2>3, <1>a DEF ChangeToken, CallsFitOperations
    <3>2. keyring' \in Keyrings /\ token' \in Tokens \cup {None} /\ UNCHANGED <<setup, disk>>
      BY <2>3, <1>a, <1>c, <3>1 DEF ChangeToken, DeletedFirst, SetupTypes
    <3>3. QED BY <3>2, <1>a DEF SetupTypes, ConfigOnDisk, setup
  <2>4. CASE SaveConfig(u)
    <3>a. calls[u].draft \in Settings
      BY <2>a DEF CallRecords
    <3>b. UNCHANGED <<token, writable, seen, fingerprint, keyring>>
      BY <2>4 DEF SaveConfig
    <3>1. CASE WriteBreaks /\ UNCHANGED config
      BY <3>1, <3>b, <1>a, WriteBreaksEffect DEF SetupTypes, ConfigOnDisk
    <3>2. CASE Write(calls[u].draft) /\ config' = calls[u].draft
      BY <3>2, <3>a, <3>b, <1>a DEF Write, SetupTypes, ConfigOnDisk
    <3>3. QED BY <2>4, <3>1, <3>2 DEF SaveConfig
  <2>5. CASE Inspect(u)
    BY <2>5, <1>a, <1>d DEF Inspect, SetupTypes
  <2>6. QED BY <1>3, <1>b, <2>1, <2>2, <2>3, <2>4, <2>5 DEF Holding
<1>4. CASE Initialize
  <2>1. CASE Load
    <3>1. token' \in Tokens \cup {None} /\ keyring' \in Keyrings
      BY <2>1, <1>a, <1>c DEF Load, SetupTypes
    <3>2. Defaults \in Settings
      BY DEF Defaults, Settings
    <3>3. config' \in Settings /\ writable' \in BOOLEAN /\ UNCHANGED <<disk, seen, fingerprint>>
      BY <2>1, <3>2, <1>a DEF Load, SetupTypes
    <3>4. ConfigOnDisk'
      BY <2>1 DEF Load, ConfigOnDisk
    <3>5. QED BY <3>1, <3>3, <3>4, <1>a DEF SetupTypes
  <2>2. CASE FirstRefresh
    BY <2>2, <1>a, <1>d DEF FirstRefresh, SetupTypes
  <2>3. CASE FinishInitialize \/ FirstStart
    <3>1. Same
      BY <2>3 DEF FinishInitialize, FirstStart
    <3>2. QED BY <3>1, <1>b
  <2>4. QED BY <1>4, <2>1, <2>2, <2>3 DEF Initialize
<1>5. ASSUME MonitorTick \/ MonitorStarts \/ MonitorEnds \/ Restart PROVE Same
  BY <1>5 DEF MonitorTick, MonitorStarts, MonitorEnds, Restart
<1>6. CASE Monitoring
  <2>1. ASSUME MonitorActs \/ MonitorCannotLook PROVE Same
    BY <2>1 DEF MonitorActs, MonitorCannotLook
  <2>2. CASE MonitorMissesAddon
    BY <2>2, <1>a DEF MonitorMissesAddon, SetupTypes, ConfigOnDisk
  <2>3. CASE MonitorRefreshes
    <3>1. fingerprint' \in -1..MaxChanges /\ UNCHANGED <<token, keyring>>
      BY <2>3, <1>a, <1>c DEF MonitorRefreshes, SetupTypes
    <3>2. RefreshSucceeds \/ RefreshFails
      BY <2>3 DEF MonitorRefreshes
    <3>3. QED BY <3>1, <3>2, <1>d
  <2>4. QED BY <1>6, <1>b, <2>1, <2>2, <2>3 DEF Monitoring
<1>7. ASSUME NEW w \in Runs, Watching(w) \/ Refuse(w) PROVE Same
  BY <1>7 DEF Watching, RunReturns, ClearHandle, CloseDone, Refuse
<1>8. ASSUME Quit \/ QuitStops \/ QuitWaited PROVE Same
  BY <1>8 DEF Quit, QuitStops, QuitWaited
<1>9. CASE Exit \/ Crash
  <2>1. Relaunch /\ disk' \in [settings : Settings, torn : BOOLEAN]
    <3>1. disk' \in {disk, [disk EXCEPT !.torn = TRUE]}
      BY <1>9 DEF Exit, Crash
    <3>2. disk \in [settings : Settings, torn : BOOLEAN]
      BY <1>a DEF SetupTypes
    <3>3. [disk EXCEPT !.torn = TRUE] \in [settings : Settings, torn : BOOLEAN]
      BY <3>2
    <3>4. QED BY <1>9, <3>1, <3>2, <3>3 DEF Exit, Crash
  <2>2. -1 \in -1..MaxChanges
    BY LimitsAssumption
  <2>3. Defaults \in Settings
    BY DEF Defaults, Settings
  <2>4. QED BY <2>1, <2>2, <2>3, <1>a DEF Relaunch, SetupTypes, ConfigOnDisk
<1>10. ASSUME NEW what, Install(what) PROVE Same
  BY <1>10 DEF Install
<1>11. ASSUME NEW F, ChangeFiles(F) PROVE Same
  BY <1>11 DEF ChangeFiles
<1>12. QED
  BY <1>b, <1>1, <1>2, <1>3, <1>4, <1>5, <1>6, <1>7, <1>8, <1>9, <1>10, <1>11 DEF Next

\* A call takes setupMu when nobody has it, and gives it back as it returns.
LEMMA ThreadStep ==
    ASSUME AppInv, Next
    PROVE  ThreadTypes' /\ OneInside' /\ MonitorHolds'
<1>a. /\ ThreadTypes /\ WatcherTypes /\ SetupTypes /\ OneInside /\ MonitorHolds
      /\ CallsFitOperations /\ AppTypeOK
  BY DEF AppInv, AppTypeOK
<1>b. NoCall \in CallRecords /\ NoCall.pc = "idle"
  BY NoCallTyping
<1> DEFINE Fine == ThreadTypes' /\ OneInside' /\ MonitorHolds'
           Same == UNCHANGED <<lock, calls, initializer, monitor, quit, quitAwaits>>
<1>c. Same => Fine
  BY <1>a DEF ThreadTypes, OneInside, MonitorHolds
<1>1. ASSUME NEW u \in Clients, NEW op \in Operations, NEW arg \in Tokens \cup Paths \cup {None},
             Call(u, op, arg)
      PROVE  Fine
  <2> DEFINE c == [NoCall EXCEPT !.pc = "lock", !.op = op, !.arg = arg]
  <2>1. c \in CallRecords /\ c.pc = "lock"
    BY <1>b DEF CallRecords
  <2>2. /\ calls[u].pc = "idle" /\ calls' = [calls EXCEPT ![u] = c]
        /\ UNCHANGED <<lock, initializer, monitor, quit, quitAwaits>>
    BY <1>1 DEF Call
  <2> HIDE DEF c
  <2>3. QED BY <2>1, <2>2, <1>a DEF ThreadTypes, OneInside, MonitorHolds, Inside
<1>2. ASSUME NEW u \in Clients, Acquire(u) PROVE Fine
  <2>1. /\ lock = None /\ lock' = u /\ UNCHANGED <<initializer, monitor, quit, quitAwaits>>
        /\ \E to \in Inside : Goes(u, "lock", to)
    BY <1>2 DEF Acquire, First, Inside
  <2>2. ThreadTypes'
    BY <2>1, <1>a, GoesTyping DEF ThreadTypes
  <2>3. OneInside'
    <3>1. /\ calls'[u].pc \in Inside /\ \A v \in Clients \ {u} : calls'[v] = calls[v]
      BY <2>1, <1>a, GoesTyping DEF ThreadTypes
    <3>2. \A v \in Clients : calls[v].pc \notin Inside
      BY <2>1, <1>a, NoneAssumption DEF OneInside
    <3>3. QED BY <2>1, <3>1, <3>2 DEF OneInside
  <2>4. MonitorHolds'
    BY <2>1, <1>a, NoneAssumption, ClientsAssumption DEF MonitorHolds
  <2>5. QED BY <2>2, <2>3, <2>4
<1>3. ASSUME NEW u \in Clients, StopTimesOut(u) PROVE Fine
  <2>1. Goes(u, "waiting", "unlock") /\ UNCHANGED <<lock, initializer, monitor, quit, quitAwaits>>
    BY <1>3 DEF StopTimesOut
  <2>2. /\ calls' \in [Clients -> CallRecords]
        /\ calls[u].pc = "waiting" /\ calls'[u].pc = "unlock"
        /\ \A v \in Clients \ {u} : calls'[v] = calls[v]
    BY <2>1, <1>a, GoesTyping DEF ThreadTypes, Inside
  <2>3. QED BY <2>1, <2>2, <1>a DEF ThreadTypes, OneInside, MonitorHolds, Inside
<1>4. ASSUME NEW u \in Clients, Holding(u) PROVE Fine
  <2>1. /\ calls' \in [Clients -> CallRecords] /\ lock = u
        /\ \A v \in Clients \ {u} : calls'[v] = calls[v]
    BY <1>4, <1>a, HoldingCalls DEF OneInside
  <2>2. UNCHANGED <<initializer, monitor, quit, quitAwaits>>
    BY <1>4 DEF Holding, StopWatcher, WatcherStopped, DeleteFirst, ChangeToken, ReadConfig,
                SaveConfig, RequeueRefused, Inspect, Return
  <2>3. \/ lock' = lock /\ calls'[u].pc \in Inside
        \/ lock' = None /\ calls'[u].pc = "idle"
    BY <1>4, <1>a, <1>b, HoldingCalls, PathInside DEF Return
  <2>4. QED BY <2>1, <2>2, <2>3, <1>a, NoneAssumption, ClientsAssumption
            DEF ThreadTypes, OneInside, MonitorHolds, Inside
<1>5. CASE Initialize
  <2>1. /\ UNCHANGED <<lock, calls, quit, quitAwaits>>
        /\ initializer' \in {"refresh", "finish", "start", "done"}
    BY <1>5 DEF Initialize, Load, FirstRefresh, FinishInitialize, FirstStart
  <2>2. monitor' = monitor \/ (monitor # "start" /\ monitor' = "sleep")
    BY <1>5 DEF AppInv, InitializesAlone, Initializing,
                Initialize, Load, FirstRefresh, FinishInitialize, FirstStart
  <2>3. QED BY <2>1, <2>2, <1>a DEF ThreadTypes, OneInside, MonitorHolds
<1>6. CASE MonitorTick \/ MonitorEnds
  BY <1>6, <1>a DEF MonitorTick, CurrentStep, MonitorEnds, ThreadTypes, OneInside, MonitorHolds
<1>7. CASE Monitoring
  BY <1>7, <1>a, NoneAssumption, ClientsAssumption
     DEF Monitoring, MonitorActs, MonitorCannotLook, MonitorMissesAddon, MonitorRefreshes,
         ThreadTypes, OneInside, MonitorHolds
<1>8. CASE MonitorStarts
  BY <1>8, <1>a, NoneAssumption, ClientsAssumption
     DEF MonitorStarts, ThreadTypes, OneInside, MonitorHolds
<1>9. ASSUME NEW w \in Runs, Watching(w) \/ Refuse(w) PROVE Same
  BY <1>9 DEF Watching, RunReturns, ClearHandle, CloseDone, Refuse, threads
<1>10. ASSUME Restart PROVE Same
  BY <1>10 DEF Restart, threads
<1>11. CASE Quit \/ QuitStops \/ QuitWaited
  BY <1>11, <1>a DEF Quit, QuitStops, QuitWaited, ThreadTypes, WatcherTypes, OneInside, MonitorHolds
<1>12. CASE Exit \/ Crash
  <2>1. Relaunch
    BY <1>12 DEF Exit, Crash
  <2>2. QED BY <2>1, <1>b, NoneAssumption
            DEF Relaunch, ThreadTypes, OneInside, MonitorHolds, Inside
<1>13. ASSUME NEW what, Install(what) PROVE Same
  BY <1>13 DEF Install, threads
<1>14. ASSUME NEW F, ChangeFiles(F) PROVE Same
  BY <1>14 DEF ChangeFiles, threads
<1>15. QED
  BY <1>c, <1>1, <1>2, <1>3, <1>4, <1>5, <1>6, <1>7, <1>8, <1>9, <1>10, <1>11, <1>12,
     <1>13, <1>14 DEF Next

-----------------------------------------------------------------------------
(* The calls                                                               *)

\* While somebody else has setupMu no call is inside.
LEMMA NobodyInside ==
    ASSUME OneInside, lock \notin Clients
    PROVE  \A u \in Clients : calls[u].pc \notin Inside
BY DEF OneInside

\* When no call is inside after a step, there is nothing to say of the calls but
\* that those that wait for setupMu have their arguments.
LEMMA NobodyInsideStep ==
    ASSUME CallsFitOperations, calls' = calls, \A u \in Clients : calls[u].pc \notin Inside
    PROVE  CallsFitOperations' /\ StoppedStays' /\ AwaitsCurrent' /\ CopyIsCurrent'
<1>1. CallsFitOperations'
  BY DEF CallsFitOperations, Inside
<1>2. StoppedStays' /\ AwaitsCurrent'
  BY DEF StoppedStays, AwaitsCurrent, Inside
<1>3. CopyIsCurrent'
  BY DEF CopyIsCurrent, Inside
<1>4. QED BY <1>1, <1>2, <1>3

\* Nor when the calls stay where they are, and so does what they rely on.
LEMMA CallsStayStep ==
    ASSUME CallsFitOperations, StoppedStays, AwaitsCurrent, CopyIsCurrent, calls' = calls,
           UNCHANGED <<config, writable, keyring>>, current' \in {current, None}
    PROVE  CallsFitOperations' /\ StoppedStays' /\ AwaitsCurrent' /\ CopyIsCurrent'
<1>1. CallsFitOperations'
  BY DEF CallsFitOperations
<1>2. StoppedStays' /\ AwaitsCurrent'
  BY DEF StoppedStays, AwaitsCurrent
<1>3. \A op, arg : Draft(op, arg)' = Draft(op, arg)
  BY DEF Draft
<1>4. CopyIsCurrent'
  BY <1>3 DEF CopyIsCurrent
<1>5. QED BY <1>1, <1>2, <1>4

\* Along its path a call finds what it needs at its next place.
LEMMA HoldingStep ==
    ASSUME AppInv, NEW u \in Clients, Holding(u)
    PROVE  CallsFitOperations' /\ StoppedStays' /\ AwaitsCurrent' /\ CopyIsCurrent'
<1>a. /\ AppTypeOK /\ OneInside /\ CallsFitOperations /\ StoppedStays /\ AwaitsCurrent
      /\ HandleIsOfRunning /\ current \in Runs \cup {None} /\ calls \in [Clients -> CallRecords]
  BY DEF AppInv, AppTypeOK, WatcherTypes, ThreadTypes
<1>b. \A v \in Clients \ {u} : calls'[v] = calls[v] /\ calls[v].pc \notin Inside
  BY <1>a, HoldingCalls DEF OneInside
<1>1. CASE Return(u)
  <2>a. calls'[u] = NoCall
    BY <1>1, <1>a DEF Return
  <2>1. \A v \in Clients : calls'[v].pc \notin Inside
    BY <2>a, <1>b, NoCallTyping DEF Inside
  <2>2. CallsFitOperations'
    <3>1. \A v \in Clients \ {u} : calls'[v] = calls[v]
      BY <1>b
    <3>2. calls'[u].pc = "idle"
      BY <2>a, NoCallTyping
    <3>3. QED BY <2>1, <3>1, <3>2, <1>a DEF CallsFitOperations, Inside
  <2>3. QED BY <2>1, <2>2 DEF StoppedStays, AwaitsCurrent, CopyIsCurrent, Inside
<1>2. CASE Path(calls[u], calls'[u]) /\ ~Return(u)
  <2> DEFINE c == calls[u]
             d == calls'[u]
  <2>a. d.op = c.op /\ d.arg = c.arg /\ c.op \in Operations /\ c.pc \in Inside
    <3>1. d.op = c.op /\ d.arg = c.arg /\ c.pc \in Inside
      BY <1>2, <1>a, HoldingCalls
    <3>2. QED BY <3>1, <1>a DEF CallsFitOperations, Inside
  <2>b. writable' = writable /\ current' = current /\ (c.pc = "waiting" => current = None)
    <3>1. ASSUME StopWatcher(u) \/ DeleteFirst(u) \/ ChangeToken(u) \/ ReadConfig(u)
                 \/ SaveConfig(u) \/ RequeueRefused(u)
          PROVE  writable' = writable /\ current' = current /\ c.pc # "waiting"
      BY <3>1 DEF StopWatcher, DeleteFirst, ChangeToken, ReadConfig, SaveConfig,
                  RequeueRefused, Goes, setup, watchers
    <3>2. ASSUME Inspect(u)
          PROVE  writable' = writable /\ current' = current /\ c.pc # "waiting"
      BY <3>2 DEF Inspect, RefreshSucceeds, RefreshFails, watchers
    <3>3. ASSUME WatcherStopped(u)
          PROVE  writable' = writable /\ current' = current /\ current = None
      <4>1. current \in {None, c.awaited} /\ c.awaited \in Runs /\ run[c.awaited] = "ended"
        BY <3>3, <1>a DEF WatcherStopped, Goes, AwaitsCurrent
      <4>2. QED BY <3>3, <4>1, <1>a, NoneAssumption DEF WatcherStopped, HandleIsOfRunning, setup
    <3>4. QED BY <1>2, <3>1, <3>2, <3>3 DEF Holding
  <2>c. c.pc \in {"token", "delete", "read"} => config' = config
    BY <1>2 DEF Holding, StopWatcher, WatcherStopped, DeleteFirst, ChangeToken, ReadConfig,
                SaveConfig, RequeueRefused, Inspect, Goes, setup
  <2>d. d.pc = "delete" => c.op = "forget" /\ keyring'.former = None
    BY <1>2, NextPlaces DEF Path
  <2> HIDE DEF c, d
  <2>e. /\ c = calls[u] /\ d = calls'[u] /\ Path(c, d)
        /\ c.op \in {"token", "forget", "folder", "file", "refresh", "channel"}
    BY <1>2, <2>a, OperationsAssumption DEF c, d
  <2>f. /\ c.op = "token" => c.arg \in Tokens
        /\ c.op = "file" => c.arg \in Paths
        /\ c.op \notin {"token", "file"} => c.arg = None
        /\ c.pc \in {"token", "delete"} => c.op \in {"token", "forget"}
        /\ c.pc \in {"stop", "waiting"} => c.op \notin {"refresh", "channel"}
        /\ c.pc = "read" => c.op \in {"folder", "file", "channel"}
        /\ c.pc = "save" => c.op # "refresh"
        /\ c.pc = "inspect" => c.op \in {"folder", "file", "refresh"}
    BY <2>a, <2>e, <1>a DEF CallsFitOperations, Inside
  <2>1. CallsFitOperations'
    <3>1. /\ d.pc \in {"token", "delete"} => c.op \in {"token", "forget"}
          /\ d.pc \in {"stop", "waiting"} => c.op \notin {"refresh", "channel"}
          /\ d.pc = "read" => c.op \in {"folder", "file", "channel"}
          /\ d.pc = "save" => c.op # "refresh" /\ writable
          /\ d.pc = "reset" => c.op = "token"
          /\ d.pc = "inspect" => c.op \in {"folder", "file", "refresh"}
      BY <2>e, <2>f DEF Path, AfterStop, AfterSave, Rest
    <3>2. \A v \in Clients \ {u} : calls'[v] = calls[v] /\ calls[v].pc \in {"idle", "lock"}
      BY <1>a, <1>b DEF CallRecords
    <3>3. QED BY <3>1, <3>2, <2>a, <2>b, <2>d, <2>e, <2>f, <1>a DEF CallsFitOperations
  <2>2. StoppedStays'
    <3>1. /\ c.op \notin {"refresh", "channel"}
          /\ d.pc \in {"token", "delete", "read", "save", "reset", "inspect", "start"}
          => current = None
      <4>1. /\ c.op \notin {"refresh", "channel"}
            /\ c.pc \in {"token", "delete", "read", "save", "reset", "inspect", "start"}
            => current = None
        BY <2>e, <1>a DEF StoppedStays
      <4>2. QED BY <2>b, <2>e, <4>1 DEF Path
    <3>2. QED BY <3>1, <2>a, <2>b, <2>e, <1>b DEF StoppedStays, Inside
  <2>3. AwaitsCurrent'
    <3>1. d.pc = "waiting" => d.awaited = current /\ current # None
      BY <2>e, NextPlaces DEF Path
    <3>2. QED BY <3>1, <2>b, <2>e, <1>a, <1>b DEF AwaitsCurrent, Inside
  <2>4. CopyIsCurrent'
    <3>1. \/ d.pc # "save"
          \/ config' = config /\ c.op \in {"token", "forget"} /\ d.draft = config
          \/ config' = config /\ c.op \notin {"token", "forget"} /\ d.draft \in Draft(c.op, c.arg)
      BY <2>c, <2>e, <2>f, NextPlaces DEF Path
    <3>2. \A v \in Clients \ {u} : calls'[v].pc # "save"
      BY <1>b DEF Inside
    <3>3. CASE d.pc = "save" /\ c.op \notin {"token", "forget"}
      <4>1. d.draft \in Draft(calls[u].op, calls[u].arg)'
        BY <3>1, <3>3, <2>a, <2>e DEF Draft
      <4>2. QED BY <4>1, <3>2, <3>3, <2>a, <2>e DEF CopyIsCurrent
    <3>4. CASE d.pc = "save" /\ c.op \in {"token", "forget"}
      BY <3>1, <3>2, <3>4, <2>a, <2>e DEF CopyIsCurrent
    <3>5. CASE d.pc # "save"
      BY <3>2, <3>5, <2>e DEF CopyIsCurrent
    <3>6. QED BY <3>3, <3>4, <3>5
  <2>5. QED BY <2>1, <2>2, <2>3, <2>4
<1>3. QED BY <1>1, <1>2, <1>a, HoldingCalls

\* Who does not hold setupMu finds the calls as they were, and does not disturb
\* them.
LEMMA CallsStep ==
    ASSUME AppInv, Next
    PROVE  CallsFitOperations' /\ StoppedStays' /\ AwaitsCurrent' /\ CopyIsCurrent'
<1>a. /\ AppTypeOK /\ OneInside /\ CallsFitOperations /\ StoppedStays /\ AwaitsCurrent
      /\ CopyIsCurrent /\ MonitorHolds /\ InitializesAlone /\ HandleIsOfRunning
      /\ calls \in [Clients -> CallRecords]
  BY DEF AppInv, AppTypeOK, ThreadTypes
<1> DEFINE Fine == CallsFitOperations' /\ StoppedStays' /\ AwaitsCurrent' /\ CopyIsCurrent'
           Stays == calls' = calls /\ UNCHANGED <<config, writable, keyring>>
                        /\ current' \in {current, None}
           Nobody == calls' = calls /\ \A u \in Clients : calls[u].pc \notin Inside
<1>b. Stays => Fine
  BY <1>a, CallsStayStep
<1>c. Nobody => Fine
  BY <1>a, NobodyInsideStep
<1>d. lock = None \/ lock = "monitor" => \A u \in Clients : calls[u].pc \notin Inside
  BY <1>a, NobodyInside, NoneAssumption, ClientsAssumption
<1> HIDE DEF Fine
<1>1. ASSUME NEW u \in Clients, NEW op \in Operations, NEW arg, Call(u, op, arg) PROVE Fine
  <2> DEFINE c == [NoCall EXCEPT !.pc = "lock", !.op = op, !.arg = arg]
  <2>1. c.pc = "lock" /\ c.op = op /\ c.arg = arg
    BY DEF NoCall
  <2>2. calls' = [calls EXCEPT ![u] = c] /\ UNCHANGED <<current, config, writable, keyring>>
    BY <1>1 DEF Call, setup, watchers
  <2>3. /\ op = "token" => arg \in Tokens
        /\ op = "file" => arg \in Paths
        /\ op \notin {"token", "file"} => arg = None
    BY <1>1, <1>a DEF Call, Candidates, AppTypeOK, WorldTypes
  <2> HIDE DEF c
  <2>4. calls'[u] = c /\ \A v \in Clients \ {u} : calls'[v] = calls[v]
    BY <2>2, <1>a
  <2>5. CallsFitOperations'
    BY <2>1, <2>2, <2>3, <2>4, <1>a DEF CallsFitOperations
  <2>6. StoppedStays' /\ AwaitsCurrent'
    BY <2>1, <2>2, <2>4, <1>a DEF StoppedStays, AwaitsCurrent
  <2>7. CopyIsCurrent'
    BY <2>1, <2>2, <2>4, <1>a, ZenonT(30) DEF CopyIsCurrent, Draft
  <2>8. QED BY <2>5, <2>6, <2>7 DEF Fine
<1>2. ASSUME NEW u \in Clients, Acquire(u) PROVE Fine
  <2>1. /\ calls[u].pc = "lock" /\ calls'[u].pc = First(calls[u].op)
        /\ calls'[u].op = calls[u].op /\ calls'[u].arg = calls[u].arg
        /\ \A v \in Clients \ {u} : calls'[v] = calls[v]
    BY <1>2, <1>a, GoesTyping DEF Acquire, First, Inside
  <2>2. lock = None
    BY <1>2 DEF Acquire
  <2>3. \A v \in Clients \ {u} : calls'[v].pc \in {"idle", "lock"}
    BY <2>1, <2>2, <1>a, <1>d DEF CallRecords
  <2>4. calls[u].op \in {"token", "forget", "folder", "file", "refresh", "channel"}
    BY <2>1, <1>a, OperationsAssumption DEF CallsFitOperations
  <2>5. calls'[u].pc \in {"inspect", "read", "stop"}
    BY <2>1 DEF First
  <2>6. CallsFitOperations'
    BY <2>1, <2>3, <2>4, <1>a DEF CallsFitOperations, First
  <2>7. StoppedStays'
    BY <2>1, <2>3, <2>4 DEF StoppedStays, First
  <2>8. AwaitsCurrent' /\ CopyIsCurrent'
    BY <2>3, <2>5 DEF AwaitsCurrent, CopyIsCurrent
  <2>9. QED BY <2>6, <2>7, <2>8 DEF Fine
<1>3. ASSUME NEW u \in Clients, StopTimesOut(u) PROVE Fine
  <2>1. /\ calls[u].pc = "waiting" /\ calls'[u].pc = "unlock"
        /\ calls'[u].op = calls[u].op /\ calls'[u].arg = calls[u].arg
        /\ \A v \in Clients \ {u} : calls'[v] = calls[v]
    BY <1>3, <1>a, GoesTyping DEF StopTimesOut, Inside
  <2>2. \A v \in Clients \ {u} : calls'[v].pc \notin Inside
    BY <2>1, <1>a DEF OneInside, Inside
  <2>3. CallsFitOperations'
    BY <2>1, <2>2, <1>a DEF CallsFitOperations, Inside
  <2>4. StoppedStays' /\ AwaitsCurrent' /\ CopyIsCurrent'
    BY <2>1, <2>2 DEF StoppedStays, AwaitsCurrent, CopyIsCurrent, Inside
  <2>5. QED BY <2>3, <2>4 DEF Fine
<1>4. ASSUME NEW u \in Clients, Holding(u) PROVE Fine
  BY <1>4, HoldingStep DEF Fine
<1>5. ASSUME Initialize PROVE Fine
  <2>1. ASSUME Load PROVE Nobody
    BY <2>1, <1>a DEF Load, InitializesAlone, Initializing, Inside
  <2>2. ASSUME FirstRefresh \/ FirstStart PROVE Nobody
    BY <2>2, <1>d DEF FirstRefresh, FirstStart
  <2>3. ASSUME FinishInitialize PROVE Stays
    BY <2>3 DEF FinishInitialize, setup, watchers
  <2>4. QED BY <1>5, <1>b, <1>c, <2>1, <2>2, <2>3 DEF Initialize
<1>6. ASSUME MonitorTick \/ MonitorEnds PROVE Stays
  BY <1>6 DEF MonitorTick, MonitorEnds, setup, watchers
<1>7. ASSUME Monitoring \/ MonitorStarts \/ Restart PROVE Nobody
  BY <1>7, <1>a, <1>d DEF Monitoring, MonitorActs, MonitorCannotLook, MonitorMissesAddon,
                    MonitorRefreshes, MonitorStarts, Restart, MonitorHolds, threads
<1>8. ASSUME NEW w \in Runs, Watching(w) \/ Refuse(w) PROVE Stays
  BY <1>8 DEF Watching, RunReturns, ClearHandle, CloseDone, Refuse, threads, setup, watchers
<1>9. ASSUME Quit \/ QuitStops \/ QuitWaited PROVE Stays
  BY <1>9 DEF Quit, QuitStops, QuitWaited, setup, watchers
<1>10. ASSUME Exit \/ Crash PROVE Fine
  <2>1. \A u \in Clients : calls'[u].pc = "idle"
    BY <1>10, NoCallTyping DEF Exit, Crash, Relaunch
  <2>2. QED BY <2>1 DEF Fine, CallsFitOperations, StoppedStays, AwaitsCurrent, CopyIsCurrent
<1>11. ASSUME NEW what, Install(what) PROVE Stays
  BY <1>11 DEF Install, threads, setup, watchers
<1>12. ASSUME NEW F, ChangeFiles(F) PROVE Stays
  BY <1>12 DEF ChangeFiles, threads, setup, watchers
<1>13. Fine
  BY <1>b, <1>c, <1>1, <1>2, <1>3, <1>4, <1>5, <1>6, <1>7, <1>8, <1>9, <1>10, <1>11, <1>12
     DEF Next
<1>14. QED BY <1>13 DEF Fine

-----------------------------------------------------------------------------
(* initialize and Quit                                                     *)

\* initialize and Quit move on by their own steps only, and the credential store
\* changes when the token is set, forgotten or first loaded.
LEMMA OwnSteps ==
    ASSUME Next
    PROVE  /\ UNCHANGED initializer \/ Initialize \/ Exit \/ Crash
           /\ UNCHANGED <<quit, quitAwaits>> \/ Quit \/ QuitStops \/ QuitWaited \/ Exit \/ Crash
           /\ \/ UNCHANGED keyring \/ Load
              \/ \E u \in Clients : DeleteFirst(u) \/ ChangeToken(u)
<1> DEFINE Same == UNCHANGED <<initializer, quit, quitAwaits, keyring>>
<1>1. ASSUME NEW u \in Clients, NEW op, NEW arg, Call(u, op, arg) PROVE Same
  BY <1>1 DEF Call
<1>2. ASSUME NEW u \in Clients, Acquire(u) \/ StopTimesOut(u) PROVE Same
  BY <1>2 DEF Acquire, StopTimesOut
<1>3. ASSUME NEW u \in Clients, Holding(u)
      PROVE  /\ UNCHANGED <<initializer, quit, quitAwaits>>
             /\ UNCHANGED keyring \/ DeleteFirst(u) \/ ChangeToken(u)
  BY <1>3 DEF Holding, StopWatcher, WatcherStopped, DeleteFirst,
              ChangeToken, ReadConfig, SaveConfig, RequeueRefused, Inspect, Return
<1>4. ASSUME Initialize PROVE UNCHANGED <<quit, quitAwaits>> /\ (UNCHANGED keyring \/ Load)
  BY <1>4 DEF Initialize, Load, FirstRefresh, FinishInitialize, FirstStart
<1>5. ASSUME MonitorTick \/ Monitoring \/ MonitorStarts \/ MonitorEnds \/ Restart PROVE Same
  BY <1>5 DEF MonitorTick, Monitoring, MonitorActs, MonitorCannotLook, MonitorMissesAddon,
              MonitorRefreshes, MonitorStarts, MonitorEnds, Restart, threads
<1>6. ASSUME NEW w \in Runs, Watching(w) \/ Refuse(w) PROVE Same
  BY <1>6 DEF Watching, RunReturns, ClearHandle, CloseDone, Refuse, threads
<1>7. ASSUME Quit \/ QuitStops \/ QuitWaited PROVE UNCHANGED <<initializer, keyring>>
  BY <1>7 DEF Quit, QuitStops, QuitWaited
<1>8. ASSUME Exit \/ Crash PROVE UNCHANGED keyring
  BY <1>8 DEF Exit, Crash, Relaunch
<1>9. ASSUME NEW what, Install(what) PROVE Same
  BY <1>9 DEF Install, threads
<1>10. ASSUME NEW F, ChangeFiles(F) PROVE Same
  BY <1>10 DEF ChangeFiles, threads
<1>11. QED BY <1>1, <1>2, <1>3, <1>4, <1>5, <1>6, <1>7, <1>8, <1>9, <1>10 DEF Next

\* The window makes no call before initialize is through with the refresh, and
\* nobody else starts the watcher.
LEMMA InitializesStep ==
    ASSUME AppInv, Next
    PROVE  InitializesAlone'
<1>a. InitializesAlone /\ HandleIsOfRunning /\ WatcherTypes /\ AppTypeOK /\ CallsFitOperations
  BY DEF AppInv, AppTypeOK
<1>1. CASE Exit \/ Crash
  BY <1>1, NoCallTyping DEF Exit, Crash, Relaunch, InitializesAlone
<1>2. CASE ~Initializing'
  BY <1>2 DEF InitializesAlone
<1>3. CASE Initializing /\ ~(Exit \/ Crash)
  <2>a. /\ current = None /\ monitor = "off" /\ ~CanStart
        /\ \A u \in Clients : calls[u].pc = "idle"
    BY <1>3, <1>a DEF InitializesAlone, CanStart
  <2>1. \A u \in Clients : ~Acquire(u) /\ ~StopTimesOut(u) /\ ~Holding(u)
    BY <2>a, <1>a, HoldingCalls DEF Acquire, StopTimesOut, Goes, Inside
  <2>2. \A u \in Clients : \A op, arg : ~Call(u, op, arg)
    BY <1>3 DEF Call
  <2>3. ~MonitorTick /\ ~Monitoring /\ ~MonitorStarts /\ ~MonitorEnds
    BY <2>a DEF MonitorTick, Monitoring, MonitorActs, MonitorCannotLook, MonitorMissesAddon,
                MonitorRefreshes, MonitorStarts, MonitorEnds
  <2> DEFINE Same == current' = current /\ UNCHANGED <<monitor, calls>>
  <2>4. ASSUME Load \/ FirstRefresh \/ FirstStart PROVE Same
    BY <2>4, <2>a, <1>3 DEF Load, FirstRefresh, FirstStart, StartWatcher, Initializing, watchers
  <2>5. ASSUME FinishInitialize PROVE ~Initializing'
    BY <2>5 DEF FinishInitialize, Initializing
  <2>6. ASSUME NEW w \in Runs, Watching(w) \/ Refuse(w) PROVE Same
    BY <2>6, <2>a DEF Watching, RunReturns, ClearHandle, CloseDone, Refuse, threads, watchers
  <2>7. ASSUME Restart PROVE Same
    BY <2>7, <2>a DEF Restart, StartWatcher, threads
  <2>8. ASSUME Quit \/ QuitStops \/ QuitWaited PROVE Same
    BY <2>8, <2>a DEF Quit, QuitStops, QuitWaited, watchers
  <2>9. ASSUME NEW what, Install(what) PROVE Same
    BY <2>9 DEF Install, threads, watchers
  <2>10. ASSUME NEW F, ChangeFiles(F) PROVE Same
    BY <2>10 DEF ChangeFiles, threads, watchers
  <2>11. Same => InitializesAlone'
    BY <2>a DEF InitializesAlone
  <2>12. ~Initializing' => InitializesAlone'
    BY DEF InitializesAlone
  <2>13. QED
    BY <1>3, <2>1, <2>2, <2>3, <2>4, <2>5, <2>6, <2>7, <2>8, <2>9, <2>10, <2>11, <2>12
       DEF Next, Initialize
<1>4. CASE ~Initializing /\ ~(Exit \/ Crash)
  <2>1. initializer' \in {initializer, "done"}
    BY <1>4, OwnSteps
       DEF Initialize, Load, FirstRefresh, FinishInitialize, FirstStart, Initializing
  <2>2. QED BY <1>2, <1>4, <2>1 DEF Initializing
<1>5. QED BY <1>1, <1>3, <1>4

\* Nobody starts a watcher once Quit has told the last one to stop.
LEMMA QuitStep ==
    ASSUME AppInv, Next
    PROVE  QuitHasStopped'
<1>a. /\ QuitHasStopped /\ WatcherTypes /\ SetupTypes /\ HandleIsOfRunning /\ WatcherHasToken
      /\ ThreadTypes
  BY DEF AppInv, AppTypeOK
<1>1. CASE QuitStops
  BY <1>1, <1>a, CancelEffect DEF QuitStops, QuitHasStopped, WatcherTypes
<1>2. CASE Exit \/ Crash
  BY <1>2 DEF Exit, Crash, Relaunch, QuitHasStopped
<1>3. CASE Next /\ ~QuitStops /\ ~(Exit \/ Crash)
  <2>1. \/ UNCHANGED <<quit, quitAwaits>>
        \/ quit = "no" /\ quit' = "stop"
        \/ quit = "waiting" /\ quit' = "exit"
    BY <1>3, OwnSteps DEF Quit, QuitWaited
  <2>2. quit \in {"waiting", "exit"} =>
            \A w \in Runs : run'[w] = "running" => run[w] = "running"
    <3>1. Starting => quit \notin {"waiting", "exit"} \/ run' = run
      BY DEF Starting, StartWatcher, CanStart, Quitting
    <3>2. Leaving => run' = run
      BY DEF Leaving
    <3>3. Stopping => \A w \in Runs : run'[w] # "running"
      BY <1>a, CancelEffect DEF Stopping
    <3>4. ASSUME NEW v \in Runs, Watching(v)
          PROVE  \A w \in Runs : run'[w] = "running" => run[w] = "running"
      BY <3>4, <1>a DEF Watching, RunReturns, ClearHandle, CloseDone, WatcherTypes
    <3>5. Relaunch => \A w \in Runs : run'[w] # "running"
      BY DEF Relaunch
    <3>6. QED BY <3>1, <3>2, <3>3, <3>4, <3>5, WatcherMoves
  <2>3. QED BY <2>1, <2>2, <1>a DEF QuitHasStopped
<1>4. QED BY <1>1, <1>2, <1>3

-----------------------------------------------------------------------------
(* The theorems                                                            *)

LEMMA AppInvInit == Init => AppInv
<1> SUFFICES ASSUME Init PROVE AppInv
  OBVIOUS
<1>1. AppTypeOK
  BY TypeInit
<1>2. \A u \in Clients : calls[u].pc = "idle"
  BY NoCallTyping DEF Init
<1>3. CallsFitOperations /\ StoppedStays /\ AwaitsCurrent /\ CopyIsCurrent
  BY <1>2 DEF CallsFitOperations, StoppedStays, AwaitsCurrent, CopyIsCurrent
<1>4. MonitorHolds /\ HandleIsOfRunning /\ GivenToken /\ WatcherHasToken
  BY NoneAssumption DEF Init, MonitorHolds, HandleIsOfRunning, GivenToken, Active, WatcherHasToken
<1>5. InitializesAlone /\ QuitHasStopped /\ ConfigOnDisk
  BY <1>2 DEF Init, InitializesAlone, QuitHasStopped, ConfigOnDisk
<1>6. QED BY <1>1, <1>3, <1>4, <1>5 DEF AppInv

LEMMA AppInvStep == AppInv /\ [Next]_appVars => AppInv'
<1> SUFFICES ASSUME AppInv, [Next]_appVars PROVE AppInv'
  OBVIOUS
<1>1. CASE Next
  <2>1. AppTypeOK'
    BY <1>1, ThreadStep, WatcherStep, SetupStep, WorldStep DEF AppTypeOK
  <2>2. QED
    BY <1>1, <2>1, ThreadStep, WatcherStep, SetupStep, CallsStep, InitializesStep, QuitStep
       DEF AppInv
<1>2. CASE UNCHANGED appVars
  <2>1. OneInside' /\ ThreadTypes' /\ WatcherTypes' /\ SetupTypes' /\ WorldTypes'
    BY <1>2 DEF AppInv, AppTypeOK, OneInside, ThreadTypes, WatcherTypes, SetupTypes, WorldTypes,
                appVars, threads, watchers, setup, world
  <2>2. CallsFitOperations' /\ StoppedStays' /\ AwaitsCurrent' /\ CopyIsCurrent'
    BY <1>2, CallsStayStep DEF AppInv, appVars, threads, watchers, setup
  <2>3. MonitorHolds' /\ HandleIsOfRunning' /\ GivenToken' /\ InitializesAlone'
        /\ WatcherHasToken' /\ QuitHasStopped' /\ ConfigOnDisk'
    BY <1>2 DEF AppInv, MonitorHolds, HandleIsOfRunning, GivenToken, Active, InitializesAlone,
                Initializing, WatcherHasToken, QuitHasStopped, ConfigOnDisk,
                appVars, threads, watchers, setup
  <2>4. QED BY <2>1, <2>2, <2>3 DEF AppInv, AppTypeOK
<1>3. QED BY <1>1, <1>2

\* Every call and every watcher keeps the locks, the handle, the token and the files of
\* the application in the invariant, crashes and failures to write included.
THEOREM AppInvariance == AppSpec => []AppInv
<1>1. QED BY AppInvInit, AppInvStep, PTL DEF AppSpec

\* Every variable of the application keeps its type, for any calls, watchers and faults.
THEOREM AppTypeCorrect == AppSpec => []AppTypeOK
<1>1. AppInv => AppTypeOK
  BY DEF AppInv
<1>2. QED BY <1>1, AppInvariance, PTL

\* One goroutine at most has not cleared the handle, so one at most is inside
\* watchagent.Run, however often the watcher is stopped, slow or restarted.
THEOREM WatcherIsAlone == AppSpec => []OneWatcher
<1>1. AppInv => OneWatcher
  BY NoneAssumption DEF AppInv, HandleIsOfRunning, OneWatcher, Active
<1>2. QED BY <1>1, AppInvariance, PTL

\* A call resets the queue at its place after the stop, where no watcher is
\* current.
THEOREM ResetIsQuiet == AppSpec => []QueueIsQuiet
<1>1. AppInv => QueueIsQuiet
  <2> SUFFICES ASSUME AppInv, NEW u \in Clients, calls[u].pc = "reset", NEW w \in Runs
               PROVE  ~Active(w)
    BY DEF QueueIsQuiet
  <2>1. calls[u].op = "token"
    BY DEF AppInv, CallsFitOperations
  <2>2. current = None
    BY <2>1 DEF AppInv, StoppedStays
  <2>3. QED BY <2>2, NoneAssumption DEF AppInv, HandleIsOfRunning, Active
<1>2. QED BY <1>1, AppInvariance, PTL

\* The watcher at work has the token the user set last.
THEOREM WatcherUsesToken == AppSpec => []WatcherHasToken
<1>1. AppInv => WatcherHasToken
  BY DEF AppInv
<1>2. QED BY <1>1, AppInvariance, PTL

\* No watcher survives Quit untold.
THEOREM QuitIsFinal == AppSpec => []QuitStopsWatcher
<1>1. AppInv => QuitStopsWatcher
  BY DEF AppInv, QuitHasStopped, QuitStopsWatcher
<1>2. QED BY <1>1, AppInvariance, PTL

\* Outside a settings call the configuration in use is the one on disk, whichever
\* calls failed or overlapped before, unless a write has torn the file.
THEOREM SettingsSurvive == AppSpec => []SettingsAreSaved
<1>1. AppInv => SettingsAreSaved
  BY DEF AppInv, ConfigOnDisk, SettingsAreSaved
<1>2. QED BY <1>1, AppInvariance, PTL

\* No call undoes another's change: what it copied under setupMu is still current
\* when it writes.
THEOREM CopyStaysCurrent == AppSpec => []CopyIsCurrent
<1>1. AppInv => CopyIsCurrent
  BY DEF AppInv
<1>2. QED BY <1>1, AppInvariance, PTL

\* The credential store changes by a call for it: what the next start finds is
\* what that call asked for, or what was there before.
LEMMA StoredStep == AppInv /\ [Next]_appVars =>
    (Stored' # Stored =>
        \E u \in Clients : calls[u].pc \in {"token", "delete"} /\ Stored' = calls[u].arg)
<1> SUFFICES ASSUME AppInv, [Next]_appVars, Stored' # Stored
             PROVE  \E u \in Clients :
                      calls[u].pc \in {"token", "delete"} /\ Stored' = calls[u].arg
  OBVIOUS
<1>a. /\ keyring \in [current : Tokens \cup {None}, former : Tokens \cup {None}]
      /\ CallsFitOperations
  BY DEF AppInv, AppTypeOK, SetupTypes
<1>b. keyring' # keyring
  BY DEF Stored
<1>1. \/ \E u \in Clients : DeleteFirst(u) \/ ChangeToken(u)
      \/ Load
  <2>1. Next
    BY <1>b DEF appVars
  <2>2. QED BY <1>b, <2>1, OwnSteps
<1>2. ASSUME NEW u \in Clients, DeleteFirst(u)
      PROVE  calls[u].pc \in {"token", "delete"} /\ Stored' = calls[u].arg
  BY <1>2, <1>a, <1>b DEF DeleteFirst, DeletedFirst, Stored, CallsFitOperations
<1>3. ASSUME NEW u \in Clients, ChangeToken(u)
      PROVE  calls[u].pc \in {"token", "delete"} /\ Stored' = calls[u].arg
  BY <1>3, <1>a, <1>b, NoneAssumption
     DEF ChangeToken, DeletedFirst, Stored, CallsFitOperations
<1>4. CASE Load
  BY <1>4, <1>a, <1>b DEF Load, Migrated, Stored
<1>5. QED BY <1>1, <1>2, <1>3, <1>4

\* A start, a migration or a failed call leaves the token the user chose.
THEOREM TokenChangesByCalls == AppSpec => OnlyCallsChangeToken
<1>1. QED BY AppInvariance, StoredStep, PTL DEF AppSpec, OnlyCallsChangeToken

=============================================================================
