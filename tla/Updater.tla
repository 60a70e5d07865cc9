------------------------------ MODULE Updater ------------------------------
(***************************************************************************)
(* The self-update of the companion, updater.go: the checks of the signed  *)
(* feed, the release that is downloaded and staged, its deferral and its   *)
(* installation, and the change of channel.                                *)
(*                                                                         *)
(* A check runs in the goroutine of the ticker, in a call of the window    *)
(* (manual), or in a goroutine SetUpdateChannel leaves behind; updateMu    *)
(* lets one of them run at a time.  The window makes one call at a time;   *)
(* the tray makes calls too.  Only the window's calls hold setupMu here,   *)
(* so it needs no variable.  Each critical section of app.mu is in a step  *)
(* of its own.  What the signatures and the checks of URL and length       *)
(* refuse is a failure to fetch or download.                               *)
(***************************************************************************)
EXTENDS UpdateFeed

CONSTANTS
    Mandatory,    \* releases marked as critical updates
    Feeds,        \* what a channel can promote: lists of releases, an empty one
                  \* when there is no feed
    Platforms,    \* whether the platform updater manages downloads: TRUE on macOS
                  \* (Sparkle), FALSE on Windows
    Spawned,      \* bound: checks left behind by SetUpdateChannel together
    MaxChanges,   \* bound: changes of what the feeds promote
    FaultKinds,   \* which of "start", "fetch", "download", "sparkle", "save",
                  \* "install" and "restart" can happen
    MaxFaults     \* bound: how often, together

ASSUME PromotionsAssumption ==
    1 \in Releases /\ Mandatory \subseteq Releases /\ <<>> \in Feeds /\ Feeds \subseteq Seq(Releases)
ASSUME PlatformsAssumption == Platforms \subseteq BOOLEAN
ASSUME SpawnedAssumption == Spawned \cap {"ticker", "window"} = {}
ASSUME LimitsAssumption == MaxChanges \in Nat /\ MaxFaults \in Nat

VARIABLES
    checks,       \* each check: where it is, and what it has read
    window,       \* the window's DeferUpdate or SetUpdateChannel
    installs,     \* InstallUpdate, called by the window and by the tray
    sparkle,      \* the platform updater manages downloads
    native,       \* app.nativeUpdater # nil; the ticker lives as long
    config,       \* the channel, and the deferred version
    updater,      \* app.updater, what the window and the tray show
    staged,       \* app.stagedUpdatePath # ""
    stagedFile,   \* the release in the file at that path, 0 when there is none
    launched,     \* installers that were started
    current,      \* the version that is running
    feed,         \* what each channel promotes
    changes,      \* how often that changed
    faults        \* failures so far

shown       == <<updater, staged>>
world       == <<sparkle, launched, current, feed, changes>>
updaterVars == <<checks, window, installs, native, config, shown, stagedFile, world, faults>>

-----------------------------------------------------------------------------
Checkers == {"ticker", "window"} \cup Spawned
Callers  == {"window", "tray"}

NoCheck == [pc |-> "idle", beta |-> FALSE, release |-> 0, deferred |-> FALSE]
NoCall  == [pc |-> "idle", version |-> 0, beta |-> FALSE]

Holding == {"begun", "fetch", "compare", "announce", "native", "download", "publish"}
Busy    == window.pc # "idle" \/ checks["window"].pc # "idle" \/ installs["window"] # "idle"

Targets == {"windows", "macos"}
Target  == IF sparkle THEN "macos" ELSE "windows"

\* What Select returns, by feed, running version and target.
Selection ==
    [releases \in Feeds |-> [version \in Releases |->
        [target \in Targets |-> Select(releases, version, target)]]]

Fault(kind) ==
    kind \in FaultKinds /\ faults < MaxFaults /\ faults' = faults + 1

\* setUpdaterError; "error" stands for "offline" too, which differs in its words.
Shows(status) == updater' = [updater EXCEPT !.status = status]

NothingAvailable ==
    updater' = [updater EXCEPT !.status = "current", !.available = 0,
                               !.mandatory = FALSE, !.ready = FALSE]

-----------------------------------------------------------------------------
(* runUpdateCheck                                                          *)

Goes(t, from, to) ==
    checks[t].pc = from /\ checks' = [checks EXCEPT ![t].pc = to]

Ends(t, from) ==
    checks[t].pc = from /\ checks' = [checks EXCEPT ![t] = NoCheck]

\* Mutant: after a failure the ticker checks no more.
TickUnlessFailed ==
    /\ native /\ Goes("ticker", "idle", "due") /\ updater.status # "error"
    /\ UNCHANGED <<window, installs, native, config, shown, stagedFile, world, faults>>

Tick ==
    /\ native /\ Goes("ticker", "idle", "due")
    /\ UNCHANGED <<window, installs, native, config, shown, stagedFile, world, faults>>

\* updateMu, and the channel as updateConfiguration reads it
Begin(t) ==
    /\ checks[t].pc = "due"
    /\ \A u \in Checkers : checks[u].pc \notin Holding
    /\ checks' = [checks EXCEPT ![t].pc = "begun", ![t].beta = config.beta]
    /\ UNCHANGED <<window, installs, native, config, shown, stagedFile, world, faults>>

Checking(t) ==
    /\ Goes(t, "begun", "fetch")
    /\ updater' = [updater EXCEPT !.status = "checking", !.beta = checks[t].beta,
                                  !.ready = FALSE]
    /\ UNCHANGED <<window, installs, native, config, staged, stagedFile, world, faults>>

\* A check fails for a fault, and the ticker's also because Quit has cancelled it.
Fails(t, kind) ==
    \/ Fault(kind)
    \/ t = "ticker" /\ ~native /\ UNCHANGED faults

\* Mutant: a failure to fetch is not shown.
FetchFailsSilently(t) ==
    LET release == Selection[feed[checks[t].beta]][current][Target] IN
    /\ checks[t].pc = "fetch"
    /\ \/ release = 0 /\ Ends(t, "fetch") /\ NothingAvailable /\ UNCHANGED faults
       \/ /\ release # 0
          /\ checks' = [checks EXCEPT ![t] = [NoCheck EXCEPT !.pc = "compare",
                                                           !.release = release]]
          /\ UNCHANGED <<updater, faults>>
       \/ Fails(t, "fetch") /\ Ends(t, "fetch") /\ UNCHANGED updater
    /\ UNCHANGED <<window, installs, native, config, staged, stagedFile, world>>

\* fetchUpdate; without a feed nothing is available either.
Fetch(t) ==
    LET release == Selection[feed[checks[t].beta]][current][Target] IN
    /\ checks[t].pc = "fetch"
    /\ \/ release = 0 /\ Ends(t, "fetch") /\ NothingAvailable /\ UNCHANGED faults
       \/ /\ release # 0
          /\ checks' = [checks EXCEPT ![t] = [NoCheck EXCEPT !.pc = "compare",
                                                           !.release = release]]
          /\ UNCHANGED <<updater, faults>>
       \/ Fails(t, "fetch") /\ Ends(t, "fetch") /\ Shows("error")
    /\ UNCHANGED <<window, installs, native, config, staged, stagedFile, world>>

ReadDeferred(t) ==
    /\ checks[t].pc = "compare"
    /\ checks' = [checks EXCEPT ![t].pc = "announce",
                        ![t].deferred = config.deferred = checks[t].release]
    /\ UNCHANGED <<window, installs, native, config, shown, stagedFile, world, faults>>

StaysDeferred(t) ==
    checks[t].deferred /\ checks[t].release \notin Mandatory /\ t # "window"

AnnounceDeferred(t) ==
    /\ Ends(t, "announce") /\ StaysDeferred(t)
    /\ updater' = [updater EXCEPT !.status = "deferred", !.mandatory = FALSE,
                                  !.available = checks[t].release]
    /\ UNCHANGED <<window, installs, native, config, staged, stagedFile, world, faults>>

\* Mutant: the version is left as it was.
AnnouncesNoVersion(t, status) ==
    updater' = [updater EXCEPT !.status = status,
                               !.mandatory = checks[t].release \in Mandatory,
                               !.ready = FALSE]

Announces(t, status) ==
    updater' = [updater EXCEPT !.status = status, !.available = checks[t].release,
                               !.mandatory = checks[t].release \in Mandatory,
                               !.ready = FALSE]

AnnounceToSparkle(t) ==
    /\ ~StaysDeferred(t) /\ native /\ sparkle
    /\ IF t = "window" THEN Goes(t, "announce", "native") ELSE Ends(t, "announce")
    /\ Announces(t, "available")
    /\ UNCHANGED <<window, installs, native, config, staged, stagedFile, world, faults>>

AnnounceDownload(t) ==
    /\ Goes(t, "announce", "download") /\ ~StaysDeferred(t) /\ ~(native /\ sparkle)
    /\ Announces(t, "downloading")
    /\ UNCHANGED <<window, installs, native, config, staged, stagedFile, world, faults>>

\* A manual check has Sparkle check too.
SparkleChecks(t) ==
    /\ Ends(t, "native")
    /\ \/ UNCHANGED <<updater, faults>>
       \/ Fault("sparkle") /\ Shows("error")
    /\ UNCHANGED <<window, installs, native, config, staged, stagedFile, world>>

\* downloadUpdate: one file for every release, replaced by a rename.
Download(t) ==
    /\ \/ /\ Goes(t, "download", "publish")
          /\ stagedFile' = checks[t].release /\ UNCHANGED <<updater, faults>>
       \/ /\ Fails(t, "download") /\ Ends(t, "download")
          /\ Shows("error") /\ UNCHANGED stagedFile
    /\ UNCHANGED <<window, installs, native, config, staged, world>>

Publish(t) ==
    /\ Ends(t, "publish")
    /\ staged' = TRUE
    /\ updater' = [updater EXCEPT !.status = "ready", !.ready = TRUE]
    /\ UNCHANGED <<window, installs, native, config, stagedFile, world, faults>>

-----------------------------------------------------------------------------
(* CheckForUpdates, DeferUpdate and SetUpdateChannel, from the window,     *)
(* where it shows their buttons (deriveUpdaterView)                        *)

PressCheck ==
    /\ ~Busy /\ updater.status \notin {"checking", "downloading"}
    /\ Goes("window", "idle", "due")
    /\ UNCHANGED <<window, installs, native, config, shown, stagedFile, world, faults>>

PressDefer ==
    /\ ~Busy /\ updater.status \in {"available", "ready"} /\ ~updater.mandatory
    /\ window' = [window EXCEPT !.pc = "defer"]
    /\ UNCHANGED <<checks, installs, native, config, shown, stagedFile, world, faults>>

ReadAvailable ==
    /\ window.pc = "defer"
    /\ window' = IF updater.available = 0 \/ updater.mandatory THEN NoCall
                 ELSE [window EXCEPT !.pc = "save", !.version = updater.available]
    /\ UNCHANGED <<checks, installs, native, config, shown, stagedFile, world, faults>>

SaveDeferral ==
    /\ window.pc = "save" /\ window' = NoCall
    /\ \/ /\ config' = [config EXCEPT !.deferred = window.version]
          /\ Shows("deferred") /\ UNCHANGED faults
       \/ Fault("save") /\ UNCHANGED <<config, updater>>
    /\ UNCHANGED <<checks, installs, native, staged, stagedFile, world>>

PressChannel(beta) ==
    /\ ~Busy /\ beta # updater.beta
    /\ window' = [window EXCEPT !.pc = "channel", !.beta = beta]
    /\ UNCHANGED <<checks, installs, native, config, shown, stagedFile, world, faults>>

\* Mutant: what is ready stays ready, though its path is forgotten.
SaveChannelKeepsReady ==
    /\ window.pc = "channel"
    /\ \/ /\ config' = [beta |-> window.beta, deferred |-> 0]
          /\ staged' = FALSE
          /\ updater' = [updater EXCEPT !.status = "checking", !.beta = window.beta]
          /\ window' = [NoCall EXCEPT !.pc = "feed"] /\ UNCHANGED faults
       \/ Fault("save") /\ window' = NoCall /\ UNCHANGED <<config, shown>>
    /\ UNCHANGED <<checks, installs, native, stagedFile, world>>

SaveChannel ==
    /\ window.pc = "channel"
    /\ \/ /\ config' = [beta |-> window.beta, deferred |-> 0]
          /\ staged' = FALSE
          /\ updater' = [updater EXCEPT !.status = "checking", !.beta = window.beta,
                                        !.ready = FALSE]
          /\ window' = [NoCall EXCEPT !.pc = "feed"] /\ UNCHANGED faults
       \/ Fault("save") /\ window' = NoCall /\ UNCHANGED <<config, shown>>
    /\ UNCHANGED <<checks, installs, native, stagedFile, world>>

\* Mutant: the check is left to the ticker.
SwitchFeedOnly ==
    /\ window.pc = "feed" /\ window' = NoCall
    /\ UNCHANGED <<checks, installs, native, config, shown, stagedFile, world, faults>>

\* native.SetFeedURL, and the check that is left behind
SwitchFeed ==
    /\ window.pc = "feed" /\ window' = NoCall
    /\ \/ /\ \E t \in Spawned : Goes(t, "idle", "due")
          /\ UNCHANGED faults
       \/ native /\ sparkle /\ Fault("sparkle") /\ UNCHANGED checks
    /\ UNCHANGED <<installs, native, config, shown, stagedFile, world>>

-----------------------------------------------------------------------------
(* InstallUpdate and Quit                                                  *)

Steps(c, from, to) ==
    installs[c] = from /\ installs' = [installs EXCEPT ![c] = to]

\* Bound: one installation at a time.
PressInstall(c) ==
    /\ \A d \in Callers : installs[d] = "idle"
    /\ \/ c = "window" /\ ~Busy /\ updater.status \in {"available", "ready", "deferred"}
       \/ c = "tray" /\ updater.ready /\ updater.status \in {"ready", "deferred"}
    /\ Steps(c, "idle", "read")
    /\ UNCHANGED <<checks, window, native, config, shown, stagedFile, world, faults>>

\* With Sparkle, and without an updater, the call ends here.
InstallUpdate(c) ==
    /\ LET goes == native /\ ~sparkle /\ staged /\ updater.status \in {"ready", "deferred"}
       IN  Steps(c, "read", IF goes THEN "launch" ELSE "idle")
    /\ UNCHANGED <<checks, window, native, config, shown, stagedFile, world, faults>>

\* prepareForUpdateRelaunch and native.Install
Launch(c) ==
    /\ \/ /\ Steps(c, "launch", "quit")
          /\ launched' = launched \cup {stagedFile} /\ UNCHANGED <<updater, faults>>
       \/ /\ Fault("install") /\ Steps(c, "launch", "idle")
          /\ Shows("error") /\ UNCHANGED launched
    /\ UNCHANGED <<checks, window, sparkle, native, config, staged, stagedFile, current,
                   feed, changes>>

\* stopUpdater; the watcher and the rest of Quit are in AppLifecycle.
Quit(c) ==
    /\ Steps(c, "quit", "exit")
    /\ native' = FALSE
    /\ UNCHANGED <<checks, window, sparkle, config, shown, stagedFile, launched, current,
                   feed, changes, faults>>

\* The process ends, and version v starts: startUpdater.  Without a platform updater
\* the stable channel is shown, whichever was chosen.
Starts(v, started) ==
    /\ current' = v
    /\ checks' = [t \in Checkers |->
                    IF t = "ticker" /\ started THEN [NoCheck EXCEPT !.pc = "due"] ELSE NoCheck]
    /\ window' = NoCall /\ installs' = [c \in Callers |-> "idle"]
    /\ native' = started
    /\ updater' = [status |-> IF started THEN "current" ELSE "error", available |-> 0,
                   mandatory |-> FALSE, ready |-> FALSE, beta |-> started /\ config.beta]
    /\ staged' = FALSE /\ launched' = {}
    /\ UNCHANGED <<sparkle, config, stagedFile, feed, changes>>

\* The installer replaces the application once it has ended, or fails to.
Exit ==
    /\ \E c \in Callers : installs[c] = "exit"
    /\ \E v \in launched \cup {current} : Starts(v, TRUE)
    /\ UNCHANGED faults

\* Sparkle installs what it found in the feed it was given.
SparkleInstalls ==
    LET release == Selection[feed[config.beta]][current][Target] IN
    /\ sparkle /\ native /\ release # 0
    /\ \/ Starts(release, TRUE) /\ UNCHANGED faults
       \/ Fault("start") /\ Starts(release, FALSE)

\* The user quits, or the process dies, and it is started again.
Restart ==
    /\ Fault("restart")
    /\ \E started \in IF sparkle THEN BOOLEAN ELSE {TRUE} : Starts(current, started)

Promote(beta, releases) ==
    /\ changes < MaxChanges /\ changes' = changes + 1
    /\ releases # feed[beta] /\ feed' = [feed EXCEPT ![beta] = releases]
    /\ UNCHANGED <<checks, window, installs, sparkle, native, config, shown, stagedFile,
                   launched, current, faults>>

-----------------------------------------------------------------------------
\* Bound: at first both channels promote the same.
Init ==
    /\ checks = [[t \in Checkers |-> NoCheck] EXCEPT !["ticker"].pc = "due"]
    /\ window = NoCall /\ installs = [c \in Callers |-> "idle"]
    /\ sparkle \in Platforms /\ native = TRUE
    /\ config = [beta |-> FALSE, deferred |-> 0]
    /\ updater = [status |-> "current", available |-> 0, mandatory |-> FALSE,
                  ready |-> FALSE, beta |-> FALSE]
    /\ staged = FALSE /\ stagedFile = 0 /\ launched = {}
    /\ current = 1 /\ changes = 0 /\ faults = 0
    /\ feed \in {[beta \in BOOLEAN |-> releases] : releases \in Feeds \ {<<>>}}

Runs(t) ==
    \/ Checking(t) \/ Fetch(t) \/ ReadDeferred(t) \/ AnnounceDeferred(t)
    \/ AnnounceToSparkle(t) \/ AnnounceDownload(t) \/ SparkleChecks(t)
    \/ Download(t) \/ Publish(t)

Answers == ReadAvailable \/ SaveDeferral \/ SaveChannel \/ SwitchFeed

Installing(c) == InstallUpdate(c) \/ Launch(c) \/ Quit(c)

Next ==
    \/ Tick \/ \E t \in Checkers : Begin(t) \/ Runs(t)
    \/ PressCheck \/ PressDefer \/ Answers
    \/ \E beta \in BOOLEAN : PressChannel(beta)
    \/ \E c \in Callers : PressInstall(c) \/ Installing(c)
    \/ Exit \/ SparkleInstalls \/ Restart
    \/ \E beta \in BOOLEAN, releases \in Feeds : Promote(beta, releases)

UpdaterSpec == Init /\ [][Next]_updaterVars

\* The ticker ticks, updateMu is handed to one that keeps asking, and fetching,
\* downloading and installing end, in time or by their deadline.
Fairness ==
    /\ WF_updaterVars(Tick)
    /\ \A t \in Checkers : SF_updaterVars(Begin(t))
    /\ WF_updaterVars(\E t \in Checkers : Runs(t))
    /\ WF_updaterVars(Answers)
    /\ WF_updaterVars(Exit \/ \E c \in Callers : Installing(c))

UpdaterLiveSpec == UpdaterSpec /\ Fairness

-----------------------------------------------------------------------------
(* Properties                                                              *)

UpdaterTypeOK ==
    /\ checks \in [Checkers -> [pc : {"idle", "due"} \cup Holding, beta : BOOLEAN,
                                release : Releases \cup {0}, deferred : BOOLEAN]]
    /\ window \in [pc : {"idle", "defer", "save", "channel", "feed"},
                   version : Releases \cup {0}, beta : BOOLEAN]
    /\ installs \in [Callers -> {"idle", "read", "launch", "quit", "exit"}]
    /\ native \in BOOLEAN /\ staged \in BOOLEAN
    /\ config \in [beta : BOOLEAN, deferred : Releases \cup {0}]
    /\ updater \in [status : {"current", "checking", "downloading", "available", "ready",
                              "deferred", "error"},
                    available : Releases \cup {0}, mandatory : BOOLEAN, ready : BOOLEAN,
                    beta : BOOLEAN]
    /\ updater.status \in {"available", "downloading", "ready"} => updater.available # 0
    /\ stagedFile \in Releases \cup {0} /\ launched \subseteq Releases
    /\ current \in Releases /\ feed \in [BOOLEAN -> Feeds]
    /\ changes \in 0..MaxChanges /\ faults \in 0..MaxFaults

\* What is shown as ready to install is the release in the staged file, which
\* InstallUpdate will find, through checks, deferrals and changes of channel.
ReadyMeansStaged ==
    updater.ready => staged /\ stagedFile = updater.available

\* Which release is a newer one, for which version that runs and which target.
Updates ==
    {u \in Releases \X Releases \X Targets :
        Newer(VersionOf[u[1]], VersionOf[u[2]]) /\ u[3] \in TargetsOf[u[1]]}

\* Whichever release runs, Compare puts it and any other version in the order of
\* semantic versions, as long as their identifiers fit into 64 bits.
CompareIsPrecedence == current \notin Misplaced

IsUpdate(release) == <<release, current, Target>> \in Updates

\* A path to a staged file is kept only for a release that is newer than the one
\* that runs and made for this platform, so that no start of the installer can
\* downgrade, a rollback of the feed, a file left by an earlier run and a second
\* installer included.
StagedIsNewer ==
    (staged => IsUpdate(stagedFile)) /\ \A release \in launched : IsUpdate(release)

\* Once no check runs or is due and the window's call is over, what is shown is
\* about the channel the user chose, whichever checks of the other one were under
\* way.  So it is on Windows; Sparkle may refuse the feed of the new channel, and
\* then SetUpdateChannel leaves no check behind.
SettledOnChannel ==
    (~sparkle /\ window.pc = "idle" /\ \A t \in Checkers : checks[t].pc = "idle")
        => updater.beta = config.beta

\* While "checking" or "downloading" is shown, which disables the window's check
\* button, a check runs or is due; on Windows, for the same reason.
CheckingMeansChecking ==
    ~sparkle /\ updater.status \in {"checking", "downloading"} =>
        \/ \E t \in Checkers : checks[t].pc # "idle"
        \/ window.pc = "feed"

Quiet ==
    /\ window.pc = "idle" /\ \A t \in Checkers : checks[t].pc = "idle"
    /\ \A c \in Callers : installs[c] = "idle"

\* docs/releasing.md: pointing the channel back "stops new upgrades".  When no
\* check runs and a release is shown as deferred, an installation is of that one.
InstallsDeferred ==
    Quiet /\ staged /\ updater.status = "deferred" /\ updater.available = config.deferred
        => stagedFile = updater.available

\* The newest release of a feed that is an update; 0 when there is none.
Newest ==
    [releases \in Feeds, version \in Releases, target \in Targets |->
        LET updates == {release \in ToSet(releases) : <<release, version, target>> \in Updates}
            newest == {v \in updates : \A w \in updates :
                        ~Newer(VersionOf[w], VersionOf[v])}
        IN  IF updates = {} THEN 0 ELSE CHOOSE release \in newest : TRUE]

Promoted(beta) == Newest[feed[beta], current, Target]

\* A promoted release gets to the user: it is announced, unless the promotion or
\* the running version changes first, or the user changes the channel once more.
\* Without a platform updater there is no ticker either, and the user must ask.
PromotedUpdateArrives ==
    Promoted(config.beta) # 0 ~>
        \/ /\ updater.available = Promoted(config.beta)
           /\ updater.status \in {"ready", "deferred", "available"}
        \/ Promoted(config.beta) = 0 \/ window.pc = "channel" \/ ~native

=============================================================================
