-------------------------------- MODULE Updater --------------------------------
(***************************************************************************)
(* The self-update of the OpenCode plugin (plugins/opencode/src/updater.ts):*)
(* each opencode process asks npm for the latest version when it starts    *)
(* and, if that is newer than its own, unpacks it over the installed files *)
(* under a lock file that all processes of the machine share.              *)
(***************************************************************************)
EXTENDS Naturals, FiniteSets

CONSTANTS
  Updaters,     \* opencode processes
  Files,        \* the files of the package, package.json one of them
  PackageJson,
  MaxVersion,   \* bound: versions published
  MaxUpdates,   \* bound: starts of a process
  MaxBreaks     \* bound: processes that die and installations that fail

NoLock == "nobody"

ASSUME UpdaterAssumption == NoLock \notin Updaters

VARIABLES
  published,   \* the latest version at npm
  installed,   \* installed[f]: the version that f is of
  lock,        \* cerebro-update.lock: whose, and whether older than five minutes
  updater,     \* updater[u]
  starts,
  breaks,      \* processes that died and installations that failed
  halved,      \* an installation stopped while it unpacked, and none ended since
  robbed       \* a lock was removed while its owner was installing

trouble == <<breaks, halved, robbed>>
uvars == <<published, installed, lock, updater, starts, trouble>>

Rest == [pc |-> "off", got |-> 0, left |-> {}]

UInit ==
  /\ published = 1 /\ installed = [f \in Files |-> 1]
  /\ lock = [by |-> NoLock, old |-> FALSE]
  /\ updater = [u \in Updaters |-> Rest]
  /\ starts = 0 /\ breaks = 0 /\ halved = FALSE /\ robbed = FALSE

\* Between acquireLock and releaseLock.
Installing == {"pack", "unpack", "release"}

To(u, pc) == updater' = [updater EXCEPT ![u].pc = pc]

Publish ==
  /\ published < MaxVersion /\ published' = published + 1
  /\ UNCHANGED <<installed, lock, updater, starts, trouble>>

\* getLatestVersion and compareVersions; the process is of the version that
\* package.json said when it started.
CheckVersion(u) ==
  /\ updater[u].pc = "off" /\ starts < MaxUpdates /\ starts' = starts + 1
  /\ published > installed[PackageJson] /\ To(u, "stat")
  /\ UNCHANGED <<published, installed, lock, trouble>>

\* acquireLock: a lock that is old is removed, whoever's it is by then.
StatLock(u) ==
  /\ updater[u].pc = "stat" /\ To(u, IF lock.old THEN "unlink" ELSE "open")
  /\ UNCHANGED <<published, installed, lock, starts, trouble>>

UnlinkLock(u) ==
  /\ updater[u].pc = "unlink" /\ To(u, "open")
  /\ lock' = [by |-> NoLock, old |-> FALSE]
  /\ robbed' = (robbed \/ \E v \in Updaters : lock.by = v /\ updater[v].pc \in Installing)
  /\ UNCHANGED <<published, installed, starts, breaks, halved>>

\* Fault: the file is opened without "x".
OpenAnyway(u) == TRUE
Exclusive(u) == lock.by = NoLock

OpenLock(u) ==
  /\ updater[u].pc = "open"
  /\ IF Exclusive(u) THEN lock' = [by |-> u, old |-> FALSE] /\ To(u, "pack")
     ELSE To(u, "off") /\ UNCHANGED lock
  /\ UNCHANGED <<published, installed, starts, trouble>>

\* npm pack fetches what is the latest by now.
Pack(u) ==
  /\ updater[u].pc = "pack"
  /\ updater' = [updater EXCEPT ![u] = [pc |-> "unpack", got |-> published, left |-> Files]]
  /\ UNCHANGED <<published, installed, lock, starts, trouble>>

Unpack(u, f) ==
  /\ updater[u].pc = "unpack" /\ f \in updater[u].left
  /\ installed' = [installed EXCEPT ![f] = updater[u].got]
  /\ updater' = [updater EXCEPT ![u].left = @ \ {f},
                   ![u].pc = IF updater[u].left = {f} THEN "release" ELSE "unpack"]
  /\ halved' = (halved /\ updater[u].left # {f})
  /\ UNCHANGED <<published, lock, starts, breaks, robbed>>

\* An installation ends before its time.
Break(u) ==
  /\ breaks < MaxBreaks /\ breaks' = breaks + 1
  /\ halved' = (halved \/ updater[u].pc = "unpack")
  /\ UNCHANGED robbed

\* npm or tar fails or is killed by its timeout.
InstallFails(u) ==
  /\ updater[u].pc \in {"pack", "unpack"}
  /\ Break(u)
  /\ To(u, "release")
  /\ UNCHANGED <<published, installed, lock, starts>>

\* releaseLock unlinks the file, whoever's it is.
ReleaseLock(u) ==
  /\ updater[u].pc = "release"
  /\ updater' = [updater EXCEPT ![u] = Rest]
  /\ lock' = [by |-> NoLock, old |-> FALSE]
  /\ UNCHANGED <<published, installed, starts, trouble>>

\* The process dies; its lock stays.
DieUpdating(u) ==
  /\ updater[u].pc # "off"
  /\ Break(u)
  /\ updater' = [updater EXCEPT ![u] = Rest]
  /\ UNCHANGED <<published, installed, lock, starts>>

\* An installation takes less than STALE_LOCK_MS: only an orphan gets that old.
LockAges ==
  /\ lock.by # NoLock /\ ~lock.old
  /\ \A u \in Updaters : lock.by = u => updater[u].pc \notin Installing
  /\ lock' = [lock EXCEPT !.old = TRUE]
  /\ UNCHANGED <<published, installed, updater, starts, trouble>>

UNext ==
  \/ Publish \/ LockAges
  \/ \E u \in Updaters :
       \/ CheckVersion(u) \/ StatLock(u) \/ UnlinkLock(u) \/ OpenLock(u) \/ Pack(u)
       \/ \E f \in Files : Unpack(u, f)
       \/ InstallFails(u) \/ ReleaseLock(u) \/ DieUpdating(u)

USpec == UInit /\ [][UNext]_uvars

-----------------------------------------------------------------------------
\* What is installed is one version, not a mixture of two, whenever nobody is
\* installing: also after a process died and its old lock was taken over, and
\* after an update that stopped halfway was followed by one that did not.  It
\* fails only when a lock is taken from a process that is installing: of two
\* that found the old lock of a dead one, the slower removes the other's
\* (updater.ts:86-97).
OneVersion ==
  (~halved /\ ~robbed /\ \A u \in Updaters : updater[u].pc # "unpack") =>
    \A f, g \in Files : installed[f] = installed[g]
=============================================================================
