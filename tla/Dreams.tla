-------------------------------- MODULE Dreams --------------------------------
(***************************************************************************)
(* The dreams of the Claude Code plugin, its side of them                  *)
(* (plugins/claude-code/hooks/dream.mjs and session-start.mjs): a detached *)
(* worker collects the transcripts since the last dream, has the server    *)
(* dream of them, and records the outcome in state.json; the next window   *)
(* reports it.  Workers and windows share the state file and a lock file.  *)
(***************************************************************************)
EXTENDS Naturals, FiniteSets, Sequences

CONSTANTS
  Dreamers,    \* worker processes
  Talks,       \* transcripts
  Enough,      \* MIN_NEW_SESSIONS
  Room,        \* transcripts that a request may hold (MAX_SESSIONS, MAX_PAYLOAD)
  Cap,         \* pieces of a transcript that a request may hold (PER_SESSION_CAP)
  Jobs,        \* 1 .. n (bound): dream jobs of the server
  Openers,     \* windows whose SessionStart hook runs
  MaxClock,    \* bound: changes of transcripts and outcomes
  MaxDeaths    \* bound: workers that die, requests lost, jobs never answered

NoJob    == 0
Unlocked == "nobody"

\* A job's id is never that of no job, and nobody is no worker.
ASSUME DreamsAssumption == Jobs \subseteq Nat \ {0} /\ Unlocked \notin Dreamers /\ Cap \in Nat

VARIABLES
  clock,     \* ticks with every time stamp that is compared
  piece,     \* piece[t]: when each piece of a transcript was written; its mtime is the last
  st,        \* state.json: phase, job, started, last (last_dream_at), consumed, old
  tlock,     \* trigger.lock: whose, and whether older than its TTL
  dreamer,   \* dreamer[p]
  job,       \* job[j]: the server's status, what it was fed and when that was collected
  window,    \* window[o]: its step, and the state it has read
  taken,     \* jobs that a window has read to report them
  lockLost,  \* whether the lock of a worker at work was ever removed
  high,      \* the latest last_dream_at so far
  deaths

dvars == <<clock, piece, st, tlock, dreamer, job, window, taken, lockLost, high, deaths>>

Blank == [phase |-> "none", job |-> NoJob, started |-> 0, last |-> 0,
          consumed |-> TRUE, old |-> FALSE]
Awake == [pc |-> "off", prev |-> 0, food |-> {}, full |-> FALSE, at |-> 0,
          job |-> NoJob, started |-> 0]
NoWindow == [pc |-> "off", held |-> Blank]

DInit ==
  /\ clock = 1 /\ piece = [t \in Talks |-> <<>>] /\ st = Blank
  /\ tlock = [by |-> Unlocked, old |-> FALSE]
  /\ dreamer = [p \in Dreamers |-> Awake]
  /\ job = [j \in Jobs |-> [status |-> "none", food |-> {}, full |-> FALSE, at |-> 0]]
  /\ window = [o \in Openers |-> NoWindow]
  /\ taken = {} /\ lockLost = FALSE /\ high = 0 /\ deaths = 0

mtime(t) == IF piece[t] = <<>> THEN 0 ELSE piece[t][Len(piece[t])]

\* A session talks: its transcript grows.
Chat(t) ==
  /\ clock < MaxClock /\ clock' = clock + 1
  /\ piece' = [piece EXCEPT ![t] = Append(@, clock + 1)]
  /\ UNCHANGED <<st, tlock, dreamer, job, window, taken, lockLost, deaths>>

\* judgeMaterial; that six or 24 hours have passed is up to the environment.
Newer == {t \in Talks : mtime(t) > st.last}
Judged(rested, starved) ==
  \/ Cardinality(Newer) >= Enough /\ (rested \/ st.last = 0)
  \/ starved /\ st.last > 0

-----------------------------------------------------------------------------
(* The worker.                                                             *)

AtWork(p) == dreamer[p].pc \in {"collect", "post", "poll"}

\* acquireLock, after a session's end or start, or by hand.
DreamLock(p) ==
  /\ dreamer[p].pc = "off"
  /\ IF tlock.by = Unlocked
     THEN tlock' = [by |-> p, old |-> FALSE] /\ dreamer' = [dreamer EXCEPT ![p].pc = "collect"]
     ELSE tlock.old /\ dreamer' = [dreamer EXCEPT ![p].pc = "steal"] /\ UNCHANGED tlock
  /\ UNCHANGED <<clock, piece, st, job, window, taken, lockLost, deaths>>

\* The lock file goes, whoever's it is.
Unlink(p) ==
  /\ tlock' = [by |-> Unlocked, old |-> FALSE]
  /\ lockLost' = (lockLost \/ \E q \in Dreamers \ {p} : tlock.by = q /\ AtWork(q))

\* An old lock was seen: it is unlinked; one that is gone by now ends the worker.
DreamSteal(p) ==
  /\ dreamer[p].pc = "steal"
  /\ IF tlock.by = Unlocked
     THEN dreamer' = [dreamer EXCEPT ![p] = Awake] /\ UNCHANGED <<tlock, lockLost>>
     ELSE dreamer' = [dreamer EXCEPT ![p].pc = "open"] /\ Unlink(p)
  /\ UNCHANGED <<clock, piece, st, job, window, taken, deaths>>

\* Fault: the file is opened to write, whether it is there or not.
Anyway(p) == TRUE
LockGone(p) == tlock.by = Unlocked

\* Then it is created, unless somebody else just did.
DreamOpen(p) ==
  /\ dreamer[p].pc = "open"
  /\ IF LockGone(p)
     THEN tlock' = [by |-> p, old |-> FALSE] /\ dreamer' = [dreamer EXCEPT ![p].pc = "collect"]
     ELSE dreamer' = [dreamer EXCEPT ![p] = Awake] /\ UNCHANGED tlock
  /\ UNCHANGED <<clock, piece, st, job, window, taken, lockLost, deaths>>

\* finally: the worker's end; releaseLock unlinks the file, whoever's it is.
Release(p) == Unlink(p) /\ dreamer' = [dreamer EXCEPT ![p] = Awake]

\* The newest transcripts that fit.
IsFood(talks, since) ==
  /\ talks \subseteq {t \in Talks : mtime(t) > since}
  /\ \A t \in talks, u \in Talks \ talks : mtime(u) > since => mtime(u) < mtime(t)
  /\ Cardinality(talks) <= Room
  /\ talks # {t \in Talks : mtime(t) > since} => Cardinality(talks) = Room

\* extractTranscript: from the start of the transcript up to the cap, read or not before.
Extract(t) == {<<t, k>> : k \in {k \in 1 .. Len(piece[t]) : k <= Cap}}

Collect(p) ==
  /\ dreamer[p].pc = "collect"
  /\ \/ /\ \E rested, starved, force \in BOOLEAN, talks \in SUBSET Talks, since \in {st.last, 0} :
             /\ IF force THEN since = 0 ELSE Judged(rested, starved) /\ since = st.last
             /\ talks # {} /\ IsFood(talks, since)
             /\ dreamer' = [dreamer EXCEPT ![p] =
                  [pc |-> "post", prev |-> st.last, food |-> UNION {Extract(t) : t \in talks},
                   full |-> Cardinality(talks) = Room, at |-> clock,
                   job |-> NoJob, started |-> 0]]
        /\ st' = [phase |-> "run", job |-> NoJob, started |-> clock, last |-> st.last,
                  consumed |-> FALSE, old |-> FALSE]
        /\ UNCHANGED <<tlock, lockLost>>
     \/ Release(p) /\ UNCHANGED st     \* not enough, or nothing in it
  /\ UNCHANGED <<clock, piece, job, window, taken, deaths>>

\* Fault: a request that failed counts as a dream.
FailedNow(p) == clock
FailedLast(p) == dreamer[p].prev

\* A failure's state has no time of its start.
Fail(p, last) ==
  /\ st' = [phase |-> "fail", job |-> dreamer[p].job, started |-> 0, last |-> last,
            consumed |-> TRUE, old |-> FALSE]
  /\ Release(p)

\* The POST: refused, lost, or its answer lost while the server takes the job.
PostLost(p) ==
  /\ dreamer[p].pc = "post" /\ deaths < MaxDeaths /\ deaths' = deaths + 1
  /\ Fail(p, FailedLast(p))
  /\ UNCHANGED <<clock, piece, job, window, taken>>

\* The job is taken; the state, as it is by now, is read, named and written.
Accept(p) ==
  /\ dreamer[p].pc = "post"
  /\ \E j \in Jobs :
       /\ job[j].status = "none" /\ \A i \in Jobs : i < j => job[i].status # "none"
       /\ job' = [job EXCEPT ![j] = [status |-> "running", food |-> dreamer[p].food,
                                     full |-> dreamer[p].full, at |-> dreamer[p].at]]
       /\ dreamer' = [dreamer EXCEPT ![p].pc = "poll", ![p].job = j, ![p].started = st.started]
       /\ st' = [st EXCEPT !.phase = "run", !.job = j, !.old = FALSE]
  /\ UNCHANGED <<clock, piece, tlock, window, taken, lockLost, deaths>>

JobEnds(j, status) ==
  /\ job[j].status = "running" /\ job' = [job EXCEPT ![j].status = status]
  /\ UNCHANGED <<clock, piece, st, tlock, dreamer, window, taken, lockLost, deaths>>

\* The poll sees the end of the job.  A result counts from now on, a failure
\* from the start of the dream: it is not tried again with the same food.
PollDone(p) ==
  /\ dreamer[p].pc = "poll" /\ job[dreamer[p].job].status = "completed"
  /\ clock' = clock + 1
  /\ st' = [phase |-> "done", job |-> dreamer[p].job, started |-> dreamer[p].started,
            last |-> clock + 1, consumed |-> FALSE, old |-> FALSE]
  /\ Release(p)
  /\ UNCHANGED <<piece, job, window, taken, deaths>>

PollFailed(p) ==
  /\ dreamer[p].pc = "poll" /\ job[dreamer[p].job].status = "failed"
  /\ Fail(p, dreamer[p].started)
  /\ UNCHANGED <<clock, piece, job, window, taken, deaths>>

\* The polling budget is used up.
PollEnds(p) ==
  /\ dreamer[p].pc = "poll" /\ deaths < MaxDeaths /\ deaths' = deaths + 1
  /\ Fail(p, dreamer[p].prev)
  /\ UNCHANGED <<clock, piece, job, window, taken>>

\* The worker dies: lock and state stay as they are.
DreamerDies(p) ==
  /\ dreamer[p].pc # "off" /\ deaths < MaxDeaths /\ deaths' = deaths + 1
  /\ dreamer' = [dreamer EXCEPT ![p] = Awake]
  /\ UNCHANGED <<clock, piece, st, tlock, job, window, taken, lockLost>>

\* Nothing that runs gets as old as the lock's TTL or the state's 15 minutes.
Age ==
  /\ \A p \in Dreamers : dreamer[p].pc = "off"
  /\ tlock.by # Unlocked \/ st.phase = "run"
  /\ tlock' = [tlock EXCEPT !.old = (tlock.by # Unlocked)]
  /\ st' = [st EXCEPT !.old = (st.phase = "run")]
  /\ UNCHANGED <<clock, piece, dreamer, job, window, taken, lockLost, deaths>>

-----------------------------------------------------------------------------
(* dreamReport of a window that starts.                                    *)

\* The state is read: an orphan is asked about, a result is to be reported.
ReadState(o) ==
  /\ window[o].pc = "off"
  /\ \/ /\ st.phase = "run" /\ st.old /\ st.job # NoJob
        /\ window' = [window EXCEPT ![o] = [pc |-> "get", held |-> st]] /\ UNCHANGED taken
     \/ /\ st.phase = "done" /\ ~st.consumed
        /\ window' = [window EXCEPT ![o] = [pc |-> "report", held |-> st]]
        /\ taken' = taken \cup {st.job}
  /\ UNCHANGED <<clock, piece, st, tlock, dreamer, job, lockLost, deaths>>

\* fetchOrphanResult: a job that completed is written over what is there now.
OrphanAnswer(o) ==
  /\ window[o].pc = "get" /\ job[window[o].held.job].status = "completed"
  /\ clock' = clock + 1
  /\ st' = [window[o].held EXCEPT !.phase = "done", !.last = clock + 1,
                                  !.consumed = FALSE, !.old = FALSE]
  /\ window' = [window EXCEPT ![o] = [pc |-> "report", held |-> st']]
  /\ taken' = taken \cup {window[o].held.job}
  /\ UNCHANGED <<piece, tlock, dreamer, job, lockLost, deaths>>

\* writeStateForReport: what was read is written back, as consumed.
Report(o) ==
  /\ window[o].pc = "report"
  /\ st' = [window[o].held EXCEPT !.consumed = TRUE]
  /\ window' = [window EXCEPT ![o] = NoWindow]
  /\ UNCHANGED <<clock, piece, tlock, dreamer, job, taken, lockLost, deaths>>

\* No answer, or one that there is no result; or the window goes away.
OpenerEnds(o) ==
  /\ window[o].pc # "off" /\ window' = [window EXCEPT ![o] = NoWindow]
  /\ UNCHANGED <<clock, piece, st, tlock, dreamer, job, taken, lockLost, deaths>>

DStep ==
  \/ \E t \in Talks : Chat(t)
  \/ \E p \in Dreamers :
       \/ DreamLock(p) \/ DreamSteal(p) \/ DreamOpen(p) \/ Collect(p) \/ PostLost(p)
       \/ Accept(p) \/ PollDone(p) \/ PollFailed(p) \/ PollEnds(p) \/ DreamerDies(p)
  \/ \E j \in Jobs : \E status \in {"completed", "failed"} : JobEnds(j, status)
  \/ \E o \in Openers : ReadState(o) \/ OrphanAnswer(o) \/ Report(o) \/ OpenerEnds(o)
  \/ Age

DNext == DStep /\ high' = IF st'.last > high THEN st'.last ELSE high

DSpec == DInit /\ [][DNext]_dvars

-----------------------------------------------------------------------------
(* Properties.                                                             *)

\* When last_dream_at moves past a piece of a transcript, so that no dream will
\* look for it again, a dream was fed with it, or it lies behind what a dream
\* reads of one transcript, or the request was full, or it was written while that
\* dream was under way (the time recorded is that of the end of the dream, not of
\* its start).  A state written back late may move the time forth again to where
\* it was.
MaterialDreamt ==
  [][\A t \in Talks : \A k \in 1 .. Len(piece[t]) :
       (st.last < piece[t][k] /\ piece[t][k] <= st'.last) =>
         \/ \E j \in Jobs : <<t, k>> \in job[j].food
         \/ k > Cap
         \/ st'.job # NoJob /\ job[st'.job].full
         \/ st'.job # NoJob /\ piece[t][k] > job[st'.job].at
         \/ piece[t][k] <= high
    ]_dvars

\* A result that waits for a window stays until one has read it to report it,
\* unless a new dream begins (the end of a session does not look whether one
\* waits), a window writes back what it had read of another job, or the lock of a
\* worker at work was removed, so that two were dreaming.
ResultShown ==
  [][(st.phase = "done" /\ ~st.consumed /\ st' # st) =>
       \/ st.job \in taken'
       \/ st'.phase = "run" /\ st'.job = NoJob
       \/ \E o \in Openers : /\ window[o].pc # "off" /\ window'[o] # window[o]
                             /\ st.job # window[o].held.job /\ st'.job = window[o].held.job
       \/ lockLost
    ]_dvars
=============================================================================
