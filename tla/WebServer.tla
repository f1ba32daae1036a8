------------------------------- MODULE WebServer -------------------------------
(***************************************************************************)
(* The web server of the plugins: one port of the machine, on which        *)
(*  - an opencode process serves from within, or watches in order to take  *)
(*    the port over (plugins/opencode/src/web-server.ts),                  *)
(*  - a daemon serves that Claude Code's SessionStart starts after it has  *)
(*    killed the one before, and that leaves when no window of Claude Code *)
(*    lives (plugins/claude-code/scripts/web-server.mjs),                  *)
(*  - a daemon of ZCode serves, started when a turn finds no server, that  *)
(*    leaves when nobody asks it anything (plugins/zcode/web-server.js).   *)
(* What they serve is static.                                              *)
(***************************************************************************)
EXTENDS Naturals, FiniteSets

CONSTANTS
  OCs,         \* opencode processes
  Windows,     \* Claude Code processes
  Sids,        \* session ids of Claude Code
  SidsOf,      \* SidsOf[w]: the sessions that window w may show (bound)
  Daemons,     \* slots for daemon processes (bound)
  MaxRetries,  \* TAKEOVER_MAX_RETRIES
  MaxVisits    \* bound: turns of ZCode and visits to the page

Nobody  == "nobody"
Foreign == "foreign"    \* a program that is not cerebro's

ASSUME WebAssumption ==
  /\ OCs \cap Daemons = {}
  /\ {Nobody, Foreign} \cap (OCs \cup Windows \cup Daemons) = {}
  /\ \A w \in Windows : SidsOf[w] \subseteq Sids /\ SidsOf[w] # {}

VARIABLES
  port,       \* who listens
  oc,         \* oc[o]: off, owner, watch, jitter, take, gaveup
  retries,    \* takeoverRetries
  daemon,     \* daemon[d]
  pidFile,    \* web-server.pid
  open,       \* windows that live: the process table
  hook,       \* hook[w]: SessionStart of w: off, wait
  sidOf,      \* sidOf[w]: the session of w
  live,       \* live[s]: the process named in sessions/<s>.live
  visits,
  unlisted,   \* windows that no .live file stands for, with a cause
  excused     \* whoever served last left of its own accord

daemons == <<daemon, pidFile>>
windows == <<open, hook, sidOf, live, unlisted>>
watchers == <<oc, retries>>
wvars == <<port, watchers, daemons, windows, visits, excused>>

FirstSid(w) == CHOOSE s \in SidsOf[w] : TRUE
NoDaemon == [kind |-> "none", pc |-> "none", idle |-> FALSE, zero |-> FALSE, by |-> {}]

WInit ==
  /\ port \in {Nobody, Foreign}
  /\ oc = [o \in OCs |-> "off"] /\ retries = [o \in OCs |-> 0]
  /\ daemon = [d \in Daemons |-> NoDaemon] /\ pidFile = Nobody
  /\ open = {} /\ hook = [w \in Windows |-> "off"]
  /\ sidOf = [w \in Windows |-> FirstSid(w)]
  /\ live = [s \in Sids |-> Nobody]
  /\ visits = 0 /\ unlisted = {} /\ excused = TRUE

Serving  == port \notin {Nobody, Foreign}     \* /health says cerebro
Watching == \E o \in OCs : oc[o] \in {"watch", "jitter"}

\* Any request tells a daemon that it is in use.
Asked == IF port \in Daemons THEN [daemon EXCEPT ![port].idle = FALSE] ELSE daemon

-----------------------------------------------------------------------------
(* opencode.                                                               *)

\* startWebServer: a server that is there is used, and watched.
OcStart(o) ==
  /\ oc[o] = "off" /\ daemon' = Asked
  /\ oc' = [oc EXCEPT ![o] = IF Serving THEN "watch" ELSE "take"]
  /\ UNCHANGED <<port, retries, pidFile, windows, visits, excused>>

\* The timer: a probe; without a server a pause and a second probe.
Tick(o) ==
  /\ oc[o] = "watch" /\ daemon' = Asked
  /\ IF Serving THEN retries' = [retries EXCEPT ![o] = 0] /\ UNCHANGED oc
     ELSE /\ retries' = [retries EXCEPT ![o] = @ + 1]
          /\ oc' = [oc EXCEPT ![o] = IF retries[o] < MaxRetries THEN "jitter" ELSE "gaveup"]
  /\ UNCHANGED <<port, pidFile, windows, visits, excused>>

Jitter(o) ==
  /\ oc[o] = "jitter" /\ daemon' = Asked
  /\ oc' = [oc EXCEPT ![o] = IF Serving THEN "watch" ELSE "take"]
  /\ retries' = IF Serving THEN [retries EXCEPT ![o] = 0] ELSE retries
  /\ UNCHANGED <<port, pidFile, windows, visits, excused>>

\* Fault: the timer is cleared whether the port was got or not.
GivesUp(o) == "gaveup"
BindFailed(o) == "watch"

\* tryBind, at the start and at the end of a takeover.
Bind(o) ==
  /\ oc[o] = "take"
  /\ IF port = Nobody
     THEN port' = o /\ oc' = [oc EXCEPT ![o] = "owner"] /\ retries' = [retries EXCEPT ![o] = 0]
     ELSE oc' = [oc EXCEPT ![o] = BindFailed(o)] /\ UNCHANGED <<port, retries>>
  /\ UNCHANGED <<daemons, windows, visits, excused>>

\* shutdown, or the process dies: its listening socket goes with it.
OcExit(o) ==
  /\ oc[o] # "off" /\ oc' = [oc EXCEPT ![o] = "off"]
  /\ retries' = [retries EXCEPT ![o] = 0]
  /\ IF port = o THEN port' = Nobody /\ excused' = TRUE ELSE UNCHANGED <<port, excused>>
  /\ UNCHANGED <<daemons, windows, visits>>

-----------------------------------------------------------------------------
(* Windows of Claude Code and their hooks.                                 *)

\* killStaleWebServer, the first thing that SessionStart does: the occupant of
\* the port and the process of the pid file are told to end, if they are daemons.
KillStale(w) ==
  /\ hook' = [hook EXCEPT ![w] = "wait"]
  /\ daemon' = [d \in Daemons |->
       IF d \in {port, pidFile} /\ daemon[d].pc \in {"serving", "closing"}
       THEN [daemon[d] EXCEPT !.pc = "closing", !.by = @ \cup {w}] ELSE daemon[d]]

OpenWindow(w, s) ==
  /\ w \notin open /\ open' = open \cup {w}
  /\ sidOf' = [sidOf EXCEPT ![w] = s] /\ KillStale(w)
  /\ UNCHANGED <<port, watchers, pidFile, live, unlisted, visits, excused>>

\* removeLive unlinks the file of the session, whichever window wrote it.
RemoveLive(w) ==
  /\ live' = [live EXCEPT ![sidOf[w]] = Nobody]
  /\ unlisted' = (unlisted \cup ({live[sidOf[w]]} \cap open)) \ {w}

\* writeLive: the file of the session names the process of its window.
WriteLive(w) ==
  /\ live' = [live EXCEPT ![sidOf[w]] = w]
  /\ unlisted' = (unlisted \cup ({live[sidOf[w]]} \cap open)) \ {w}

\* A compaction or a resume starts the session again, a clear another one.
Restart(w, s) ==
  /\ w \in open /\ hook[w] = "off" /\ KillStale(w)
  /\ IF s = sidOf[w] THEN UNCHANGED <<live, unlisted>> ELSE RemoveLive(w)
  /\ sidOf' = [sidOf EXCEPT ![w] = s]
  /\ UNCHANGED <<port, watchers, pidFile, open, visits, excused>>

\* A window is closed in order, or its terminal is killed and the file stays;
\* a hook that runs goes with it.
CloseWindow(w, inOrder) ==
  /\ w \in open /\ open' = open \ {w} /\ hook' = [hook EXCEPT ![w] = "off"]
  /\ IF inOrder THEN RemoveLive(w)
     ELSE unlisted' = unlisted \ {w} /\ UNCHANGED live
  /\ sidOf' = [sidOf EXCEPT ![w] = FirstSid(w)]
  /\ excused' = (excused \/ hook[w] # "off")
  /\ UNCHANGED <<port, watchers, daemons, visits>>

HookDies(w) ==
  /\ hook[w] # "off" /\ hook' = [hook EXCEPT ![w] = "off"]
  /\ unlisted' = unlisted \cup {w} /\ excused' = TRUE
  /\ UNCHANGED <<port, watchers, daemons, open, sidOf, live, visits>>

Free(d, kind) ==
  /\ daemon[d] = NoDaemon
  /\ daemon' = [daemon EXCEPT ![d].kind = kind, ![d].pc = "starting"]

\* Fault: the new daemon is started without waiting for the old one to go.
AtOnce(w) == TRUE

\* What was killed is gone after 500 ms at the latest, the hook waits 700.
Waited(w) == \A d \in Daemons : w \notin daemon[d].by

Spawn(w) ==
  /\ hook[w] = "wait" /\ Waited(w)
  /\ \E d \in Daemons : Free(d, "cc")
  /\ hook' = [hook EXCEPT ![w] = "off"] /\ WriteLive(w)
  /\ UNCHANGED <<port, watchers, pidFile, open, sidOf, visits, excused>>

-----------------------------------------------------------------------------
(* Daemons.                                                                *)

Listen(d) ==
  /\ daemon[d].pc = "starting"
  /\ IF port = Nobody
     THEN /\ port' = d /\ daemon' = [daemon EXCEPT ![d].pc = "serving"]
          /\ pidFile' = IF daemon[d].kind = "cc" THEN d ELSE pidFile
          /\ excused' = FALSE
     ELSE daemon' = [daemon EXCEPT ![d] = NoDaemon] /\ UNCHANGED <<port, pidFile, excused>>
  /\ UNCHANGED <<watchers, windows, visits>>

\* The process ends; one of Claude Code's that ends in order unlinks the file.
Leave(d, unlinks) ==
  /\ daemon' = [daemon EXCEPT ![d] = NoDaemon]
  /\ port' = IF port = d THEN Nobody ELSE port
  /\ pidFile' = IF unlinks THEN Nobody ELSE pidFile

Gone(d, inOrder) ==
  /\ daemon[d].pc = "closing" /\ Leave(d, inOrder /\ daemon[d].kind = "cc")
  /\ UNCHANGED <<watchers, windows, visits, excused>>

\* Nobody asked for IDLE_MS; who watches asks every five seconds.
FallIdle(d) ==
  /\ daemon[d].pc = "serving" /\ ~daemon[d].idle /\ ~Watching
  /\ daemon' = [daemon EXCEPT ![d].idle = TRUE]
  /\ UNCHANGED <<port, watchers, pidFile, windows, visits, excused>>

\* Fault: every .live file counts, whether its process lives or not.
AllFiles == {s \in Sids : live[s] # Nobody}
Alive == {s \in Sids : live[s] \in open}

\* The files of dead processes are swept.  At the second time without a window
\* and without traffic the daemon leaves.
Watchdog(d) ==
  /\ daemon[d].pc = "serving" /\ daemon[d].kind = "cc"
  /\ live' = [s \in Sids |-> IF s \in Alive THEN live[s] ELSE Nobody]
  /\ IF Alive # {} \/ ~daemon[d].idle
     THEN daemon' = [daemon EXCEPT ![d].zero = FALSE] /\ UNCHANGED <<port, pidFile, excused>>
     ELSE IF ~daemon[d].zero
     THEN daemon' = [daemon EXCEPT ![d].zero = TRUE] /\ UNCHANGED <<port, pidFile, excused>>
     ELSE /\ Leave(d, TRUE)
          /\ excused' = \A w \in open : w \in unlisted \/ hook[w] # "off"
  /\ UNCHANGED <<watchers, open, hook, sidOf, unlisted, visits>>

IdleExit(d) ==
  /\ daemon[d].pc = "serving" /\ daemon[d].kind = "zc" /\ daemon[d].idle
  /\ Leave(d, FALSE) /\ excused' = TRUE
  /\ UNCHANGED <<watchers, windows, visits>>

-----------------------------------------------------------------------------
(* The rest of the machine.                                                *)

\* A start or the end of a turn of ZCode: a ping that is answered is traffic.
ZcodeTurn ==
  /\ visits < MaxVisits /\ visits' = visits + 1
  /\ IF Serving THEN daemon' = Asked ELSE \E d \in Daemons : Free(d, "zc")
  /\ UNCHANGED <<port, watchers, pidFile, windows, excused>>

Browse ==
  /\ visits < MaxVisits /\ visits' = visits + 1
  /\ Serving /\ daemon' = Asked
  /\ UNCHANGED <<port, watchers, pidFile, windows, excused>>

ForeignLeaves ==
  /\ port = Foreign /\ port' = Nobody /\ excused' = TRUE
  /\ UNCHANGED <<watchers, daemons, windows, visits>>

OcStep(o) == Tick(o) \/ Jitter(o) \/ Bind(o)
DaemonStep(d) == Listen(d) \/ Watchdog(d) \/ IdleExit(d)
                 \/ \E inOrder \in BOOLEAN : Gone(d, inOrder)

WNext ==
  \/ \E o \in OCs : OcStart(o) \/ OcStep(o) \/ OcExit(o)
  \/ \E w \in Windows :
       \/ Spawn(w) \/ HookDies(w)
       \/ \E s \in SidsOf[w] : OpenWindow(w, s) \/ Restart(w, s)
       \/ \E inOrder \in BOOLEAN : CloseWindow(w, inOrder)
  \/ \E d \in Daemons : DaemonStep(d) \/ FallIdle(d)
  \/ ZcodeTurn \/ Browse \/ ForeignLeaves

\* Timers fire, processes run, and time passes.
WFair ==
  /\ \A o \in OCs : WF_wvars(OcStep(o))
  /\ \A w \in Windows : WF_wvars(Spawn(w))
  /\ \A d \in Daemons : WF_wvars(DaemonStep(d)) /\ WF_wvars(FallIdle(d))

WSpec == WInit /\ [][WNext]_wvars /\ WFair

-----------------------------------------------------------------------------
(* Properties.                                                             *)

\* While an opencode process runs, the port does not stay free: the process
\* that watches takes it over, unless it failed MaxRetries times in a row.
PortTakenOver ==
  \A o \in OCs : (oc[o] # "off") ~> (port # Nobody \/ oc[o] = "off" \/ retries[o] > MaxRetries)

\* Once no window of Claude Code and no opencode process is left, and the page
\* is not visited, every daemon ends, killed terminals included.
DaemonsLeave ==
  <>[](open = {} /\ \A o \in OCs : oc[o] = "off") => <>[](\A d \in Daemons : daemon[d] = NoDaemon)

\* A window whose SessionStart is over is served.  The daemon's own exit is no
\* excuse as long as a .live file should stand for the window; that another
\* holder of the port left, or that a hook died halfway, is one.
WindowsServed ==
  (\E w \in open : hook[w] = "off") =>
    \/ port # Nobody \/ excused
    \/ \E d \in Daemons : daemon[d].pc = "starting"
    \/ \E w \in open : hook[w] # "off"
=============================================================================
