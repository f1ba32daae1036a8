----------------------------- MODULE ClaudeHooks -----------------------------
(***************************************************************************)
(* The hooks of the Claude Code plugin that archive a session's transcript *)
(* (plugins/claude-code/hooks).  Every hook is a process of its own; what  *)
(* they share are files: a cursor and a turn counter per session, and one  *)
(* file by which /clear hands a session over to the next one.              *)
(*                                                                         *)
(* Claude Code runs the hooks of a session one after the other, and kills  *)
(* one that takes too long.  The detached flush of a session that ended is *)
(* not killed, and still runs when the session is resumed.                 *)
(***************************************************************************)
EXTENDS Naturals, FiniteSets

CONSTANTS
  Sessions,
  Short,        \* numbers of the messages of less than 100 characters
  Interval,     \* stopFlush.interval
  Procs,        \* bound: hook processes at once
  MaxMessages,  \* bound: messages of each session
  MaxFaults,    \* bound: lost requests, lost answers and killed hooks
  MaxResumes    \* bound: sessions resumed

None     == "none"
Hooks    == {"flush", "clear"}   \* Claude Code waits for them
Detached == {"end", "retry"}

ASSUME ClaudeAssumption ==
  /\ Short \subseteq Nat /\ Interval \in Nat \ {0}
  /\ MaxMessages \in [Sessions -> Nat] /\ MaxFaults \in Nat /\ MaxResumes \in Nat
  /\ None \notin Sessions

VARIABLES
  said,     \* said[s]: messages of the transcript of s
  ended,    \* sessions that ended
  cursor,   \* cursor[s]: the message whose uuid trackers/<s>.txt holds, 0: none
  counter,  \* counter[s]: stop-counter-<s>.json
  pending,  \* pending-clear-flush.json: the session it names, or none
  starts,   \* SessionStart hooks after a /clear that have not run yet
  proc,     \* proc[p]: a hook process and the flush it runs
  sent,     \* sent[s][k]: requests the server has with message k of s
  unsure,   \* unsure[s]: requests of s whose answer nobody used
  raced,    \* sessions that two processes flushed at once
  given,    \* sessions whose tail was given up: a failed flush, a handoff that
            \* went stale, was overwritten or removed by another window
  faults, resumes

claude == <<said, ended, resumes>>
ghosts == <<unsure, raced, given, faults>>
vars   == <<claude, cursor, counter, pending, starts, proc, sent, ghosts>>

NoFile == [session |-> None, there |-> FALSE, stale |-> FALSE]
NoProc == [pc |-> "off", hook |-> "end", session |-> None,
           from |-> 0, upto |-> 0, reached |-> FALSE]

Numbers(s) == 1 .. MaxMessages[s]
Busy(p) == proc[p].pc # "off"

TypeOK ==
  /\ said \in [Sessions -> Nat] /\ (\A s \in Sessions : said[s] <= MaxMessages[s])
  /\ ended \subseteq Sessions
  /\ cursor \in [Sessions -> Nat] /\ counter \in [Sessions -> 0 .. Interval]
  /\ pending \in [session : Sessions \cup {None}, there : BOOLEAN, stale : BOOLEAN]
  /\ pending = NoFile \/ (pending.there /\ pending.session # None)
  /\ starts \in Nat
  /\ proc \in [Procs -> [pc : {"off", "start", "post", "answer"},
                         hook : Hooks \cup Detached, session : Sessions \cup {None},
                         from : Nat, upto : Nat, reached : BOOLEAN]]
  /\ \A p \in Procs : Busy(p) => proc[p].session # None
  /\ DOMAIN sent = Sessions /\ (\A s \in Sessions : sent[s] \in [Numbers(s) -> Nat])
  /\ unsure \in [Sessions -> Nat]
  /\ raced \subseteq Sessions /\ given \subseteq Sessions
  /\ faults \in Nat /\ resumes \in Nat

Init ==
  /\ said = [s \in Sessions |-> 0] /\ ended = {}
  /\ cursor = [s \in Sessions |-> 0] /\ counter = [s \in Sessions |-> 0]
  /\ pending = NoFile /\ starts = 0
  /\ proc = [p \in Procs |-> NoProc]
  /\ sent = [s \in Sessions |-> [k \in Numbers(s) |-> 0]]
  /\ unsure = [s \in Sessions |-> 0]
  /\ raced = {} /\ given = {} /\ faults = 0 /\ resumes = 0

Flushing(s) == {p \in Procs : Busy(p) /\ proc[p].session = s}
\* Claude Code waits for a session's hook before it runs the next.
Waiting(s) == \E p \in Flushing(s) : proc[p].hook \in Hooks

-----------------------------------------------------------------------------
(* Claude Code.                                                            *)

Say(s) ==
  /\ s \notin ended /\ said[s] < MaxMessages[s]
  /\ said' = [said EXCEPT ![s] = @ + 1]
  /\ UNCHANGED <<ended, resumes, cursor, counter, pending, starts, proc, sent, ghosts>>

Resume(s) ==
  /\ s \in ended /\ resumes < MaxResumes
  /\ ended' = ended \ {s} /\ resumes' = resumes + 1
  /\ UNCHANGED <<said, cursor, counter, pending, starts, proc, sent, ghosts>>

-----------------------------------------------------------------------------
(* flushSessionIngest: the cursor and the transcript are read together;    *)
(* the request and its answer are steps of their own.                      *)

New(s) == (cursor[s] + 1) .. said[s]

\* Fault: the process is not told which session to flush.
LaunchNobody(p, hook, s) ==
  /\ ~Busy(p)
  /\ proc' = [proc EXCEPT ![p] = [NoProc EXCEPT !.pc = "start", !.hook = hook]]

\* A process that is to flush session s with nobody's cursor read yet.
Launch(p, hook, s) ==
  /\ ~Busy(p)
  /\ proc' = [proc EXCEPT ![p] = [NoProc EXCEPT !.pc = "start", !.hook = hook, !.session = s]]

\* What follows a flush that read the transcript up to message k.  A
\* SessionStart that could not flush the handed over session leaves it to a
\* detached process; either removes the file when it is through, whichever
\* session the file names by then.
Finish(p, ok, k) ==
  LET q == proc[p] IN
  /\ proc' = [proc EXCEPT ![p] =
       IF q.hook = "clear" /\ ~ok
       THEN [NoProc EXCEPT !.pc = "start", !.hook = "retry", !.session = q.session]
       ELSE NoProc]
  /\ pending' = IF q.hook \in {"clear", "retry"} /\ ok THEN NoFile ELSE pending
  /\ given' = given \cup
       (IF pending' = pending \/ (pending.session = q.session /\ k = said[q.session])
        THEN {} ELSE {pending.session})
       \cup (IF ok \/ q.hook = "clear" THEN {} ELSE {q.session})

\* Nothing new, or only fragments: the cursor moves on without a request.
FlushNothing(p) ==
  LET s == proc[p].session IN
  /\ proc[p].pc = "start" /\ New(s) \subseteq Short
  /\ cursor' = [cursor EXCEPT ![s] = IF New(s) = {} THEN @ ELSE said[s]]
  /\ Finish(p, TRUE, said[s])
  /\ UNCHANGED <<claude, counter, starts, sent, unsure, raced, faults>>

FlushRead(p) ==
  LET s == proc[p].session IN
  /\ proc[p].pc = "start" /\ ~(New(s) \subseteq Short)
  /\ proc' = [proc EXCEPT ![p].pc = "post", ![p].from = cursor[s] + 1, ![p].upto = said[s]]
  /\ raced' = IF \E q \in Flushing(s) : proc[q].pc \in {"post", "answer"}
              THEN raced \cup {s} ELSE raced
  /\ UNCHANGED <<claude, cursor, counter, pending, starts, sent, unsure, given, faults>>

\* The server has the messages, or the request was lost.
FlushPost(p, reached) ==
  LET q == proc[p] IN
  /\ q.pc = "post"
  /\ IF reached THEN UNCHANGED faults ELSE faults < MaxFaults /\ faults' = faults + 1
  /\ sent' = IF ~reached THEN sent
             ELSE [sent EXCEPT ![q.session] = [k \in Numbers(q.session) |->
                    @[k] + IF k \in q.from .. q.upto /\ k \notin Short THEN 1 ELSE 0]]
  /\ proc' = [proc EXCEPT ![p].pc = "answer", ![p].reached = reached]
  /\ UNCHANGED <<claude, cursor, counter, pending, starts, unsure, raced, given>>

\* Fault: the cursor moves whatever the status was.
AdvanceAnyway(p, ok) ==
  LET s == proc[p].session IN
  cursor' = [cursor EXCEPT ![s] = proc[p].upto]

\* Fault: the cursor stays.
AdvanceNever(p, ok) == UNCHANGED cursor

\* 2xx: the cursor is set to the last message of the request, wherever it is
\* by now.  Otherwise it stays.
Advance(p, ok) ==
  LET s == proc[p].session IN
  cursor' = IF ok THEN [cursor EXCEPT ![s] = proc[p].upto] ELSE cursor

FlushAnswer(p, ok) ==
  LET q == proc[p] IN
  /\ q.pc = "answer" /\ (ok => q.reached)
  /\ IF q.reached /\ ~ok THEN faults < MaxFaults /\ faults' = faults + 1 ELSE UNCHANGED faults
  /\ Advance(p, ok)
  /\ unsure' = IF q.reached /\ ~ok THEN [unsure EXCEPT ![q.session] = @ + 1] ELSE unsure
  /\ Finish(p, ok, q.upto)
  /\ UNCHANGED <<claude, counter, starts, sent, raced>>

\* Claude Code's time limit for a hook is that of its request.
Kill(p) ==
  LET q == proc[p] IN
  /\ Busy(p) /\ q.hook \in Hooks /\ faults < MaxFaults
  /\ faults' = faults + 1
  /\ proc' = [proc EXCEPT ![p] = NoProc]
  /\ unsure' = IF q.reached THEN [unsure EXCEPT ![q.session] = @ + 1] ELSE unsure
  /\ given' = IF q.hook = "clear" THEN given \cup {q.session} ELSE given
  /\ UNCHANGED <<claude, cursor, counter, pending, starts, sent, raced>>

-----------------------------------------------------------------------------
(* The hooks.                                                              *)

\* Every Interval-th turn is flushed; the counter restarts before the flush.
Stop(p, s) ==
  /\ s \notin ended /\ ~Waiting(s)
  /\ \/ /\ counter[s] + 1 < Interval
        /\ counter' = [counter EXCEPT ![s] = @ + 1]
        /\ UNCHANGED proc
     \/ /\ counter[s] + 1 >= Interval
        /\ counter' = [counter EXCEPT ![s] = 0]
        /\ Launch(p, "flush", s)
  /\ UNCHANGED <<claude, cursor, pending, starts, sent, ghosts>>

\* PreCompact and PostCompact.  (PostCompact then sends the summary, once and
\* without a cursor.)
Compact(p, s) ==
  /\ s \notin ended /\ ~Waiting(s)
  /\ Launch(p, "flush", s)
  /\ UNCHANGED <<claude, cursor, counter, pending, starts, sent, ghosts>>

\* SessionEnd: a detached process flushes what is left.
SessionEnd(p, s) ==
  /\ s \notin ended /\ ~Waiting(s)
  /\ ended' = ended \cup {s}
  /\ Launch(p, "end", s)
  /\ UNCHANGED <<said, resumes, cursor, counter, pending, starts, sent, ghosts>>

\* Fault: a handoff that is there is kept.
HandOffKept(s) == pending' = IF pending.there THEN pending
                             ELSE [session |-> s, there |-> TRUE, stale |-> FALSE]

HandOff(s) == pending' = [session |-> s, there |-> TRUE, stale |-> FALSE]

\* SessionEnd after /clear: the old session is handed over to the SessionStart
\* of the new one, by a file that all windows share.
SessionClear(s) ==
  /\ s \notin ended /\ ~Waiting(s)
  /\ ended' = ended \cup {s} /\ starts' = starts + 1
  /\ HandOff(s)
  /\ given' = IF pending.there THEN given \cup {pending.session} ELSE given
  /\ UNCHANGED <<said, resumes, cursor, counter, proc, sent, unsure, raced, faults>>

\* A handoff older than a minute is not read any more.
Stale ==
  /\ pending.there /\ ~pending.stale /\ faults < MaxFaults
  /\ faults' = faults + 1
  /\ pending' = [pending EXCEPT !.stale = TRUE]
  /\ given' = given \cup {pending.session}
  /\ UNCHANGED <<claude, cursor, counter, starts, proc, sent, unsure, raced>>

\* SessionStart after /clear.
SessionStart(p) ==
  /\ starts > 0 /\ starts' = starts - 1
  /\ IF pending.there /\ ~pending.stale THEN Launch(p, "clear", pending.session)
     ELSE UNCHANGED proc
  /\ UNCHANGED <<claude, cursor, counter, pending, sent, ghosts>>

-----------------------------------------------------------------------------
Next ==
  \/ Stale
  \/ \E s \in Sessions : Say(s) \/ Resume(s) \/ SessionClear(s)
  \/ \E p \in Procs :
       \/ FlushNothing(p) \/ FlushRead(p) \/ Kill(p) \/ SessionStart(p)
       \/ \E b \in BOOLEAN : FlushPost(p, b) \/ FlushAnswer(p, b)
       \/ \E s \in Sessions :
            Stop(p, s) \/ Compact(p, s) \/ SessionEnd(p, s)

Spec == Init /\ [][Next]_vars

-----------------------------------------------------------------------------
(* Properties.                                                             *)

Got == [s \in Sessions |-> {k \in Numbers(s) : sent[s][k] > 0}]

\* flushSessionIngest delivers at least once: whatever hooks overlap, are
\* killed or fail, the cursor never passes a message that the server lacks.
Contract == INSTANCE Delivery WITH got <- Got, mark <- cursor
Delivers == Contract!Spec

\* A message is sent again only after an answer that nobody used, or when two
\* processes flushed its session at once.
ResentNeedsCause ==
  \A s \in Sessions \ raced : \A k \in Numbers(s) : sent[s][k] <= 1 + unsure[s]

\* When nothing runs any more, an ended session is at the server up to its
\* last word, unless its last flush failed or was killed, or another window's
\* /clear replaced or removed its handoff.
TailDelivered ==
  (starts = 0 /\ \A p \in Procs : ~Busy(p)) =>
    \A s \in ended \ given : \A k \in Numbers(s) :
      k <= said[s] /\ k \notin Short => sent[s][k] > 0
=============================================================================
