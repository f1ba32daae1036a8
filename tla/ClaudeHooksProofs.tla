-------------------------- MODULE ClaudeHooksProofs --------------------------
(***************************************************************************)
(* Proofs about the Claude Code plugin.  ClaudeHooks, for any sessions,    *)
(* processes and bounds: the types, that the cursor never passes a message *)
(* the server lacks, that the hooks implement the delivery contract, that  *)
(* a message is sent again only for a cause, and that an ended session is  *)
(* delivered to its end.  Dreams and ApplyDream, for any transcripts,      *)
(* workers, jobs, files and archives: what is dreamt of, which results are *)
(* shown, and which files a merge writes and removes.                      *)
(***************************************************************************)
EXTENDS ClaudeHooks, Dreams, ApplyDream, TLAPS

USE DEF Contract!Kept

Kinds == [pc : {"off", "start", "post", "answer"},
          hook : Hooks \cup Detached, session : Sessions \cup {None},
          from : Nat, upto : Nat, reached : BOOLEAN]

(* A process that is launched has a session and the type of a process. *)
LEMMA LaunchType ==
  ASSUME TypeOK, NEW p \in Procs, NEW hook \in Hooks \cup Detached, NEW s \in Sessions,
         Launch(p, hook, s)
  PROVE  /\ proc' \in [Procs -> Kinds]
         /\ \A q \in Procs : proc'[q].pc # "off" => proc'[q].session # None
BY ClaudeAssumption DEF TypeOK, Launch, NoProc, Kinds, Busy

(* What follows a flush keeps the types of processes, handoff and ghosts. *)
LEMMA FinishType ==
  ASSUME TypeOK, NEW p \in Procs, NEW ok \in BOOLEAN, NEW k \in Nat, Busy(p),
         Finish(p, ok, k)
  PROVE  /\ proc' \in [Procs -> Kinds]
         /\ \A q \in Procs : proc'[q].pc # "off" => proc'[q].session # None
         /\ pending' \in [session : Sessions \cup {None}, there : BOOLEAN, stale : BOOLEAN]
         /\ pending' = NoFile \/ (pending'.there /\ pending'.session # None)
         /\ given' \subseteq Sessions
<1>1. proc[p] \in Kinds /\ proc[p].session \in Sessions
  BY DEF TypeOK, Kinds, Busy
<1>2. /\ proc' \in [Procs -> Kinds]
      /\ \A q \in Procs : proc'[q].pc # "off" => proc'[q].session # None
  BY <1>1, ClaudeAssumption DEF TypeOK, Finish, NoProc, Kinds, Busy, Hooks, Detached
<1>3. pending' = NoFile \/ pending' = pending
  BY DEF Finish
<1>4. pending # pending' => pending.session \in Sessions
  BY <1>3 DEF TypeOK, NoFile
<1>5. given' \subseteq Sessions
  <2>1. (IF pending' = pending \/ (pending.session = proc[p].session /\ k = said[proc[p].session])
         THEN {} ELSE {pending.session}) \subseteq Sessions
    BY <1>4
  <2>2. QED  BY <1>1, <2>1 DEF Finish, TypeOK
<1>6. pending' \in [session : Sessions \cup {None}, there : BOOLEAN, stale : BOOLEAN]
  <2>1. NoFile \in [session : Sessions \cup {None}, there : BOOLEAN, stale : BOOLEAN]
    BY DEF NoFile
  <2>2. pending \in [session : Sessions \cup {None}, there : BOOLEAN, stale : BOOLEAN]
    BY DEF TypeOK
  <2>3. QED  BY <1>3, <2>1, <2>2
<1>7. pending' = NoFile \/ (pending'.there /\ pending'.session # None)
  BY <1>3 DEF TypeOK
<1>8. QED  BY <1>2, <1>5, <1>6, <1>7

(* Every step keeps the types. *)
LEMMA TypeStep ==
  ASSUME TypeOK, Next
  PROVE  TypeOK'
<1> USE ClaudeAssumption DEF Kinds
<1>1. CASE Stale
  <2>1. pending' \in [session : Sessions \cup {None}, there : BOOLEAN, stale : BOOLEAN]
    BY <1>1 DEF TypeOK, Stale
  <2>2. pending'.there /\ pending'.session # None
    BY <1>1 DEF TypeOK, Stale, NoFile
  <2>3. given' \subseteq Sessions
    BY <1>1 DEF TypeOK, Stale, NoFile
  <2>4. /\ faults' = faults + 1
        /\ UNCHANGED <<claude, cursor, counter, starts, proc, sent, unsure, raced>>
    BY <1>1 DEF Stale
  <2>5. QED  BY <2>1, <2>2, <2>3, <2>4 DEF TypeOK, claude, Busy, Numbers
<1>2. ASSUME NEW s \in Sessions, Say(s)  PROVE TypeOK'
  BY <1>2 DEF TypeOK, Say, Busy, Numbers, ghosts
<1>3. ASSUME NEW s \in Sessions, Resume(s)  PROVE TypeOK'
  BY <1>3 DEF TypeOK, Resume, Busy, Numbers, ghosts
<1>4. ASSUME NEW s \in Sessions, SessionClear(s)  PROVE TypeOK'
  <2>1. pending' \in [session : Sessions \cup {None}, there : BOOLEAN, stale : BOOLEAN]
    BY <1>4 DEF SessionClear, HandOff
  <2>2. pending'.there /\ pending'.session # None
    BY <1>4 DEF SessionClear, HandOff
  <2>3. given' \subseteq Sessions
    BY <1>4 DEF TypeOK, SessionClear, NoFile
  <2>4. /\ ended' \subseteq Sessions /\ starts' = starts + 1
        /\ UNCHANGED <<said, resumes, cursor, counter, proc, sent, unsure, raced, faults>>
    BY <1>4 DEF TypeOK, SessionClear
  <2>5. QED  BY <2>1, <2>2, <2>3, <2>4 DEF TypeOK, Busy, Numbers
<1>5. ASSUME NEW p \in Procs, FlushNothing(p)  PROVE TypeOK'
  <2>1. proc[p].session \in Sessions /\ Busy(p) /\ said[proc[p].session] \in Nat
    BY <1>5 DEF TypeOK, FlushNothing, Busy
  <2>2. Finish(p, TRUE, said[proc[p].session])
    BY <1>5 DEF FlushNothing
  <2>3. cursor' \in [Sessions -> Nat]
    BY <1>5, <2>1 DEF TypeOK, FlushNothing
  <2>4. QED  BY <1>5, <2>1, <2>2, <2>3, FinishType DEF TypeOK, FlushNothing, claude, Busy, Numbers
<1>6. ASSUME NEW p \in Procs, FlushRead(p)  PROVE TypeOK'
  <2>1. proc[p].session \in Sessions
    BY <1>6 DEF TypeOK, FlushRead, Busy
  <2>2. proc' \in [Procs -> Kinds] /\ \A q \in Procs : proc'[q].pc # "off" => proc'[q].session # None
    <3> DEFINE q == [proc[p] EXCEPT !.pc = "post", !.from = cursor[proc[p].session] + 1,
                                    !.upto = said[proc[p].session]]
    <3>1. proc[p] \in Kinds  BY DEF TypeOK
    <3>2. cursor[proc[p].session] + 1 \in Nat /\ said[proc[p].session] \in Nat
      BY <2>1 DEF TypeOK
    <3>3. q \in Kinds /\ q.session = proc[p].session
      BY <3>1, <3>2
    <3>4. proc' = [proc EXCEPT ![p] = q]
      BY <1>6 DEF FlushRead
    <3> HIDE DEF q
    <3>5. QED  BY <2>1, <3>3, <3>4 DEF TypeOK, Busy
  <2>3. raced' \subseteq Sessions
    BY <1>6, <2>1 DEF TypeOK, FlushRead
  <2>4. QED  BY <1>6, <2>2, <2>3 DEF TypeOK, FlushRead, claude, Busy, Numbers
<1>7. ASSUME NEW p \in Procs, NEW b \in BOOLEAN, FlushPost(p, b)  PROVE TypeOK'
  <2>1. proc[p].session \in Sessions
    BY <1>7 DEF TypeOK, FlushPost, Busy
  <2>2. proc' \in [Procs -> Kinds] /\ \A q \in Procs : proc'[q].pc # "off" => proc'[q].session # None
    <3> DEFINE q == [proc[p] EXCEPT !.pc = "answer", !.reached = b]
    <3>1. proc[p] \in Kinds  BY DEF TypeOK
    <3>2. q \in Kinds /\ q.session = proc[p].session
      BY <3>1
    <3>3. proc' = [proc EXCEPT ![p] = q]
      BY <1>7 DEF FlushPost
    <3> HIDE DEF q
    <3>4. QED  BY <2>1, <3>2, <3>3 DEF TypeOK, Busy
  <2>3. DOMAIN sent' = Sessions /\ \A s \in Sessions : sent'[s] \in [Numbers(s) -> Nat]
    BY <1>7, <2>1 DEF TypeOK, FlushPost
  <2>4. faults' \in Nat
    BY <1>7 DEF TypeOK, FlushPost
  <2>5. QED  BY <1>7, <2>2, <2>3, <2>4 DEF TypeOK, FlushPost, claude, Busy, Numbers
<1>8. ASSUME NEW p \in Procs, NEW b \in BOOLEAN, FlushAnswer(p, b)  PROVE TypeOK'
  <2>1. proc[p] \in Kinds /\ proc[p].session \in Sessions /\ Busy(p)
    BY <1>8 DEF TypeOK, FlushAnswer, Busy
  <2>2. Finish(p, b, proc[p].upto) /\ proc[p].upto \in Nat
    BY <1>8, <2>1 DEF FlushAnswer
  <2>3. cursor' \in [Sessions -> Nat]
    BY <1>8, <2>1 DEF TypeOK, FlushAnswer, Advance
  <2>4. unsure' \in [Sessions -> Nat] /\ faults' \in Nat
    BY <1>8, <2>1 DEF TypeOK, FlushAnswer
  <2>5. UNCHANGED <<claude, counter, starts, sent, raced>>
    BY <1>8 DEF FlushAnswer
  <2>6. /\ proc' \in [Procs -> Kinds]
        /\ \A q \in Procs : proc'[q].pc # "off" => proc'[q].session # None
        /\ pending' \in [session : Sessions \cup {None}, there : BOOLEAN, stale : BOOLEAN]
        /\ pending' = NoFile \/ (pending'.there /\ pending'.session # None)
        /\ given' \subseteq Sessions
    BY <2>1, <2>2, FinishType
  <2>7. QED  BY <2>3, <2>4, <2>5, <2>6 DEF TypeOK, claude, Busy, Numbers
<1>9. ASSUME NEW p \in Procs, Kill(p)  PROVE TypeOK'
  <2>1. proc[p].session \in Sessions
    BY <1>9 DEF TypeOK, Kill, Busy
  <2>2. proc' \in [Procs -> Kinds] /\ \A q \in Procs : proc'[q].pc # "off" => proc'[q].session # None
    BY <1>9, <2>1 DEF TypeOK, Kill, Busy, NoProc, Detached
  <2>3. unsure' \in [Sessions -> Nat] /\ faults' \in Nat
    BY <1>9, <2>1 DEF TypeOK, Kill
  <2>4. given' \subseteq Sessions
    BY <1>9, <2>1 DEF TypeOK, Kill
  <2>5. QED  BY <1>9, <2>2, <2>3, <2>4 DEF TypeOK, Kill, claude, Busy, Numbers
<1>10. ASSUME NEW p \in Procs, NEW s \in Sessions, Stop(p, s)  PROVE TypeOK'
  <2>1. counter' \in [Sessions -> 0 .. Interval]
    <3>1. counter \in [Sessions -> 0 .. Interval] /\ Interval \in Nat \ {0}
      BY DEF TypeOK, ClaudeAssumption
    <3>2. CASE counter[s] + 1 < Interval /\ counter' = [counter EXCEPT ![s] = @ + 1]
      <4>1. counter[s] + 1 \in 0 .. Interval
        BY <3>1, <3>2
      <4> QED  BY <3>1, <3>2, <4>1
    <3>3. CASE counter' = [counter EXCEPT ![s] = 0]
      BY <3>1, <3>3
    <3> QED  BY <1>10, <3>2, <3>3 DEF Stop
  <2>2. proc' \in [Procs -> Kinds] /\ \A q \in Procs : proc'[q].pc # "off" => proc'[q].session # None
    <3>1. CASE UNCHANGED proc  BY <3>1 DEF TypeOK, Busy
    <3>2. CASE Launch(p, "flush", s)  BY <3>2, LaunchType DEF Hooks
    <3>3. QED  BY <1>10, <3>1, <3>2 DEF Stop
  <2>3. QED  BY <1>10, <2>1, <2>2 DEF TypeOK, Stop, claude, ghosts, Busy, Numbers
<1>11. ASSUME NEW p \in Procs, NEW s \in Sessions, Compact(p, s)  PROVE TypeOK'
  <2>1. "flush" \in Hooks \cup Detached  BY DEF Hooks
  <2>2. QED  BY <1>11, <2>1, LaunchType DEF TypeOK, Compact, claude, ghosts, Busy, Numbers
<1>12. ASSUME NEW p \in Procs, NEW s \in Sessions, SessionEnd(p, s)  PROVE TypeOK'
  <2>1. "end" \in Hooks \cup Detached  BY DEF Detached
  <2>2. QED  BY <1>12, <2>1, LaunchType DEF TypeOK, SessionEnd, ghosts, Busy, Numbers
<1>13. ASSUME NEW p \in Procs, SessionStart(p)  PROVE TypeOK'
  <2>1. pending.there => pending.session \in Sessions
    BY DEF TypeOK, NoFile
  <2>2. proc' \in [Procs -> Kinds] /\ \A q \in Procs : proc'[q].pc # "off" => proc'[q].session # None
    <3>1. CASE UNCHANGED proc  BY <3>1 DEF TypeOK, Busy
    <3>2. CASE pending.there /\ Launch(p, "clear", pending.session)
      BY <2>1, <3>2, LaunchType DEF Hooks
    <3>3. QED  BY <1>13, <3>1, <3>2 DEF SessionStart
  <2>3. QED  BY <1>13, <2>2 DEF TypeOK, SessionStart, claude, ghosts, Busy, Numbers
<1>14. QED
  BY <1>1, <1>2, <1>3, <1>4, <1>5, <1>6, <1>7, <1>8, <1>9, <1>10, <1>11, <1>12, <1>13 DEF Next

(* The processes, messages and cursors of every reachable state have their *)
(* types: no process runs a flush without a session.                       *)
THEOREM TypeCorrect == Spec => []TypeOK
<1>1. Init => TypeOK
  BY ClaudeAssumption DEF Init, TypeOK, NoFile, NoProc, Busy, Numbers, Detached
<1>2. TypeOK /\ [Next]_vars => TypeOK'
  <2>1. TypeOK /\ UNCHANGED vars => TypeOK'
    BY DEF TypeOK, vars, claude, ghosts, Busy, Numbers
  <2>2. QED  BY <2>1, TypeStep
<1>3. QED  BY <1>1, <1>2, PTL DEF Spec

-----------------------------------------------------------------------------
(* The inductive invariant: no cursor is past the transcript or past a     *)
(* missing message, nor will it be set there by a request under way.       *)

Behind == \A s \in Sessions : cursor[s] <= said[s]

InFlight(q) == q.pc \in {"post", "answer"}

Flight(q) ==
  /\ q.upto <= said[q.session]
  /\ \A i \in Nat : 0 < i /\ i < q.from => Contract!Kept(q.session, i)
  /\ q.pc = "answer" /\ q.reached =>
       \A i \in 1 .. q.upto : Contract!Kept(q.session, i)

Flights == \A p \in Procs : InFlight(proc[p]) => Flight(proc[p])

IInv == TypeOK /\ Behind /\ Contract!NothingSkipped /\ Flights

(* The messages of a process that flushes are those of a session. *)
LEMMA ProcType ==
  ASSUME TypeOK, NEW p \in Procs, Busy(p)
  PROVE  /\ proc[p].session \in Sessions /\ proc[p].from \in Nat /\ proc[p].upto \in Nat
         /\ cursor[proc[p].session] \in Nat /\ said[proc[p].session] \in Nat
         /\ said[proc[p].session] <= MaxMessages[proc[p].session]
BY DEF TypeOK, Busy

(* Transcripts and what the server has of them only grow. *)
LEMMA Grows ==
  ASSUME TypeOK, Next
  PROVE  \A s \in Sessions : said[s] <= said'[s] /\ Got[s] \subseteq Got'[s]
<1>1. CASE UNCHANGED <<said, sent>>
  BY <1>1 DEF Got, Numbers, TypeOK
<1>2. ASSUME NEW s \in Sessions, Say(s)  PROVE \A r \in Sessions : said[r] <= said'[r] /\ Got[r] \subseteq Got'[r]
  BY <1>2 DEF Say, Got, Numbers, TypeOK
<1>3. ASSUME NEW p \in Procs, NEW b \in BOOLEAN, FlushPost(p, b)
      PROVE \A r \in Sessions : said[r] <= said'[r] /\ Got[r] \subseteq Got'[r]
  <2>1. UNCHANGED said
    BY <1>3 DEF FlushPost, claude
  <2>2. proc[p].session \in Sessions /\ DOMAIN sent = Sessions
    BY <1>3, ProcType DEF FlushPost, Busy, TypeOK
  <2>3. ASSUME NEW r \in Sessions, NEW k \in Numbers(r)
        PROVE sent'[r][k] = sent[r][k] \/ sent'[r][k] = sent[r][k] + 1
    <3>1. sent[r][k] \in Nat  BY DEF TypeOK
    <3>2. CASE r # proc[p].session \/ ~b  BY <1>3, <2>2, <3>2 DEF FlushPost
    <3>3. CASE r = proc[p].session /\ b
      <4>1. sent'[r] = [i \in Numbers(r) |-> sent[r][i] +
              (IF i \in proc[p].from .. proc[p].upto /\ i \notin Short THEN 1 ELSE 0)]
        BY <1>3, <2>2, <3>3 DEF FlushPost
      <4>2. QED  BY <3>1, <4>1
    <3>4. QED  BY <3>2, <3>3
  <2>4. \A r \in Sessions : \A k \in Numbers(r) : sent[r][k] \in Nat
    BY DEF TypeOK
  <2>5. \A r \in Sessions : \A k \in Numbers(r) : sent[r][k] > 0 => sent'[r][k] > 0
    BY <2>3, <2>4
  <2>6. QED  BY <2>1, <2>5 DEF Got, Numbers, TypeOK
<1>4. QED
  BY <1>1, <1>2, <1>3 DEF Next, Stale, Resume, SessionClear, FlushNothing, FlushRead, Kill,
     SessionStart, FlushAnswer, Stop, Compact, SessionEnd, claude

(* A step that leaves the cursors and the requests under way alone. *)
LEMMA QuietStep ==
  ASSUME IInv, Next, UNCHANGED cursor,
         \A p \in Procs : InFlight(proc'[p]) => proc'[p] = proc[p]
  PROVE  IInv'
<1>1. TypeOK'  BY TypeStep DEF IInv
<1>2. \A s \in Sessions : said[s] <= said'[s] /\ Got[s] \subseteq Got'[s]
  BY Grows DEF IInv
<1>3. Behind'  BY <1>1, <1>2 DEF IInv, Behind, TypeOK
<1>4. Contract!NothingSkipped'  BY <1>2 DEF IInv, Contract!NothingSkipped
<1>5. ASSUME NEW p \in Procs, InFlight(proc'[p])  PROVE Flight(proc[p])'
  <2>1. proc'[p] = proc[p] /\ Flight(proc[p])
    BY <1>5 DEF IInv, Flights
  <2>2. proc[p].session \in Sessions /\ proc[p].upto \in Nat /\ said[proc[p].session] \in Nat
        /\ said'[proc[p].session] \in Nat
    BY <1>1, <1>5, <2>1, ProcType DEF IInv, TypeOK, Busy, InFlight
  <2>3. QED  BY <1>2, <2>1, <2>2 DEF Flight
<1>6. QED  BY <1>1, <1>3, <1>4, <1>5 DEF IInv, Flights

(* A step of process p keeps what is known of the other processes' requests. *)
LEMMA OthersKeep ==
  ASSUME IInv, Next, NEW p \in Procs, \A q \in Procs \ {p} : proc'[q] = proc[q],
         InFlight(proc'[p]) => Flight(proc[p])'
  PROVE  Flights'
<1>1. \A s \in Sessions : said[s] <= said'[s] /\ Got[s] \subseteq Got'[s]
  BY Grows DEF IInv
<1>2. TypeOK'  BY TypeStep DEF IInv
<1>3. ASSUME NEW q \in Procs \ {p}, InFlight(proc'[q])  PROVE Flight(proc[q])'
  <2>1. proc'[q] = proc[q] /\ Flight(proc[q])
    BY <1>3 DEF IInv, Flights
  <2>2. proc[q].session \in Sessions /\ proc[q].upto \in Nat /\ said[proc[q].session] \in Nat
        /\ said'[proc[q].session] \in Nat
    BY <1>2, <1>3, <2>1, ProcType DEF IInv, TypeOK, Busy, InFlight
  <2>3. QED  BY <1>1, <2>1, <2>2 DEF Flight
<1>4. QED  BY <1>3 DEF Flights

(* A flush that ends leaves no request of its process under way. *)
LEMMA Finished ==
  ASSUME NEW p \in Procs, TypeOK, NEW ok \in BOOLEAN, NEW k \in Nat, Finish(p, ok, k)
  PROVE  ~InFlight(proc'[p]) /\ \A q \in Procs \ {p} : proc'[q] = proc[q]
BY DEF Finish, InFlight, NoProc, TypeOK

(* A flush with nothing to send: only short messages are passed. *)
LEMMA NothingStep ==
  ASSUME IInv, Next, NEW p \in Procs, FlushNothing(p)
  PROVE  IInv'
<1> DEFINE s == proc[p].session
<1>1. TypeOK /\ TypeOK' /\ Busy(p) /\ s \in Sessions /\ cursor[s] \in Nat /\ said[s] \in Nat
  BY TypeStep, ProcType DEF IInv, FlushNothing, Busy
<1>2. cursor' = [cursor EXCEPT ![s] = IF New(s) = {} THEN @ ELSE said[s]] /\ UNCHANGED <<said, sent>>
  BY DEF FlushNothing, claude
<1>3. Behind'  BY <1>1, <1>2 DEF IInv, Behind, TypeOK
<1>4. ASSUME NEW r \in Sessions, NEW i \in 1 .. cursor'[r]  PROVE Contract!Kept(r, i)
  <2>1. CASE i <= cursor[r]
    BY <1>1, <2>1 DEF IInv, Contract!NothingSkipped, TypeOK
  <2>2. CASE ~(i <= cursor[r])
    <3>1. r = s /\ i \in New(s)  BY <1>1, <1>2, <2>2 DEF New, TypeOK
    <3>2. QED  BY <3>1 DEF FlushNothing
  <2>3. QED  BY <2>1, <2>2
<1>5. Contract!NothingSkipped'
  BY <1>2, <1>4 DEF Contract!NothingSkipped, Got, Numbers
<1>6. Flights'
  <2>1. Finish(p, TRUE, said[s])  BY DEF FlushNothing
  <2>2. QED  BY <1>1, <2>1, Finished, OthersKeep
<1>7. QED  BY <1>1, <1>3, <1>5, <1>6 DEF IInv

(* A request starts where the cursor is. *)
LEMMA ReadStep ==
  ASSUME IInv, Next, NEW p \in Procs, FlushRead(p)
  PROVE  IInv'
<1> DEFINE s == proc[p].session
<1>1. TypeOK /\ TypeOK' /\ s \in Sessions /\ cursor[s] \in Nat /\ said[s] \in Nat
  BY TypeStep, ProcType DEF IInv, FlushRead, Busy
<1>2. UNCHANGED <<said, sent, cursor>>  BY DEF FlushRead, claude
<1>3. /\ proc'[p].session = s /\ proc'[p].from = cursor[s] + 1 /\ proc'[p].upto = said[s]
      /\ proc'[p].pc = "post" /\ \A q \in Procs \ {p} : proc'[q] = proc[q]
  BY <1>1 DEF FlushRead, TypeOK
<1>4. Got' = Got  BY <1>2 DEF Got, Numbers
<1>5. Flight(proc[p])'
  <2>1. \A i \in Nat : 0 < i /\ i < cursor[s] + 1 => Contract!Kept(s, i)
    BY <1>1 DEF IInv, Contract!NothingSkipped
  <2>2. said[s] <= said'[s]  BY <1>1, <1>2
  <2>3. QED  BY <1>2, <1>3, <1>4, <2>1, <2>2 DEF Flight
<1>6. Flights'  BY <1>3, <1>5, OthersKeep
<1>7. Behind' /\ Contract!NothingSkipped'
  BY <1>2, <1>4 DEF IInv, Behind, Contract!NothingSkipped
<1>8. QED  BY <1>1, <1>6, <1>7 DEF IInv

(* When the request arrives, everything up to its end is there. *)
LEMMA PostStep ==
  ASSUME IInv, Next, NEW p \in Procs, NEW b \in BOOLEAN, FlushPost(p, b)
  PROVE  IInv'
<1> DEFINE s == proc[p].session
<1>1. /\ TypeOK /\ TypeOK' /\ InFlight(proc[p]) /\ s \in Sessions /\ said[s] \in Nat
      /\ proc[p].from \in Nat /\ proc[p].upto \in Nat /\ said[s] <= MaxMessages[s]
      /\ MaxMessages[s] \in Nat
  BY TypeStep, ProcType, ClaudeAssumption DEF IInv, FlushPost, Busy, InFlight
<1>2. UNCHANGED <<said, cursor>>  BY DEF FlushPost, claude
<1>3. /\ proc'[p].session = s /\ proc'[p].from = proc[p].from /\ proc'[p].upto = proc[p].upto
      /\ proc'[p].pc = "answer" /\ proc'[p].reached = b
      /\ \A q \in Procs \ {p} : proc'[q] = proc[q]
  BY <1>1 DEF FlushPost, TypeOK
<1>4. \A r \in Sessions : Got[r] \subseteq Got'[r]
  BY Grows DEF IInv
<1>5. Flight(proc[p])  BY <1>1 DEF IInv, Flights
<1>6. ASSUME b, NEW i \in 1 .. proc[p].upto  PROVE i \in Short \/ i \in Got'[s]
  <2>1. CASE i < proc[p].from
    BY <1>1, <1>4, <1>5, <2>1 DEF Flight
  <2>2. CASE ~(i < proc[p].from) /\ i \notin Short
    <3>1. i \in Numbers(s) /\ i \in proc[p].from .. proc[p].upto
      BY <1>1, <1>5, <2>2 DEF Flight, Numbers
    <3>2. DOMAIN sent = Sessions /\ sent[s][i] \in Nat  BY <1>1, <3>1 DEF TypeOK
    <3>3. sent'[s] = [k \in Numbers(s) |-> sent[s][k] +
            (IF k \in proc[p].from .. proc[p].upto /\ k \notin Short THEN 1 ELSE 0)]
      BY <1>1, <1>6, <3>2 DEF FlushPost
    <3>4. sent'[s][i] > 0  BY <2>2, <3>1, <3>2, <3>3
    <3>5. QED  BY <1>1, <3>1, <3>4 DEF Got, Numbers
  <2>3. QED  BY <2>1, <2>2
<1>7. Flight(proc[p])'
  BY <1>1, <1>2, <1>3, <1>4, <1>5, <1>6 DEF Flight
<1>8. Flights'  BY <1>3, <1>7, OthersKeep
<1>9. Behind' /\ Contract!NothingSkipped'
  BY <1>2, <1>4 DEF IInv, Behind, Contract!NothingSkipped
<1>10. QED  BY <1>1, <1>8, <1>9 DEF IInv

(* The cursor is set to the end of a request that arrived. *)
LEMMA AnswerStep ==
  ASSUME IInv, Next, NEW p \in Procs, NEW ok \in BOOLEAN, FlushAnswer(p, ok)
  PROVE  IInv'
<1> DEFINE s == proc[p].session
<1>1. /\ TypeOK /\ TypeOK' /\ InFlight(proc[p]) /\ s \in Sessions /\ said[s] \in Nat
      /\ proc[p].upto \in Nat
  BY TypeStep, ProcType DEF IInv, FlushAnswer, Busy, InFlight
<1>2. UNCHANGED <<said, sent>>  BY DEF FlushAnswer, claude
<1>3. Got' = Got  BY <1>2 DEF Got, Numbers
<1>4. cursor' = IF ok THEN [cursor EXCEPT ![s] = proc[p].upto] ELSE cursor
  BY DEF FlushAnswer, Advance
<1>5. Flight(proc[p]) /\ proc[p].pc = "answer" /\ (ok => proc[p].reached)
  BY <1>1 DEF IInv, Flights, FlushAnswer
<1>6. Behind'  BY <1>1, <1>2, <1>4, <1>5 DEF IInv, Behind, Flight, TypeOK
<1>7. Contract!NothingSkipped'
  BY <1>1, <1>3, <1>4, <1>5 DEF IInv, Contract!NothingSkipped, Flight, TypeOK
<1>8. Flights'
  <2>1. Finish(p, ok, proc[p].upto)  BY DEF FlushAnswer
  <2>2. QED  BY <1>1, <2>1, Finished, OthersKeep
<1>9. QED  BY <1>1, <1>6, <1>7, <1>8 DEF IInv

(* The invariant holds in every reachable state. *)
LEMMA Invariance == Spec => []IInv
<1>1. Init => IInv
  <2> SUFFICES ASSUME Init  PROVE IInv
    OBVIOUS
  <2>1. TypeOK
    BY ClaudeAssumption DEF Init, TypeOK, NoFile, NoProc, Busy, Numbers, Detached
  <2>2. QED
    BY <2>1 DEF Init, IInv, Behind, Flights, InFlight, NoProc, Contract!NothingSkipped
<1>2. IInv /\ [Next]_vars => IInv'
  <2> SUFFICES ASSUME IInv, [Next]_vars  PROVE IInv'
    OBVIOUS
  <2>1. CASE UNCHANGED vars
    <3>1. TypeOK'  BY <2>1 DEF IInv, TypeOK, vars, claude, ghosts, Busy, Numbers
    <3>2. UNCHANGED <<said, cursor, proc>> /\ Got' = Got
      BY <2>1 DEF vars, claude, ghosts, Got, Numbers
    <3>3. QED
      BY <3>1, <3>2 DEF IInv, Behind, Flights, Flight, InFlight, Contract!NothingSkipped
  <2>2. ASSUME NEW p \in Procs, FlushNothing(p), Next  PROVE IInv'  BY <2>2, NothingStep
  <2>3. ASSUME NEW p \in Procs, FlushRead(p), Next  PROVE IInv'  BY <2>3, ReadStep
  <2>4. ASSUME NEW p \in Procs, NEW b \in BOOLEAN, FlushPost(p, b), Next  PROVE IInv'
    BY <2>4, PostStep
  <2>5. ASSUME NEW p \in Procs, NEW b \in BOOLEAN, FlushAnswer(p, b), Next  PROVE IInv'
    BY <2>5, AnswerStep
  <2>6. ASSUME Next, UNCHANGED <<cursor, proc>>  PROVE IInv'
    BY <2>6, QuietStep
  <2>7. ASSUME NEW p \in Procs, NEW hook, NEW s, Launch(p, hook, s), UNCHANGED cursor, Next
        PROVE IInv'
    <3>1. \A q \in Procs : InFlight(proc'[q]) => proc'[q] = proc[q]
      BY <2>7 DEF Launch, NoProc, InFlight, IInv, TypeOK
    <3>2. QED  BY <2>7, <3>1, QuietStep
  <2>8. ASSUME NEW p \in Procs, Kill(p), Next  PROVE IInv'
    <3>1. \A q \in Procs : InFlight(proc'[q]) => proc'[q] = proc[q]
      BY <2>8 DEF Kill, NoProc, InFlight, IInv, TypeOK
    <3>2. UNCHANGED cursor  BY <2>8 DEF Kill
    <3>3. QED  BY <2>8, <3>1, <3>2, QuietStep
  <2>9. ASSUME Next, NEW p \in Procs, SessionStart(p)  PROVE IInv'
    BY <2>6, <2>7, <2>9 DEF SessionStart
  <2>10. ASSUME Next, NEW p \in Procs, NEW s \in Sessions,
                Stop(p, s) \/ Compact(p, s) \/ SessionEnd(p, s)
         PROVE IInv'
    BY <2>6, <2>7, <2>10 DEF Stop, Compact, SessionEnd
  <2>11. ASSUME Next, Stale \/ \E s \in Sessions : Say(s) \/ Resume(s) \/ SessionClear(s)
         PROVE IInv'
    BY <2>6, <2>11 DEF Stale, Say, Resume, SessionClear
  <2>12. QED
    BY <2>1, <2>2, <2>3, <2>4, <2>5, <2>8, <2>9, <2>10, <2>11 DEF Next
<1>3. QED  BY <1>1, <1>2, PTL DEF Spec

(* No cursor ever passes a message that the server lacks, so that no       *)
(* message is left out for good, whatever hooks overlap, fail or die.      *)
THEOREM CursorTruthful == Spec => []Contract!NothingSkipped
<1>1. IInv => Contract!NothingSkipped  BY DEF IInv
<1>2. QED  BY <1>1, Invariance, PTL

(* Every step of the hooks is a step of the contract, or invisible to it. *)
LEMMA StepRefines ==
  ASSUME IInv, IInv', Next
  PROVE  [Contract!Next]_<<said, Got, cursor>>
<1>1. TypeOK /\ TypeOK'  BY DEF IInv
<1>2. CASE UNCHANGED <<said, sent, cursor>>
  BY <1>2 DEF Got, Numbers
<1>3. ASSUME NEW s \in Sessions, Say(s)  PROVE Contract!Say(s)
  BY <1>3 DEF Say, Contract!Say, Got, Numbers
<1>4. ASSUME NEW s \in Sessions, NEW k \in Nat, UNCHANGED <<said, sent>>,
             cursor' = [cursor EXCEPT ![s] = k]
      PROVE  Contract!Mark(s)
  <2>1. k <= said[s] /\ \A i \in 1 .. k : Contract!Kept(s, i)
    <3>1. cursor'[s] = k /\ Got' = Got
      BY <1>1, <1>4 DEF TypeOK, Got, Numbers
    <3>2. QED  BY <1>1, <1>4, <3>1 DEF IInv, Behind, Contract!NothingSkipped, TypeOK
  <2>2. k \in 0 .. said[s]  BY <1>1, <2>1 DEF TypeOK
  <2>3. QED  BY <1>4, <2>1, <2>2 DEF Contract!Mark, Got, Numbers
<1>5. ASSUME NEW p \in Procs, FlushNothing(p)
      PROVE  Contract!Mark(proc[p].session) \/ UNCHANGED <<said, sent, cursor>>
  <2>1. proc[p].session \in Sessions /\ said[proc[p].session] \in Nat
    BY <1>1, <1>5, ProcType DEF FlushNothing, Busy
  <2>2. CASE New(proc[p].session) = {}
    BY <1>1, <1>5, <2>1, <2>2 DEF FlushNothing, claude, TypeOK
  <2>3. CASE New(proc[p].session) # {}
    BY <1>4, <1>5, <2>1, <2>3 DEF FlushNothing, claude
  <2>4. QED  BY <2>2, <2>3
<1>6. ASSUME NEW p \in Procs, NEW ok \in BOOLEAN, FlushAnswer(p, ok)
      PROVE  Contract!Mark(proc[p].session) \/ UNCHANGED <<said, sent, cursor>>
  <2>1. proc[p].session \in Sessions /\ proc[p].upto \in Nat
    BY <1>1, <1>6, ProcType DEF FlushAnswer, Busy
  <2>2. QED  BY <1>4, <1>6, <2>1 DEF FlushAnswer, Advance, claude
<1>7. ASSUME NEW p \in Procs, NEW b \in BOOLEAN, FlushPost(p, b)
      PROVE  Contract!Deliver(proc[p].session) \/ UNCHANGED <<said, sent, cursor>>
  <2> DEFINE s == proc[p].session
             batch == {k \in 1 .. proc[p].upto : proc[p].from <= k /\ k \notin Short}
  <2>1. /\ s \in Sessions /\ proc[p].upto \in Nat /\ proc[p].from \in Nat /\ said[s] \in Nat
        /\ said[s] <= MaxMessages[s] /\ MaxMessages[s] \in Nat /\ InFlight(proc[p])
    BY <1>1, <1>7, ProcType, ClaudeAssumption DEF FlushPost, Busy, InFlight
  <2>2. proc[p].upto <= said[s]  BY <2>1 DEF IInv, Flights, Flight
  <2>3. UNCHANGED <<said, cursor>>  BY <1>7 DEF FlushPost, claude
  <2>4. CASE ~b  BY <1>7, <2>3, <2>4 DEF FlushPost
  <2>5. CASE b
    <3>1. DOMAIN sent = Sessions /\ \A k \in Numbers(s) : sent[s][k] \in Nat
      BY <1>1, <2>1 DEF TypeOK
    <3>2. sent'[s] = [k \in Numbers(s) |-> sent[s][k] +
            (IF k \in proc[p].from .. proc[p].upto /\ k \notin Short THEN 1 ELSE 0)]
      BY <1>7, <2>1, <2>5, <3>1 DEF FlushPost
    <3>3. \A r \in Sessions \ {s} : sent'[r] = sent[r]
      BY <1>7, <2>5, <3>1 DEF FlushPost
    <3>4. \A k \in Numbers(s) : sent'[s][k] > 0 <=> sent[s][k] > 0 \/ k \in batch
      BY <2>1, <3>1, <3>2 DEF Numbers
    <3>5. Got'[s] = Got[s] \cup batch
      BY <2>1, <2>2, <3>4 DEF Got, Numbers
    <3>6. \A r \in Sessions \ {s} : Got'[r] = Got[r]
      BY <3>3 DEF Got, Numbers
    <3>7. Got' = [Got EXCEPT ![s] = @ \cup batch]
      BY <2>1, <3>5, <3>6 DEF Got
    <3>8. batch \in SUBSET (1 .. said[s])
      BY <2>1, <2>2
    <3> HIDE DEF batch
    <3>9. QED  BY <2>3, <3>7, <3>8 DEF Contract!Deliver
  <2>6. QED  BY <2>4, <2>5
<1>8. UNCHANGED <<said, sent, cursor>> \/ Contract!Next
  <2>1. ASSUME NEW p \in Procs, Busy(p)  PROVE proc[p].session \in Sessions
    BY <1>1, <2>1, ProcType
  <2>2. ASSUME NEW p \in Procs, FlushNothing(p) \/ \E b \in BOOLEAN : FlushPost(p, b) \/ FlushAnswer(p, b)
        PROVE UNCHANGED <<said, sent, cursor>> \/ Contract!Next
    <3>1. proc[p].session \in Sessions
      BY <2>1, <2>2 DEF FlushNothing, FlushPost, FlushAnswer, Busy
    <3>2. QED  BY <1>5, <1>6, <1>7, <2>2, <3>1 DEF Contract!Next
  <2>3. QED
    BY <1>3, <2>2 DEF Next, Contract!Next, Stale, Resume, SessionClear, FlushRead, Kill,
       SessionStart, Stop, Compact, SessionEnd, claude
<1>9. QED  BY <1>2, <1>8

(* The hooks implement the delivery contract. *)
THEOREM Implements == Spec => Delivers
<1>1. Init => Contract!Init
  BY ClaudeAssumption DEF Init, Contract!Init, Got, Numbers
<1>2. IInv /\ IInv' /\ [Next]_vars => [Contract!Next]_<<said, Got, cursor>>
  <2>1. UNCHANGED vars => UNCHANGED <<said, Got, cursor>>
    BY DEF vars, claude, ghosts, Got, Numbers
  <2>2. QED  BY <2>1, StepRefines
<1>3. QED  BY <1>1, <1>2, Invariance, PTL DEF Spec, Delivers, Contract!Spec

-----------------------------------------------------------------------------
(* Why a message is sent again.  Outside the raced sessions at most one    *)
(* request of a session is under way, it starts where the cursor stands,   *)
(* and the server has each message as often as an answer was unused, once  *)
(* more if the cursor is past it or the request that carries it arrived.   *)

Sole == \A p, q \in Procs :
  InFlight(proc[p]) /\ InFlight(proc[q]) /\ proc[p].session = proc[q].session
    /\ proc[p].session \notin raced => p = q

AtCursor == \A p \in Procs :
  InFlight(proc[p]) /\ proc[p].session \notin raced =>
    /\ proc[p].from = cursor[proc[p].session] + 1
    /\ ~(proc[p].from .. proc[p].upto \subseteq Short)

Reaching == \A p \in Procs : proc[p].reached => proc[p].pc = "answer"

Carries(s, k) == \E p \in Procs :
  proc[p].reached /\ proc[p].session = s /\ k \in proc[p].from .. proc[p].upto

Counted == \A s \in Sessions \ raced : \A k \in Numbers(s) :
  sent[s][k] <= unsure[s] + IF k <= cursor[s] \/ Carries(s, k) THEN 1 ELSE 0

RInv == Sole /\ AtCursor /\ Reaching /\ Counted

(* The bound on a message from the facts it depends on. *)
LEMMA CountKept ==
  ASSUME NEW n \in Nat, NEW n1 \in Nat, NEW u \in Nat, NEW u1 \in Nat,
         NEW P, NEW P1, n <= u + IF P THEN 1 ELSE 0,
         \/ n1 = n /\ u1 = u /\ (P => P1)
         \/ n1 = n /\ u1 = u + 1
         \/ n1 = n + 1 /\ u1 = u /\ ~P /\ P1
  PROVE  n1 <= u1 + IF P1 THEN 1 ELSE 0
<1>1. CASE P /\ P1  BY <1>1
<1>2. CASE P /\ ~P1  BY <1>2
<1>3. CASE ~P /\ P1  BY <1>3
<1>4. CASE ~P /\ ~P1  BY <1>4
<1>5. QED  BY <1>1, <1>2, <1>3, <1>4

(* How the server's count of every message changes from one state to the   *)
(* next decides that the bound holds again.                                *)
LEMMA CountedStep ==
  ASSUME TypeOK, TypeOK', Counted, raced \subseteq raced',
         \A s \in Sessions \ raced' : \A k \in Numbers(s) :
           \/ /\ sent'[s][k] = sent[s][k] /\ unsure'[s] = unsure[s]
              /\ k <= cursor[s] \/ Carries(s, k) => k <= cursor'[s] \/ Carries(s, k)'
           \/ sent'[s][k] = sent[s][k] /\ unsure'[s] = unsure[s] + 1
           \/ /\ sent'[s][k] = sent[s][k] + 1 /\ unsure'[s] = unsure[s]
              /\ ~(k <= cursor[s] \/ Carries(s, k)) /\ Carries(s, k)'
  PROVE  Counted'
<1> SUFFICES ASSUME NEW s \in Sessions \ raced', NEW k \in Numbers(s)
             PROVE  sent'[s][k] <= unsure'[s] +
                      IF k <= cursor'[s] \/ Carries(s, k)' THEN 1 ELSE 0
  BY DEF Counted, Numbers
<1>1. /\ sent[s][k] \in Nat /\ sent'[s][k] \in Nat
      /\ unsure[s] \in Nat /\ unsure'[s] \in Nat
  <2>1. sent[s] \in [Numbers(s) -> Nat] /\ unsure \in [Sessions -> Nat]
    BY DEF TypeOK
  <2>2. sent'[s] \in [Numbers(s) -> Nat] /\ unsure' \in [Sessions -> Nat]
    BY DEF TypeOK, Numbers
  <2>3. QED  BY <2>1, <2>2
<1>2. sent[s][k] <= unsure[s] + IF k <= cursor[s] \/ Carries(s, k) THEN 1 ELSE 0
  BY DEF Counted
<1>3. \/ /\ sent'[s][k] = sent[s][k] /\ unsure'[s] = unsure[s]
         /\ k <= cursor[s] \/ Carries(s, k) => k <= cursor'[s] \/ Carries(s, k)'
      \/ sent'[s][k] = sent[s][k] /\ unsure'[s] = unsure[s] + 1
      \/ /\ sent'[s][k] = sent[s][k] + 1 /\ unsure'[s] = unsure[s]
         /\ ~(k <= cursor[s] \/ Carries(s, k)) /\ Carries(s, k)'
  OBVIOUS
<1> DEFINE P == k <= cursor[s] \/ Carries(s, k)
           P1 == k <= cursor'[s] \/ Carries(s, k)'
<1>4. sent[s][k] <= unsure[s] + IF P THEN 1 ELSE 0  BY <1>2
<1>5. \/ sent'[s][k] = sent[s][k] /\ unsure'[s] = unsure[s] /\ (P => P1)
      \/ sent'[s][k] = sent[s][k] /\ unsure'[s] = unsure[s] + 1
      \/ sent'[s][k] = sent[s][k] + 1 /\ unsure'[s] = unsure[s] /\ ~P /\ P1
  BY <1>3
<1>6. sent'[s][k] <= unsure'[s] + IF P1 THEN 1 ELSE 0
  <2> HIDE DEF P, P1
  <2>1. QED  BY <1>1, <1>4, <1>5, CountKept
<1>7. QED  BY <1>6

(* A step that neither sends, nor answers, nor moves a cursor. *)
LEMMA RQuiet ==
  ASSUME TypeOK, TypeOK', RInv, UNCHANGED <<cursor, sent, unsure, raced>>,
         \A p \in Procs :
           \/ proc'[p] = proc[p]
           \/ ~InFlight(proc'[p]) /\ ~proc'[p].reached /\ ~proc[p].reached
  PROVE  RInv'
<1>1. Sole'  BY DEF RInv, Sole
<1>2. AtCursor'  BY DEF RInv, AtCursor
<1>3. Reaching'  BY DEF RInv, Reaching
<1>4. \A s, k : Carries(s, k) => Carries(s, k)'  BY DEF Carries
<1>5. Counted'  BY <1>4, CountedStep DEF RInv
<1>6. QED  BY <1>1, <1>2, <1>3, <1>5 DEF RInv

(* A process leaves its request: the others' requests stay. *)
LEMMA Leaves ==
  ASSUME TypeOK, RInv, raced' = raced, NEW p \in Procs,
         ~InFlight(proc'[p]), ~proc'[p].reached, \A q \in Procs \ {p} : proc'[q] = proc[q]
  PROVE  /\ Sole' /\ Reaching'
         /\ \A s, k : Carries(s, k) /\ ~(proc[p].reached /\ proc[p].session = s) => Carries(s, k)'
<1>1. Sole'  BY DEF RInv, Sole
<1>2. Reaching'  BY DEF RInv, Reaching
<1>3. QED  BY <1>1, <1>2 DEF Carries

(* What a process is once its flush is through. *)
LEMMA FinishedUnreached ==
  ASSUME NEW p \in Procs, TypeOK, NEW ok \in BOOLEAN, NEW k \in Nat, Finish(p, ok, k)
  PROVE  ~proc'[p].reached
BY DEF Finish, NoProc, TypeOK

(* Only short messages are passed without a request, and none is passed    *)
(* while a request of the session is under way.                            *)
LEMMA RNothing ==
  ASSUME IInv, TypeOK', RInv, NEW p \in Procs, FlushNothing(p)
  PROVE  RInv'
<1> DEFINE s == proc[p].session
<1>1. TypeOK /\ Busy(p) /\ s \in Sessions /\ cursor[s] \in Nat /\ said[s] \in Nat
  BY ProcType DEF IInv, FlushNothing, Busy
<1>2. /\ cursor' = [cursor EXCEPT ![s] = IF New(s) = {} THEN @ ELSE said[s]]
      /\ UNCHANGED <<said, sent, unsure, raced>>
  BY DEF FlushNothing, claude
<1>3. proc[p].pc = "start" /\ Finish(p, TRUE, said[s])  BY DEF FlushNothing
<1>4. ~InFlight(proc'[p]) /\ ~proc'[p].reached /\ \A q \in Procs \ {p} : proc'[q] = proc[q]
  BY <1>1, <1>3, Finished, FinishedUnreached
<1>5. ASSUME s \notin raced, NEW q \in Procs, InFlight(proc[q]), proc[q].session = s
      PROVE  FALSE
  <2>1. proc[q].from = cursor[s] + 1 /\ ~(proc[q].from .. proc[q].upto \subseteq Short)
    BY <1>5 DEF RInv, AtCursor
  <2>2. proc[q].upto <= said[s] /\ proc[q].upto \in Nat
    BY <1>1, <1>5, ProcType DEF IInv, Flights, Flight, InFlight, Busy
  <2>3. proc[q].from .. proc[q].upto \subseteq New(s)
    BY <1>1, <2>1, <2>2 DEF New
  <2>4. QED  BY <2>1, <2>3 DEF FlushNothing
<1>6. ~proc[p].reached  BY <1>3 DEF RInv, Reaching
<1>7. /\ Sole' /\ Reaching' /\ \A r, k : Carries(r, k) => Carries(r, k)'
  BY <1>1, <1>2, <1>4, <1>6, Leaves
<1>8. AtCursor'
  <2> SUFFICES ASSUME NEW q \in Procs, InFlight(proc'[q]), proc'[q].session \notin raced
               PROVE  /\ proc'[q].from = cursor'[proc'[q].session] + 1
                      /\ ~(proc'[q].from .. proc'[q].upto \subseteq Short)
    BY <1>2 DEF AtCursor
  <2>1. q # p /\ proc'[q] = proc[q]  BY <1>4
  <2>2. proc[q].session # s  BY <1>5, <2>1
  <2>3. cursor'[proc[q].session] = cursor[proc[q].session]
    BY <1>1, <1>2, <2>2, <2>1, ProcType DEF TypeOK, InFlight, Busy
  <2>4. QED  BY <2>1, <2>3 DEF RInv, AtCursor
<1>9. \A r \in Sessions : cursor[r] <= cursor'[r] /\ cursor[r] \in Nat /\ cursor'[r] \in Nat
  BY <1>1, <1>2 DEF IInv, Behind, TypeOK
<1>10. \A r \in Sessions : \A k \in Numbers(r) : k <= cursor[r] => k <= cursor'[r]
  BY <1>9, ClaudeAssumption DEF Numbers
<1>11. Counted'  BY <1>1, <1>2, <1>7, <1>10, CountedStep DEF RInv
<1>12. QED  BY <1>7, <1>8, <1>11 DEF RInv

(* A request starts at the cursor; a second one makes the session raced. *)
LEMMA RRead ==
  ASSUME IInv, TypeOK', RInv, NEW p \in Procs, FlushRead(p)
  PROVE  RInv'
<1> DEFINE s == proc[p].session
<1>1. TypeOK /\ s \in Sessions /\ cursor[s] \in Nat /\ said[s] \in Nat
  BY ProcType DEF IInv, FlushRead, Busy
<1>2. UNCHANGED <<sent, cursor, unsure>> /\ raced \subseteq raced'  BY DEF FlushRead
<1>3. /\ proc'[p].session = s /\ proc'[p].from = cursor[s] + 1 /\ proc'[p].upto = said[s]
      /\ proc'[p].pc = "post" /\ proc'[p].reached = proc[p].reached
      /\ \A q \in Procs \ {p} : proc'[q] = proc[q]
  BY <1>1 DEF FlushRead, TypeOK
<1>4. proc[p].pc = "start" /\ ~proc[p].reached  BY DEF FlushRead, RInv, Reaching
<1>5. ASSUME NEW q \in Procs \ {p}, InFlight(proc[q]), proc[q].session = s
      PROVE  s \in raced'
  <2>1. q \in Flushing(s)  BY <1>5 DEF Flushing, InFlight, Busy
  <2>2. QED  BY <1>5, <2>1 DEF FlushRead, InFlight
<1>6. Sole'
  <2> SUFFICES ASSUME NEW q \in Procs, NEW r \in Procs, InFlight(proc'[q]), InFlight(proc'[r]),
                      proc'[q].session = proc'[r].session, proc'[q].session \notin raced'
               PROVE  q = r
    BY DEF Sole
  <2>1. CASE q # p /\ r # p  BY <1>2, <1>3, <2>1 DEF RInv, Sole
  <2>2. CASE q = p \/ r = p  BY <1>3, <1>5, <2>2
  <2>3. QED  BY <2>1, <2>2
<1>7. AtCursor'
  <2> SUFFICES ASSUME NEW q \in Procs, InFlight(proc'[q]), proc'[q].session \notin raced'
               PROVE  /\ proc'[q].from = cursor[proc'[q].session] + 1
                      /\ ~(proc'[q].from .. proc'[q].upto \subseteq Short)
    BY <1>2 DEF AtCursor
  <2>1. CASE q # p  BY <1>2, <1>3, <2>1 DEF RInv, AtCursor
  <2>2. CASE q = p  BY <1>3, <2>2 DEF FlushRead, New
  <2>3. QED  BY <2>1, <2>2
<1>8. Reaching'  BY <1>3, <1>4 DEF RInv, Reaching
<1>9. \A r, k : Carries(r, k) => Carries(r, k)'  BY <1>3, <1>4 DEF Carries
<1>10. Counted'  BY <1>1, <1>2, <1>9, CountedStep DEF RInv
<1>11. QED  BY <1>6, <1>7, <1>8, <1>10 DEF RInv

(* A request that arrives carries each of its messages for the first time  *)
(* since the last answer that nobody used.                                 *)
LEMMA RPost ==
  ASSUME IInv, TypeOK', RInv, NEW p \in Procs, NEW b \in BOOLEAN, FlushPost(p, b)
  PROVE  RInv'
<1> DEFINE s == proc[p].session
<1>1. /\ TypeOK /\ InFlight(proc[p]) /\ s \in Sessions /\ cursor[s] \in Nat
      /\ proc[p].from \in Nat /\ proc[p].upto \in Nat
  BY ProcType DEF IInv, FlushPost, Busy, InFlight
<1>2. UNCHANGED <<cursor, unsure, raced>>  BY DEF FlushPost
<1>3. /\ proc'[p].session = s /\ proc'[p].from = proc[p].from /\ proc'[p].upto = proc[p].upto
      /\ proc'[p].pc = "answer" /\ proc'[p].reached = b
      /\ \A q \in Procs \ {p} : proc'[q] = proc[q]
  BY <1>1 DEF FlushPost, TypeOK
<1>4. ~proc[p].reached  BY DEF FlushPost, RInv, Reaching
<1>5. \A q \in Procs : /\ InFlight(proc'[q]) => InFlight(proc[q])
                       /\ proc'[q].session = proc[q].session
                       /\ proc'[q].from = proc[q].from /\ proc'[q].upto = proc[q].upto
  BY <1>1, <1>3
<1>6. Sole' /\ AtCursor'
  BY <1>2, <1>5 DEF RInv, Sole, AtCursor
<1>7. Reaching'  BY <1>3 DEF RInv, Reaching
<1>8. \A r, k : Carries(r, k) => Carries(r, k)'  BY <1>3, <1>4 DEF Carries
<1>9. ASSUME NEW r \in Sessions \ raced, NEW k \in Numbers(r)
      PROVE  \/ sent'[r][k] = sent[r][k]
             \/ /\ sent'[r][k] = sent[r][k] + 1
                /\ ~(k <= cursor[r] \/ Carries(r, k)) /\ Carries(r, k)'
  <2>0. DOMAIN sent = Sessions /\ sent[r][k] \in Nat  BY <1>1 DEF TypeOK
  <2>1. CASE r # s \/ ~b  BY <1>1, <2>0, <2>1 DEF FlushPost
  <2>2. CASE r = s /\ b
    <3>1. sent'[s] = [i \in Numbers(s) |-> sent[s][i] +
            (IF i \in proc[p].from .. proc[p].upto /\ i \notin Short THEN 1 ELSE 0)]
      BY <1>1, <2>0, <2>2 DEF FlushPost
    <3>2. CASE ~(k \in proc[p].from .. proc[p].upto /\ k \notin Short)
      BY <2>0, <2>2, <3>1, <3>2
    <3>3. CASE k \in proc[p].from .. proc[p].upto /\ k \notin Short
      <4>1. sent'[r][k] = sent[r][k] + 1  BY <2>0, <2>2, <3>1, <3>3
      <4>2. proc[p].from = cursor[s] + 1  BY <1>1, <1>9, <2>2 DEF RInv, AtCursor
      <4>3. ~(k <= cursor[r])  BY <1>1, <2>2, <3>3, <4>2
      <4>4. ~Carries(r, k)
        <5> SUFFICES ASSUME NEW q \in Procs, proc[q].reached, proc[q].session = r
                     PROVE  FALSE
          BY DEF Carries
        <5>1. InFlight(proc[q])  BY DEF RInv, Reaching, InFlight
        <5>2. q = p  BY <1>1, <1>9, <2>2, <5>1 DEF RInv, Sole
        <5>3. QED  BY <1>4, <5>2
      <4>5. Carries(r, k)'  BY <1>3, <2>2, <3>3 DEF Carries
      <4>6. QED  BY <4>1, <4>3, <4>4, <4>5
    <3>4. QED  BY <3>2, <3>3
  <2>3. QED  BY <2>1, <2>2
<1>10. Counted'
  <2>1. \A r \in Sessions \ raced' : \A k \in Numbers(r) :
           \/ /\ sent'[r][k] = sent[r][k] /\ unsure'[r] = unsure[r]
              /\ k <= cursor[r] \/ Carries(r, k) => k <= cursor'[r] \/ Carries(r, k)'
           \/ sent'[r][k] = sent[r][k] /\ unsure'[r] = unsure[r] + 1
           \/ /\ sent'[r][k] = sent[r][k] + 1 /\ unsure'[r] = unsure[r]
              /\ ~(k <= cursor[r] \/ Carries(r, k)) /\ Carries(r, k)'
    BY <1>2, <1>8, <1>9
  <2>2. QED  BY <1>1, <1>2, <2>1, CountedStep DEF RInv
<1>11. QED  BY <1>6, <1>7, <1>10 DEF RInv

(* A request that its process leaves without an answer, after it arrived,  *)
(* is counted as unsure.                                                   *)
LEMMA RDrop ==
  ASSUME IInv, TypeOK', RInv, NEW p \in Procs, UNCHANGED <<cursor, sent, raced>>,
         unsure' = IF proc[p].reached THEN [unsure EXCEPT ![proc[p].session] = @ + 1]
                                      ELSE unsure,
         ~InFlight(proc'[p]), ~proc'[p].reached, \A q \in Procs \ {p} : proc'[q] = proc[q]
  PROVE  RInv'
<1>1. TypeOK  BY DEF IInv
<1>2. Sole' /\ Reaching'  BY <1>1, Leaves
<1>3. AtCursor'  BY DEF RInv, AtCursor
<1>4. \A r \in Sessions \ raced' : \A k \in Numbers(r) :
           \/ /\ sent'[r][k] = sent[r][k] /\ unsure'[r] = unsure[r]
              /\ k <= cursor[r] \/ Carries(r, k) => k <= cursor'[r] \/ Carries(r, k)'
           \/ sent'[r][k] = sent[r][k] /\ unsure'[r] = unsure[r] + 1
           \/ /\ sent'[r][k] = sent[r][k] + 1 /\ unsure'[r] = unsure[r]
              /\ ~(k <= cursor[r] \/ Carries(r, k)) /\ Carries(r, k)'
  <2> SUFFICES ASSUME NEW r \in Sessions \ raced', NEW k \in Numbers(r)
               PROVE  \/ unsure'[r] = unsure[r] /\ (Carries(r, k) => Carries(r, k)')
                      \/ unsure'[r] = unsure[r] + 1
    OBVIOUS
  <2>1. CASE proc[p].reached /\ proc[p].session = r  BY <1>1, <2>1 DEF TypeOK
  <2>2. CASE ~(proc[p].reached /\ proc[p].session = r)
    <3>1. unsure'[r] = unsure[r]  BY <1>1, <2>2 DEF TypeOK
    <3>2. Carries(r, k) => Carries(r, k)'  BY <1>1, <2>2, Leaves
    <3>3. QED  BY <3>1, <3>2
  <2>3. QED  BY <2>1, <2>2
<1>5. Counted'  BY <1>1, <1>4, CountedStep DEF RInv
<1>6. QED  BY <1>2, <1>3, <1>5 DEF RInv

(* An answer moves the cursor past everything its request carried. *)
LEMMA RAnswer ==
  ASSUME IInv, TypeOK', RInv, NEW p \in Procs, NEW ok \in BOOLEAN, FlushAnswer(p, ok)
  PROVE  RInv'
<1> DEFINE s == proc[p].session
<1>1. /\ TypeOK /\ InFlight(proc[p]) /\ s \in Sessions /\ cursor[s] \in Nat
      /\ proc[p].from \in Nat /\ proc[p].upto \in Nat
  BY ProcType DEF IInv, FlushAnswer, Busy, InFlight
<1>2. UNCHANGED <<sent, raced>> /\ (ok => proc[p].reached) /\ Finish(p, ok, proc[p].upto)
  BY DEF FlushAnswer
<1>3. ~InFlight(proc'[p]) /\ ~proc'[p].reached /\ \A q \in Procs \ {p} : proc'[q] = proc[q]
  BY <1>1, <1>2, Finished, FinishedUnreached
<1>4. CASE ~ok
  <2>1. UNCHANGED cursor
    BY <1>4 DEF FlushAnswer, Advance
  <2>2. unsure' = IF proc[p].reached THEN [unsure EXCEPT ![s] = @ + 1] ELSE unsure
    BY <1>4 DEF FlushAnswer
  <2>3. QED  BY <1>2, <1>3, <2>1, <2>2, RDrop
<1>5. CASE ok
  <2>1. cursor' = [cursor EXCEPT ![s] = proc[p].upto] /\ unsure' = unsure
    BY <1>5 DEF FlushAnswer, Advance
  <2>2. Sole' /\ Reaching'
    BY <1>1, <1>2, <1>3, Leaves
  <2>3. AtCursor'
    <3> SUFFICES ASSUME NEW q \in Procs, InFlight(proc'[q]), proc'[q].session \notin raced
                 PROVE  /\ proc'[q].from = cursor'[proc'[q].session] + 1
                        /\ ~(proc'[q].from .. proc'[q].upto \subseteq Short)
      BY <1>2 DEF AtCursor
    <3>1. q # p /\ proc'[q] = proc[q]  BY <1>3
    <3>2. proc[q].session # s  BY <1>1, <3>1 DEF RInv, Sole
    <3>3. cursor'[proc[q].session] = cursor[proc[q].session]
      BY <1>1, <2>1, <3>1, <3>2, ProcType DEF TypeOK, InFlight, Busy
    <3>4. QED  BY <3>1, <3>3 DEF RInv, AtCursor
  <2>4. ASSUME NEW r \in Sessions \ raced, NEW k \in Numbers(r),
               k <= cursor[r] \/ Carries(r, k)
        PROVE  k <= cursor'[r] \/ Carries(r, k)'
    <3>1. CASE r # s
      <4>1. cursor'[r] = cursor[r]  BY <1>1, <2>1, <3>1 DEF TypeOK
      <4>2. Carries(r, k) => Carries(r, k)'  BY <1>1, <1>2, <1>3, <3>1, Leaves
      <4>3. QED  BY <2>4, <4>1, <4>2
    <3>2. CASE r = s
      <4>1. cursor'[s] = proc[p].upto  BY <1>1, <2>1 DEF TypeOK
      <4>2. proc[p].from = cursor[s] + 1 /\ ~(proc[p].from .. proc[p].upto \subseteq Short)
        BY <1>1, <2>4, <3>2 DEF RInv, AtCursor
      <4>3. proc[p].upto >= cursor[s] + 1
        <5>1. PICK i \in proc[p].from .. proc[p].upto : i \notin Short  BY <4>2
        <5>2. QED  BY <1>1, <4>2, <5>1
      <4>4. k \in Nat  BY ClaudeAssumption DEF Numbers
      <4>5. CASE k <= cursor[r]  BY <1>1, <3>2, <4>1, <4>3, <4>4, <4>5
      <4>6. CASE Carries(r, k)
        <5>1. PICK q \in Procs : /\ proc[q].reached /\ proc[q].session = r
                                 /\ k \in proc[q].from .. proc[q].upto
          BY <4>6 DEF Carries
        <5>2. InFlight(proc[q])  BY <5>1 DEF RInv, Reaching, InFlight
        <5>3. q = p  BY <1>1, <2>4, <3>2, <5>1, <5>2 DEF RInv, Sole
        <5>4. QED  BY <1>1, <3>2, <4>1, <4>4, <5>1, <5>3
      <4>7. QED  BY <2>4, <4>5, <4>6
    <3>3. QED  BY <3>1, <3>2
  <2>5. \A r \in Sessions \ raced' : \A k \in Numbers(r) :
           \/ /\ sent'[r][k] = sent[r][k] /\ unsure'[r] = unsure[r]
              /\ k <= cursor[r] \/ Carries(r, k) => k <= cursor'[r] \/ Carries(r, k)'
           \/ sent'[r][k] = sent[r][k] /\ unsure'[r] = unsure[r] + 1
           \/ /\ sent'[r][k] = sent[r][k] + 1 /\ unsure'[r] = unsure[r]
              /\ ~(k <= cursor[r] \/ Carries(r, k)) /\ Carries(r, k)'
    BY <1>2, <2>1, <2>4
  <2>6. Counted'  BY <1>1, <1>2, <2>5, CountedStep DEF RInv
  <2>7. QED  BY <2>2, <2>3, <2>6 DEF RInv
<1>6. QED  BY <1>4, <1>5

(* Every step keeps the counts. *)
LEMMA RStep ==
  ASSUME IInv, TypeOK', RInv, Next
  PROVE  RInv'
<1>0. TypeOK  BY DEF IInv
<1>1. ASSUME UNCHANGED <<cursor, sent, unsure, raced, proc>>  PROVE RInv'
  BY <1>0, <1>1, RQuiet
<1>2. ASSUME NEW p \in Procs, NEW hook, NEW s, Launch(p, hook, s),
             UNCHANGED <<cursor, sent, unsure, raced>>
      PROVE  RInv'
  <2>1. ~proc[p].reached  BY <1>2 DEF Launch, Busy, RInv, Reaching
  <2>2. ~InFlight(proc'[p]) /\ ~proc'[p].reached /\ \A q \in Procs \ {p} : proc'[q] = proc[q]
    BY <1>0, <1>2 DEF Launch, NoProc, InFlight, TypeOK
  <2>3. QED  BY <1>0, <1>2, <2>1, <2>2, RQuiet
<1>3. ASSUME NEW p \in Procs, Kill(p)  PROVE RInv'
  <2>1. ~InFlight(proc'[p]) /\ ~proc'[p].reached /\ \A q \in Procs \ {p} : proc'[q] = proc[q]
    BY <1>0, <1>3 DEF Kill, NoProc, InFlight, TypeOK
  <2>2. /\ UNCHANGED <<cursor, sent, raced>>
        /\ unsure' = IF proc[p].reached THEN [unsure EXCEPT ![proc[p].session] = @ + 1]
                                        ELSE unsure
    BY <1>3 DEF Kill
  <2>3. QED  BY <2>1, <2>2, RDrop
<1>4. ASSUME NEW p \in Procs,
             \/ FlushNothing(p) \/ FlushRead(p)
             \/ \E b \in BOOLEAN : FlushPost(p, b) \/ FlushAnswer(p, b)
      PROVE  RInv'
  BY <1>4, RNothing, RRead, RPost, RAnswer
<1>5. ASSUME NEW p \in Procs, SessionStart(p)  PROVE RInv'
  BY <1>1, <1>2, <1>5 DEF SessionStart, ghosts
<1>6. ASSUME NEW p \in Procs, NEW s \in Sessions,
             Stop(p, s) \/ Compact(p, s) \/ SessionEnd(p, s)
      PROVE  RInv'
  BY <1>1, <1>2, <1>6 DEF Stop, Compact, SessionEnd, ghosts
<1>7. ASSUME Stale \/ \E s \in Sessions : Say(s) \/ Resume(s) \/ SessionClear(s)
      PROVE  RInv'
  BY <1>1, <1>7 DEF Stale, Say, Resume, SessionClear, ghosts
<1>8. QED  BY <1>3, <1>4, <1>5, <1>6, <1>7 DEF Next

(* The server has a message more than once only after an answer that       *)
(* nobody used, or when two processes flushed the session at once: neither *)
(* a resumed session, nor a second window, nor a detached flush that runs  *)
(* beside a hook sends anything again by itself.                           *)
THEOREM ResendsHaveCause == Spec => []ResentNeedsCause
<1>1. Init => RInv
  BY ClaudeAssumption DEF Init, RInv, Sole, AtCursor, Reaching, Counted, InFlight, NoProc,
     Numbers, Carries
<1>2. IInv /\ IInv' /\ RInv /\ [Next]_vars => RInv'
  <2>1. ASSUME IInv, IInv', RInv, UNCHANGED vars  PROVE RInv'
    BY <2>1, RQuiet DEF vars, ghosts, IInv
  <2>2. ASSUME IInv, IInv', RInv, Next  PROVE RInv'
    BY <2>2, RStep DEF IInv
  <2>3. QED  BY <2>1, <2>2
<1>3. IInv /\ RInv => ResentNeedsCause
  <2> SUFFICES ASSUME IInv, RInv, NEW s \in Sessions \ raced, NEW k \in Numbers(s)
               PROVE  sent[s][k] <= 1 + unsure[s]
    BY DEF ResentNeedsCause
  <2>1. sent[s][k] \in Nat /\ unsure[s] \in Nat  BY DEF IInv, TypeOK
  <2>2. sent[s][k] <= unsure[s] + IF k <= cursor[s] \/ Carries(s, k) THEN 1 ELSE 0
    BY DEF RInv, Counted
  <2>3. QED  BY <2>1, <2>2
<1>4. QED  BY <1>1, <1>2, <1>3, Invariance, PTL DEF Spec

-----------------------------------------------------------------------------
(* Who brings the tail of a session that ended: it is delivered, or the    *)
(* handoff names it and a SessionStart is to come, or a process is about   *)
(* to read its transcript, or read it up to the end.                       *)

Delivered(s) == \A k \in Numbers(s) : k <= said[s] /\ k \notin Short => sent[s][k] > 0

Handed(s) == pending.there /\ pending.session = s /\ ~pending.stale /\ starts > 0

Brings(s, p) ==
  /\ Busy(p) /\ proc[p].session = s /\ proc[p].hook # "flush"
  /\ proc[p].pc = "start" \/ proc[p].upto = said[s]

InHand(s) == Delivered(s) \/ Handed(s) \/ \E p \in Procs : Brings(s, p)

Tails == \A s \in ended \ given : InHand(s)

(* A cursor at the end of the transcript says that all of it is delivered. *)
LEMMA CursorAtEnd ==
  ASSUME IInv', NEW s \in Sessions, said'[s] <= cursor'[s]
  PROVE  Delivered(s)'
<1> SUFFICES ASSUME NEW k \in Numbers(s), k <= said'[s], k \notin Short
             PROVE  sent'[s][k] > 0
  BY DEF Delivered, Numbers
<1>1. said'[s] \in Nat /\ cursor'[s] \in Nat /\ k \in Nat /\ 0 < k
  BY ClaudeAssumption DEF IInv, TypeOK, Numbers
<1>2. k \in 1 .. cursor'[s]  BY <1>1
<1>3. Contract!Kept(s, k)'  BY <1>2 DEF IInv, Contract!NothingSkipped
<1>4. QED  BY <1>3 DEF Got

(* A step keeps the tails in hand if it keeps each handoff and each flush  *)
(* of a session that is not given up.                                      *)
LEMMA TailStep ==
  ASSUME IInv, IInv', Next, Tails, given \subseteq given',
         \A s \in ended' \ given' : s \in ended \/ InHand(s)',
         \A s \in ended : said'[s] = said[s],
         \A s \in ended \ given' : Handed(s) => InHand(s)',
         \A s \in ended \ given' : \A p \in Procs : Brings(s, p) => InHand(s)'
  PROVE  Tails'
<1> SUFFICES ASSUME NEW s \in ended', s \notin given'  PROVE InHand(s)'
  BY DEF Tails
<1>1. CASE s \in ended
  <2>1. s \in Sessions  BY DEF IInv, TypeOK
  <2>2. InHand(s)  BY <1>1 DEF Tails
  <2>3. CASE Delivered(s)
    <3>1. Got[s] \subseteq Got'[s]  BY <2>1, Grows DEF IInv
    <3>2. \A k \in Numbers(s) : sent[s][k] > 0 => sent'[s][k] > 0
      BY <2>1, <3>1 DEF Got, Numbers
    <3>3. Delivered(s)'  BY <1>1, <2>3, <3>2 DEF Delivered, Numbers
    <3>4. QED  BY <3>3 DEF InHand
  <2>4. QED  BY <1>1, <2>2, <2>3 DEF InHand
<1>2. CASE s \notin ended  BY <1>2
<1>3. QED  BY <1>1, <1>2

(* A flush that ends: it has delivered the tail that it was to bring, or   *)
(* left it to a process of its own, or given it up; and a handoff that it  *)
(* removed was its own and delivered, or is given up.                      *)
LEMMA FinishTail ==
  ASSUME TypeOK, NEW p \in Procs, NEW ok \in BOOLEAN, NEW k \in Nat, Busy(p),
         Finish(p, ok, k), UNCHANGED <<said, starts>>,
         NEW r \in Sessions, r = proc[p].session, ok /\ k = said[r] => Delivered(r)',
         NEW s \in Sessions \ given',
         Brings(s, p) => k = said[s]
  PROVE  /\ Handed(s) => InHand(s)'
         /\ \A q \in Procs : Brings(s, q) => InHand(s)'
<1>1. given' = given \cup
       (IF pending' = pending \/ (pending.session = r /\ k = said[r])
        THEN {} ELSE {pending.session})
       \cup (IF ok \/ proc[p].hook = "clear" THEN {} ELSE {r})
  BY DEF Finish
<1>2. ASSUME Handed(s)  PROVE InHand(s)'
  <2>1. CASE pending' = pending  BY <1>2, <2>1 DEF Handed, InHand
  <2>2. CASE pending' # pending
    <3>1. ok  BY <2>2 DEF Finish
    <3>2. s = r /\ k = said[r]  BY <1>1, <1>2, <2>2 DEF Handed
    <3>3. QED  BY <3>1, <3>2 DEF InHand
  <2>3. QED  BY <2>1, <2>2
<1>3. ASSUME NEW q \in Procs, Brings(s, q)  PROVE InHand(s)'
  <2>1. CASE q # p
    <3>1. proc'[q] = proc[q]  BY <2>1 DEF Finish, TypeOK
    <3>2. Brings(s, q)'  BY <1>3, <3>1 DEF Brings, Busy
    <3>3. QED  BY <3>2 DEF InHand
  <2>2. CASE q = p
    <3>1. s = r /\ k = said[r]  BY <1>3, <2>2 DEF Brings
    <3>2. CASE ok  BY <3>1, <3>2 DEF InHand
    <3>3. CASE ~ok
      <4>1. proc[p].hook = "clear"  BY <1>1, <3>1, <3>3
      <4>2. proc'[p] = [NoProc EXCEPT !.pc = "start", !.hook = "retry", !.session = r]
        BY <3>3, <4>1 DEF Finish, TypeOK
      <4>3. Brings(s, p)'  BY <3>1, <4>2 DEF Brings, Busy, NoProc
      <4>4. QED  BY <4>3 DEF InHand
    <3>4. QED  BY <3>2, <3>3
  <2>3. QED  BY <2>1, <2>2
<1>4. QED  BY <1>2, <1>3

(* A flush that finds nothing to send leaves the tail delivered. *)
LEMMA TNothing ==
  ASSUME IInv, IInv', Next, Tails, NEW p \in Procs, FlushNothing(p)
  PROVE  Tails'
<1>0. PICK s : s = proc[p].session  OBVIOUS
<1>1. TypeOK /\ Busy(p) /\ s \in Sessions /\ cursor[s] \in Nat /\ said[s] \in Nat
  BY <1>0, ProcType DEF IInv, FlushNothing, Busy
<1>2. /\ cursor' = [cursor EXCEPT ![s] = IF New(s) = {} THEN @ ELSE said[s]]
      /\ UNCHANGED <<said, ended, starts>> /\ Finish(p, TRUE, said[s])
  BY <1>0 DEF FlushNothing, claude
<1>3. said'[s] <= cursor'[s]
  <2>1. CASE New(s) = {}
    <3>1. ~(cursor[s] + 1 <= said[s])
      <4>1. cursor[s] + 1 <= said[s] => cursor[s] + 1 \in New(s)  BY <1>0, <1>1 DEF New
      <4>2. QED  BY <1>0, <2>1, <4>1
    <3>2. QED  BY <1>0, <1>1, <1>2, <2>1, <3>1 DEF TypeOK
  <2>2. CASE New(s) # {}  BY <1>0, <1>1, <1>2, <2>2 DEF TypeOK
  <2>3. QED  BY <1>0, <2>1, <2>2
<1>4. Delivered(s)'  BY <1>0, <1>1, <1>3, CursorAtEnd
<1>5. \A r \in Sessions : Brings(r, p) => said[s] = said[r]  BY <1>0 DEF Brings
<1>6. \A r \in Sessions \ given' :
        /\ Handed(r) => InHand(r)'
        /\ \A q \in Procs : Brings(r, q) => InHand(r)'
  BY <1>0, <1>1, <1>2, <1>4, <1>5, FinishTail
<1>7. given \subseteq given' /\ ended \subseteq Sessions
  BY <1>0, <1>1, <1>2 DEF Finish, TypeOK
<1>8. QED  BY <1>0, <1>2, <1>6, <1>7, TailStep

(* An answer ends a flush, and moves the cursor to the end of its request. *)
LEMMA TAnswer ==
  ASSUME IInv, IInv', Next, Tails, NEW p \in Procs, NEW ok \in BOOLEAN, FlushAnswer(p, ok)
  PROVE  Tails'
<1>0. PICK s : s = proc[p].session  OBVIOUS
<1>1. /\ TypeOK /\ Busy(p) /\ s \in Sessions /\ proc[p].upto \in Nat /\ said[s] \in Nat
      /\ proc[p].pc = "answer"
  BY <1>0, ProcType DEF IInv, FlushAnswer, Busy
<1>2. UNCHANGED <<said, ended, starts>> /\ Finish(p, ok, proc[p].upto)
  BY DEF FlushAnswer, claude
<1>3. ok /\ proc[p].upto = said[s] => Delivered(s)'
  <2>1. ok => cursor'[s] = proc[p].upto
    BY <1>0, <1>1 DEF FlushAnswer, Advance, TypeOK
  <2>2. QED  BY <1>0, <1>1, <1>2, <2>1, CursorAtEnd
<1>4. \A r \in Sessions : Brings(r, p) => proc[p].upto = said[r]  BY <1>0, <1>1 DEF Brings
<1>5. \A r \in Sessions \ given' :
        /\ Handed(r) => InHand(r)'
        /\ \A q \in Procs : Brings(r, q) => InHand(r)'
  BY <1>0, <1>1, <1>2, <1>3, <1>4, FinishTail
<1>6. given \subseteq given' /\ ended \subseteq Sessions
  BY <1>0, <1>1, <1>2 DEF Finish, TypeOK
<1>7. QED  BY <1>0, <1>2, <1>5, <1>6, TailStep

(* A step that changes neither the handoff nor what a process brings. *)
LEMMA TQuiet ==
  ASSUME IInv, IInv', Next, Tails, given \subseteq given',
         \A s \in ended' \ given' : s \in ended \/ InHand(s)',
         \A s \in ended : said'[s] = said[s],
         UNCHANGED <<pending, starts>>,
         \A q \in Procs : proc'[q] = proc[q] \/ proc[q].pc = "off"
                            \/ \A s \in ended \ given' : Brings(s, q) => Brings(s, q)'
  PROVE  Tails'
<1>1. \A s : Handed(s) => InHand(s)'  BY DEF Handed, InHand
<1>2. ASSUME NEW s \in ended \ given', NEW q \in Procs, Brings(s, q)  PROVE InHand(s)'
  <2>1. Brings(s, q)'  BY <1>2 DEF Brings, Busy
  <2>2. QED  BY <2>1 DEF InHand
<1>3. QED  BY <1>1, <1>2, TailStep

(* Every step keeps the tails in hand. *)
LEMMA TStep ==
  ASSUME IInv, IInv', Next, Tails
  PROVE  Tails'
<1>0. TypeOK /\ TypeOK'  BY DEF IInv
<1>1. ASSUME NEW p \in Procs, FlushNothing(p)  PROVE Tails'
  BY <1>1, TNothing
<1>2. ASSUME NEW p \in Procs, FlushRead(p)  PROVE Tails'
  <2>1. /\ UNCHANGED <<said, ended, pending, starts, given>>
        /\ proc'[p].hook = proc[p].hook /\ proc'[p].session = proc[p].session
        /\ proc'[p].pc = "post" /\ proc'[p].upto = said[proc[p].session]
        /\ \A q \in Procs \ {p} : proc'[q] = proc[q]
    BY <1>0, <1>2 DEF FlushRead, claude, TypeOK
  <2>2. \A s : Brings(s, p) => Brings(s, p)'  BY <2>1 DEF Brings, Busy
  <2>3. QED  BY <2>1, <2>2, TQuiet
<1>3. ASSUME NEW p \in Procs, NEW b \in BOOLEAN, FlushPost(p, b)  PROVE Tails'
  <2>1. /\ UNCHANGED <<said, ended, pending, starts, given>>
        /\ proc'[p].hook = proc[p].hook /\ proc'[p].session = proc[p].session
        /\ proc[p].pc = "post" /\ proc'[p].pc = "answer" /\ proc'[p].upto = proc[p].upto
        /\ \A q \in Procs \ {p} : proc'[q] = proc[q]
    BY <1>0, <1>3 DEF FlushPost, claude, TypeOK
  <2>2. \A s : Brings(s, p) => Brings(s, p)'  BY <2>1 DEF Brings, Busy
  <2>3. QED  BY <2>1, <2>2, TQuiet
<1>4. ASSUME NEW p \in Procs, NEW ok \in BOOLEAN, FlushAnswer(p, ok)  PROVE Tails'
  BY <1>4, TAnswer
<1>5. ASSUME NEW p \in Procs, Kill(p)  PROVE Tails'
  <2>1. /\ UNCHANGED <<said, ended, pending, starts>> /\ given \subseteq given'
        /\ \A q \in Procs \ {p} : proc'[q] = proc[q]
    BY <1>0, <1>5 DEF Kill, claude, TypeOK
  <2>2. proc[p].hook = "flush" \/ proc[p].session \in given'
    BY <1>5 DEF Kill, Hooks
  <2>3. \A s \in ended \ given' : ~Brings(s, p)  BY <2>2 DEF Brings
  <2>4. QED  BY <2>1, <2>3, TQuiet
<1>6. ASSUME UNCHANGED <<said, pending, starts, proc, given>>, ended' \subseteq ended
      PROVE  Tails'
  BY <1>6, TQuiet
<1>7. ASSUME NEW p \in Procs, NEW hook, NEW s, Launch(p, hook, s)
      PROVE  /\ proc[p].pc = "off" /\ \A q \in Procs \ {p} : proc'[q] = proc[q]
             /\ hook # "flush" => Brings(s, p)'
  BY <1>0, <1>7 DEF Launch, NoProc, Busy, Brings, TypeOK
<1>8. ASSUME NEW p \in Procs, NEW s \in Sessions, Stop(p, s) \/ Compact(p, s)  PROVE Tails'
  <2>1. UNCHANGED <<said, ended, pending, starts, given>>
    BY <1>8 DEF Stop, Compact, claude, ghosts
  <2>2. CASE UNCHANGED proc  BY <1>6, <2>1, <2>2
  <2>3. CASE Launch(p, "flush", s)  BY <1>7, <2>1, <2>3, TQuiet
  <2>4. QED  BY <1>8, <2>2, <2>3 DEF Stop, Compact
<1>9. ASSUME NEW p \in Procs, NEW s \in Sessions, SessionEnd(p, s)  PROVE Tails'
  <2>1. /\ UNCHANGED <<said, pending, starts, given>> /\ ended' = ended \cup {s}
        /\ Launch(p, "end", s)
    BY <1>9 DEF SessionEnd, ghosts
  <2>2. InHand(s)'  BY <1>7, <2>1 DEF InHand
  <2>3. QED  BY <1>7, <2>1, <2>2, TQuiet
<1>10. ASSUME NEW p \in Procs, SessionStart(p)  PROVE Tails'
  <2>1. UNCHANGED <<said, ended, pending, given>>
    BY <1>10 DEF SessionStart, claude, ghosts
  <2>2. ASSUME NEW s \in Sessions, Handed(s)  PROVE InHand(s)'
    <3>1. Launch(p, "clear", s)  BY <1>10, <2>2 DEF SessionStart, Handed
    <3>2. QED  BY <1>7, <3>1 DEF InHand
  <2>3. \A q \in Procs : proc'[q] = proc[q] \/ proc[q].pc = "off"
    BY <1>7, <1>10 DEF SessionStart
  <2>4. ASSUME NEW s \in Sessions, NEW q \in Procs, Brings(s, q)  PROVE InHand(s)'
    <3>1. Brings(s, q)'  BY <2>1, <2>3, <2>4 DEF Brings, Busy
    <3>2. QED  BY <3>1 DEF InHand
  <2>5. QED  BY <1>0, <2>1, <2>2, <2>4, TailStep DEF TypeOK
<1>11. ASSUME NEW s \in Sessions, SessionClear(s)  PROVE Tails'
  <2>1. /\ UNCHANGED <<said, proc>> /\ ended' = ended \cup {s} /\ s \notin ended
        /\ starts' = starts + 1 /\ given \subseteq given'
        /\ pending' = [session |-> s, there |-> TRUE, stale |-> FALSE]
        /\ pending.there => pending.session \in given'
    BY <1>11 DEF SessionClear, HandOff
  <2>2. InHand(s)'  BY <1>0, <2>1 DEF InHand, Handed, TypeOK
  <2>3. \A r \in ended \ given' : ~Handed(r)  BY <2>1 DEF Handed
  <2>4. ASSUME NEW r \in ended, NEW q \in Procs, Brings(r, q)  PROVE InHand(r)'
    BY <2>1, <2>4 DEF Brings, Busy, InHand
  <2>5. QED  BY <2>1, <2>2, <2>3, <2>4, TailStep
<1>12. CASE Stale
  <2>1. /\ UNCHANGED <<said, ended, proc>> /\ given \subseteq given'
        /\ pending.session \in given'
    BY <1>12 DEF Stale, claude
  <2>2. \A r \in ended \ given' : ~Handed(r)  BY <2>1 DEF Handed
  <2>3. ASSUME NEW r \in ended, NEW q \in Procs, Brings(r, q)  PROVE InHand(r)'
    BY <2>1, <2>3 DEF Brings, Busy, InHand
  <2>4. QED  BY <2>1, <2>2, <2>3, TailStep
<1>13. ASSUME NEW s \in Sessions, Say(s)  PROVE Tails'
  <2>1. UNCHANGED <<ended, pending, starts, proc, given>> /\ \A r \in ended : said'[r] = said[r]
    BY <1>0, <1>13 DEF Say, ghosts, TypeOK
  <2>2. QED  BY <2>1, TQuiet
<1>14. ASSUME NEW s \in Sessions, Resume(s)  PROVE Tails'
  BY <1>6, <1>14 DEF Resume, ghosts
<1>15. QED
  BY <1>1, <1>2, <1>3, <1>4, <1>5, <1>8, <1>9, <1>10, <1>11, <1>12, <1>13, <1>14 DEF Next

(* When no hook runs and none is to start, every session that ended is at  *)
(* the server up to its last word, unless its last flush failed or was     *)
(* killed, or another window's /clear replaced or removed its handoff:     *)
(* resumed sessions and handoffs of several windows lose no other tail.    *)
THEOREM TailsArrive == Spec => []TailDelivered
<1>1. Init => Tails
  BY DEF Init, Tails
<1>2. IInv /\ IInv' /\ Tails /\ [Next]_vars => Tails'
  <2>1. ASSUME Tails, UNCHANGED vars  PROVE Tails'
    BY <2>1 DEF vars, claude, ghosts, Tails, InHand, Delivered, Handed, Brings, Busy, Numbers
  <2>2. QED  BY <2>1, TStep
<1>3. IInv /\ Tails => TailDelivered
  <2> SUFFICES ASSUME IInv, Tails, starts = 0, \A p \in Procs : ~Busy(p),
                      NEW s \in ended \ given
               PROVE  Delivered(s)
    BY DEF TailDelivered, Delivered
  <2>1. InHand(s)  BY DEF Tails
  <2>2. QED  BY <2>1 DEF InHand, Handed, Brings
<1>4. QED  BY <1>1, <1>2, <1>3, Invariance, PTL DEF Spec

-----------------------------------------------------------------------------
(* The dreams.  What a worker or a job was fed with is all there was to be *)
(* fed up to the time of its collection, or lies behind the cap of its     *)
(* transcript, or the request was full, or the rest is older than a        *)
(* last_dream_at that there was.  And who dreams holds the lock, unless    *)
(* the lock of a worker at work was removed.                               *)

StateFile == [phase : {"none", "run", "done", "fail"}, job : Jobs \cup {NoJob},
              started : Nat, last : Nat, consumed : BOOLEAN, old : BOOLEAN]
Worker == [pc : {"off", "steal", "open", "collect", "post", "poll"}, prev : Nat,
           food : SUBSET (Talks \X Nat), full : BOOLEAN, at : Nat,
           job : Jobs \cup {NoJob}, started : Nat]
ServerJob == [status : {"none", "running", "completed", "failed"},
              food : SUBSET (Talks \X Nat), full : BOOLEAN, at : Nat]

DreamTypes ==
  /\ clock \in Nat /\ high \in Nat /\ piece \in [Talks -> Seq(Nat)] /\ st \in StateFile
  /\ dreamer \in [Dreamers -> Worker] /\ job \in [Jobs -> ServerJob]
  /\ window \in [Openers -> [pc : {"off", "get", "report"}, held : StateFile]]
  /\ lockLost \in BOOLEAN

\* No piece is from the future, and the last of a transcript is its newest.
InOrder ==
  \A t \in Talks : \A k \in 1 .. Len(piece[t]) :
    piece[t][k] <= clock /\ piece[t][k] <= piece[t][Len(piece[t])]

Fed(food, full, at, ps, h) ==
  \A t \in Talks : \A k \in 1 .. Len(ps[t]) :
    ps[t][k] <= at => <<t, k>> \in food \/ k > Cap \/ full \/ ps[t][k] <= h

Given(js, j) == j \in Jobs /\ js[j].status # "none"

\* A worker in flight knows a last_dream_at that there was, and what it was fed
\* is all there was; a worker that polls has a job.
FedWorker(d) ==
  /\ d.pc \in {"post", "poll"} => d.prev <= high /\ d.at <= clock
  /\ d.pc = "post" => Fed(d.food, d.full, d.at, piece, high) /\ d.job = NoJob
  /\ d.pc = "poll" => Given(job, d.job)

FedJobs ==
  \A j \in Jobs : Given(job, j) =>
    job[j].at <= clock /\ Fed(job[j].food, job[j].full, job[j].at, piece, high)

\* Whatever names a job names one that the server took; only a dream that runs is old.
SaidTrue(s) == (s.job # NoJob => Given(job, s.job)) /\ s.last <= high /\ (s.old => s.phase = "run")
Told ==
  /\ SaidTrue(st) /\ (st.phase = "done" => st.job # NoJob)
  /\ \A o \in Openers :
       /\ window[o].pc # "off" => SaidTrue(window[o].held) /\ window[o].held.job # NoJob
       /\ window[o].pc = "report" => window[o].held.job \in taken /\ window[o].held.phase = "done"

\* Who is at work holds the lock; while a result waits that no window has read,
\* nobody dreams.
Alone ==
  ~lockLost =>
    /\ \A p \in Dreamers : AtWork(p) => tlock.by = p
    /\ (st.phase = "done" /\ ~st.consumed /\ st.job \notin taken) =>
         \A p \in Dreamers : dreamer[p].pc \notin {"post", "poll"}

DreamInv ==
  DreamTypes /\ InOrder /\ (\A p \in Dreamers : FedWorker(dreamer[p])) /\ FedJobs /\ Told

\* The next value of `high`.
HighNext == high' = IF st'.last > high THEN st'.last ELSE high

\* The latest last_dream_at never goes back, and is that of the state.
LEMMA HighGrows ==
  ASSUME DreamTypes, HighNext, st' \in StateFile
  PROVE  high' \in Nat /\ high \in Nat /\ high <= high' /\ st'.last <= high'
BY DEF DreamTypes, HighNext, StateFile

\* Transcripts only grow, by pieces that are newer than all there was.
Grown(m, n, c) ==
  \A t \in Talks : \A k \in 1 .. Len(n[t]) :
    (k \in 1 .. Len(m[t]) /\ n[t][k] = m[t][k]) \/ n[t][k] > c

\* What was fed stays so, since what is written from now on is newer.
LEMMA FedStays ==
  ASSUME clock \in Nat, piece \in [Talks -> Seq(Nat)], piece' \in [Talks -> Seq(Nat)],
         high \in Nat, high' \in Nat, high <= high', Grown(piece, piece', clock),
         NEW food, NEW full, NEW at \in Nat, at <= clock, Fed(food, full, at, piece, high)
  PROVE  Fed(food, full, at, piece', high')
<1> SUFFICES ASSUME NEW t \in Talks, NEW k \in 1 .. Len(piece'[t]), piece'[t][k] <= at
             PROVE  <<t, k>> \in food \/ k > Cap \/ full \/ piece'[t][k] <= high'
  BY DEF Fed
<1>1. piece'[t][k] \in Nat
  OBVIOUS
<1>2. k \in 1 .. Len(piece[t]) /\ piece'[t][k] = piece[t][k]
  BY <1>1 DEF Grown
<1> QED  BY <1>1, <1>2 DEF Fed

\* Time passes, and what is written is newer than all that was.
TimePasses ==
  /\ clock' \in Nat /\ clock <= clock' /\ piece' \in [Talks -> Seq(Nat)]
  /\ Grown(piece, piece', clock) /\ InOrder'

\* A step of one worker or of none: the others are fed as they were.
LEMMA OthersFed ==
  ASSUME DreamInv, TimePasses, HighNext, st' \in StateFile,
         \A j \in Jobs : Given(job, j) => Given(job', j),
         NEW p \in Dreamers, dreamer'[p] = dreamer[p]
  PROVE  FedWorker(dreamer[p])'
<1>1. /\ high' \in Nat /\ high <= high' /\ high \in Nat /\ clock \in Nat
      /\ piece \in [Talks -> Seq(Nat)]
  BY HighGrows DEF DreamInv, DreamTypes
<1>2. dreamer[p] \in Worker /\ FedWorker(dreamer[p])
  BY DEF DreamInv, DreamTypes
<1> DEFINE d == dreamer[p]
<1>3. d.prev \in Nat /\ d.at \in Nat
  BY <1>2 DEF Worker
<1>4. d.pc \in {"post", "poll"} => d.prev <= high' /\ d.at <= clock'
  BY <1>1, <1>2, <1>3 DEF FedWorker, TimePasses
<1>5. d.pc = "post" => Fed(d.food, d.full, d.at, piece', high') /\ d.job = NoJob
  BY <1>1, <1>2, <1>3, FedStays DEF FedWorker, TimePasses
<1>6. d.pc = "poll" => Given(job', d.job)
  BY <1>2 DEF FedWorker, Given
<1> QED  BY <1>4, <1>5, <1>6 DEF FedWorker

\* A job that is fed as it was, though its status may be another.
LEMMA JobsFed ==
  ASSUME DreamInv, TimePasses, HighNext, st' \in StateFile,
         NEW j \in Jobs, Given(job, j), job'[j].food = job[j].food, job'[j].at = job[j].at,
         job'[j].full = job[j].full
  PROVE  job'[j].at <= clock' /\ Fed(job'[j].food, job'[j].full, job'[j].at, piece', high')
<1>1. /\ high' \in Nat /\ high <= high' /\ high \in Nat /\ clock \in Nat
      /\ piece \in [Talks -> Seq(Nat)]
  BY HighGrows DEF DreamInv, DreamTypes
<1>2. /\ job[j].at \in Nat /\ job[j].at <= clock
      /\ Fed(job[j].food, job[j].full, job[j].at, piece, high)
  BY DEF DreamInv, DreamTypes, FedJobs, ServerJob
<1>3. Fed(job[j].food, job[j].full, job[j].at, piece', high')
  BY <1>1, <1>2, FedStays DEF TimePasses
<1> QED  BY <1>1, <1>2, <1>3 DEF TimePasses

\* Who is not in flight is fed.
LEMMA IdleFed ==
  ASSUME NEW p \in Dreamers, dreamer'[p].pc \notin {"post", "poll"}
  PROVE  FedWorker(dreamer[p])'
BY DEF FedWorker

\* Who is told the truth stays so while the server keeps its jobs.
LEMMA StillTrue ==
  ASSUME DreamInv, HighNext, st' \in StateFile, \A j \in Jobs : Given(job, j) => Given(job', j),
         NEW s \in StateFile, SaidTrue(s)
  PROVE  (s.job # NoJob => Given(job', s.job)) /\ s.last <= high' /\ (s.old => s.phase = "run")
<1>1. high' \in Nat /\ high <= high' /\ high \in Nat /\ s.last \in Nat
  BY HighGrows DEF DreamInv, StateFile
<1> QED  BY <1>1 DEF SaidTrue, Given

\* A step of no window.
LEMMA WindowsTold ==
  ASSUME DreamInv, HighNext, st' \in StateFile, \A j \in Jobs : Given(job, j) => Given(job', j),
         window' = window, taken' = taken,
         st'.job # NoJob => Given(job', st'.job), st'.old => st'.phase = "run",
         st'.phase = "done" => st'.job # NoJob
  PROVE  Told'
<1>1. SaidTrue(st)'
  BY HighGrows DEF SaidTrue, DreamInv
<1>2. ASSUME NEW o \in Openers, window[o].pc # "off"  PROVE SaidTrue(window[o].held)'
  BY <1>2, StillTrue DEF SaidTrue, DreamInv, DreamTypes, Told
<1> QED  BY <1>1, <1>2 DEF DreamInv, Told

\* A step that takes no new food: a worker stays as it is or is not in flight.
LEMMA PlainDream ==
  ASSUME DreamInv, TimePasses, HighNext, st' \in StateFile, UNCHANGED job, lockLost' \in BOOLEAN,
         dreamer' \in [Dreamers -> Worker],
         \A p \in Dreamers : dreamer'[p] = dreamer[p] \/ dreamer'[p].pc \notin {"post", "poll"},
         window' \in [Openers -> [pc : {"off", "get", "report"}, held : StateFile]], Told'
  PROVE  DreamInv'
<1>1. \A p \in Dreamers : FedWorker(dreamer[p])'
  BY OthersFed, IdleFed
<1>2. FedJobs'
  BY JobsFed DEF FedJobs
<1>3. DreamTypes'
  BY HighGrows DEF DreamInv, DreamTypes, TimePasses
<1> QED  BY <1>1, <1>2, <1>3 DEF DreamInv, TimePasses

LEMMA DreamStart == DInit => DreamInv /\ Alone
<1> SUFFICES ASSUME DInit  PROVE DreamInv /\ Alone
  OBVIOUS
<1>0. Blank \in StateFile
  BY DEF StateFile, Blank, NoJob
<1>1. DreamTypes
  <2>1. Awake \in Worker /\ [status |-> "none", food |-> {}, full |-> FALSE, at |-> 0] \in ServerJob
    BY DEF Worker, ServerJob, Awake, NoJob
  <2>2. NoWindow \in [pc : {"off", "get", "report"}, held : StateFile]
    BY <1>0 DEF NoWindow
  <2>3. piece \in [Talks -> Seq(Nat)]
    BY DEF DInit
  <2> QED  BY <1>0, <2>1, <2>2, <2>3 DEF DInit, DreamTypes
<1>01. InOrder
  BY DEF DInit, InOrder
<1>2. (\A p \in Dreamers : FedWorker(dreamer[p])) /\ FedJobs /\ Told
  BY DEF DInit, FedWorker, FedJobs, Told, SaidTrue, Given, Awake, NoWindow, NoJob, Blank
<1>3. Alone
  BY DEF DInit, Alone, AtWork, Awake, Blank
<1> QED  BY <1>1, <1>01, <1>2, <1>3 DEF DreamInv

\* What a step that leaves time, state file, windows or workers alone needs not say.
LEMMA StillThere ==
  ASSUME DreamInv, HighNext
  PROVE  /\ clock' = clock /\ piece' = piece => TimePasses
         /\ clock' = clock + 1 /\ piece' = piece => TimePasses
         /\ st' = st => st' \in StateFile
         /\ st' = st /\ window' = window /\ taken' = taken /\ job' = job => Told'
         /\ dreamer' = dreamer => dreamer' \in [Dreamers -> Worker]
<1>1. clock \in Nat /\ piece \in [Talks -> Seq(Nat)] /\ InOrder
  BY DEF DreamInv, DreamTypes
<1>2. Grown(piece, piece, clock)
  BY DEF Grown
<1>3. clock' = clock /\ piece' = piece => TimePasses
  BY <1>1, <1>2 DEF TimePasses, InOrder
<1>4. clock' = clock + 1 /\ piece' = piece => TimePasses
  <2> SUFFICES ASSUME clock' = clock + 1, piece' = piece  PROVE TimePasses
    OBVIOUS
  <2>1. \A t \in Talks : \A k \in 1 .. Len(piece[t]) : piece[t][k] \in Nat
    BY <1>1
  <2> QED  BY <1>1, <1>2, <2>1 DEF TimePasses, InOrder
<1>5. st' = st => st' \in StateFile
  BY DEF DreamInv, DreamTypes
<1>6. st' = st /\ window' = window /\ taken' = taken /\ job' = job => Told'
  <2> SUFFICES ASSUME st' = st, window' = window, taken' = taken, job' = job  PROVE Told'
    OBVIOUS
  <2>1. /\ st'.job # NoJob => Given(job', st'.job)
        /\ st'.old => st'.phase = "run"
        /\ st'.phase = "done" => st'.job # NoJob
    BY DEF DreamInv, Told, SaidTrue
  <2> QED  BY <1>5, <2>1, WindowsTold
<1> QED  BY <1>3, <1>4, <1>5, <1>6 DEF DreamInv, DreamTypes

\* A worker that goes back to sleep.
LEMMA AwakeWorker ==
  ASSUME DreamInv, NEW p \in Dreamers, dreamer' = [dreamer EXCEPT ![p] = Awake]
  PROVE  /\ dreamer' \in [Dreamers -> Worker]
         /\ \A q \in Dreamers : dreamer'[q] = dreamer[q] \/ dreamer'[q].pc \notin {"post", "poll"}
BY DEF DreamInv, DreamTypes, Worker, Awake, NoJob

\* Who is lockLost is said by a Boolean.
LEMMA UnlinkType ==
  ASSUME DreamInv, NEW p \in Dreamers, Unlink(p) \/ lockLost' = lockLost
  PROVE  lockLost' \in BOOLEAN
BY DEF DreamInv, DreamTypes, Unlink

\* The lock is taken, taken over, or left behind.
LockStep(p) == DreamLock(p) \/ DreamSteal(p) \/ DreamOpen(p) \/ DreamerDies(p)

LEMMA LockDream ==
  ASSUME DreamInv, NEW p \in Dreamers, LockStep(p), HighNext
  PROVE  DreamInv'
<1>1. UNCHANGED <<clock, piece, st, job, window, taken>> /\ (Unlink(p) \/ lockLost' = lockLost)
  BY DEF LockStep, DreamLock, DreamSteal, DreamOpen, DreamerDies
<1>2. \/ \E c \in {"collect", "steal", "open"} : dreamer' = [dreamer EXCEPT ![p].pc = c]
      \/ dreamer' = [dreamer EXCEPT ![p] = Awake]
  BY DEF LockStep, DreamLock, DreamSteal, DreamOpen, DreamerDies
<1>3. /\ dreamer' \in [Dreamers -> Worker]
      /\ \A q \in Dreamers : dreamer'[q] = dreamer[q] \/ dreamer'[q].pc \notin {"post", "poll"}
  <2>1. CASE dreamer' = [dreamer EXCEPT ![p] = Awake]
    BY <2>1, AwakeWorker
  <2>2. CASE \E c \in {"collect", "steal", "open"} : dreamer' = [dreamer EXCEPT ![p].pc = c]
    <3>1. PICK c \in {"collect", "steal", "open"} : dreamer' = [dreamer EXCEPT ![p].pc = c]
      BY <2>2
    <3>2. dreamer \in [Dreamers -> Worker] /\ dreamer[p] \in Worker
      BY DEF DreamInv, DreamTypes
    <3>3. [dreamer[p] EXCEPT !.pc = c] \in Worker /\ [dreamer[p] EXCEPT !.pc = c].pc = c
      BY <3>2 DEF Worker
    <3> QED  BY <3>1, <3>2, <3>3
  <2> QED  BY <1>2, <2>1, <2>2
<1>4. window' \in [Openers -> [pc : {"off", "get", "report"}, held : StateFile]]
  BY <1>1 DEF DreamInv, DreamTypes
<1> QED  BY <1>1, <1>3, <1>4, StillThere, UnlinkType, PlainDream

\* Transcripts grow.
LEMMA ChatDream ==
  ASSUME DreamInv, NEW t \in Talks, Chat(t), HighNext
  PROVE  DreamInv'
<1>1. /\ clock' = clock + 1 /\ UNCHANGED <<st, dreamer, job, window, taken, lockLost>>
      /\ piece' = [piece EXCEPT ![t] = Append(@, clock + 1)]
  BY DEF Chat
<1>2. clock \in Nat /\ piece \in [Talks -> Seq(Nat)] /\ InOrder
  BY DEF DreamInv, DreamTypes
<1>3. piece' \in [Talks -> Seq(Nat)] /\ \A u \in Talks \ {t} : piece'[u] = piece[u]
  BY <1>1, <1>2
<1>4. /\ Len(piece'[t]) = Len(piece[t]) + 1 /\ Len(piece[t]) \in Nat
      /\ piece'[t][Len(piece[t]) + 1] = clock + 1
      /\ \A k \in 1 .. Len(piece[t]) : piece'[t][k] = piece[t][k]
  <2>1. piece'[t] = Append(piece[t], clock + 1) /\ piece[t] \in Seq(Nat)
    BY <1>1, <1>2
  <2> QED  BY <1>2, <2>1
<1>5. Grown(piece, piece', clock)
  <2>1. ASSUME NEW u \in Talks, NEW k \in 1 .. Len(piece'[u])
        PROVE  (k \in 1 .. Len(piece[u]) /\ piece'[u][k] = piece[u][k]) \/ piece'[u][k] > clock
    <3>1. CASE u # t
      BY <1>3, <2>1, <3>1
    <3>2. CASE u = t
      BY <1>2, <1>4, <2>1, <3>2
    <3> QED  BY <3>1, <3>2
  <2> QED  BY <2>1 DEF Grown
<1>6. InOrder'
  <2>1. ASSUME NEW u \in Talks, NEW k \in 1 .. Len(piece'[u])
        PROVE  piece'[u][k] <= clock' /\ piece'[u][k] <= piece'[u][Len(piece'[u])]
    <3>0. \A v \in Talks : \A i \in 1 .. Len(piece[v]) : piece[v][i] \in Nat
      BY <1>2
    <3>1. CASE u # t
      BY <1>1, <1>2, <1>3, <2>1, <3>0, <3>1 DEF InOrder
    <3>2. CASE u = t /\ k \in 1 .. Len(piece[t])
      <4>1. piece'[t][k] = piece[t][k] /\ piece[t][k] \in Nat /\ piece[t][k] <= clock
        BY <1>2, <1>4, <3>0, <3>2 DEF InOrder
      <4>2. piece'[t][Len(piece'[t])] = clock + 1
        BY <1>4
      <4> QED  BY <1>1, <1>2, <3>2, <4>1, <4>2
    <3>3. CASE u = t /\ k \notin 1 .. Len(piece[t])
      <4>1. k = Len(piece'[t]) /\ piece'[t][k] = clock + 1
        BY <1>4, <2>1, <3>3
      <4> QED  BY <1>1, <1>2, <3>3, <4>1
    <3> QED  BY <3>1, <3>2, <3>3
  <2> QED  BY <2>1 DEF InOrder
<1>7. TimePasses
  BY <1>1, <1>2, <1>3, <1>5, <1>6 DEF TimePasses
<1>8. window' \in [Openers -> [pc : {"off", "get", "report"}, held : StateFile]] /\ lockLost' \in BOOLEAN
  BY <1>1 DEF DreamInv, DreamTypes
<1> QED  BY <1>1, <1>7, <1>8, StillThere, PlainDream

\* Things get old.
LEMMA AgeDream ==
  ASSUME DreamInv, Age, HighNext
  PROVE  DreamInv'
<1>1. /\ UNCHANGED <<clock, piece, dreamer, job, window, taken, lockLost>>
      /\ st' = [st EXCEPT !.old = (st.phase = "run")]
  BY DEF Age
<1>2. /\ st' \in StateFile /\ st'.job = st.job /\ st'.phase = st.phase
      /\ (st'.old => st'.phase = "run")
  BY <1>1 DEF DreamInv, DreamTypes, StateFile
<1>3. Told'
  <2>1. (st'.job # NoJob => Given(job', st'.job)) /\ (st'.phase = "done" => st'.job # NoJob)
    BY <1>1, <1>2 DEF DreamInv, Told, SaidTrue
  <2> QED  BY <1>1, <1>2, <2>1, WindowsTold
<1>4. window' \in [Openers -> [pc : {"off", "get", "report"}, held : StateFile]] /\ lockLost' \in BOOLEAN
  BY <1>1 DEF DreamInv, DreamTypes
<1> QED  BY <1>1, <1>2, <1>3, <1>4, StillThere, PlainDream

\* What a worker that collects becomes.
Fuller(talks) ==
  [pc |-> "post", prev |-> st.last, food |-> UNION {Extract(t) : t \in talks},
   full |-> Cardinality(talks) = Room, at |-> clock, job |-> NoJob, started |-> 0]

\* Collecting: the newest that fit, or all that there is since then.
LEMMA CollectDream ==
  ASSUME DreamInv, NEW p \in Dreamers, Collect(p), HighNext
  PROVE  DreamInv'
<1>0. UNCHANGED <<clock, piece, job, window, taken>>
  BY DEF Collect
<1>00. window' \in [Openers -> [pc : {"off", "get", "report"}, held : StateFile]]
  BY <1>0 DEF DreamInv, DreamTypes
<1>1. CASE Release(p) /\ UNCHANGED st
  <2>1. dreamer' = [dreamer EXCEPT ![p] = Awake] /\ lockLost' \in BOOLEAN
    BY <1>1, UnlinkType DEF Release
  <2> QED  BY <1>0, <1>00, <1>1, <2>1, AwakeWorker, StillThere, PlainDream
<1>2. CASE ~(Release(p) /\ UNCHANGED st)
  <2>1. PICK talks \in SUBSET Talks, since \in {st.last, 0} :
          /\ IsFood(talks, since)
          /\ dreamer' = [dreamer EXCEPT ![p] = Fuller(talks)]
          /\ st' = [phase |-> "run", job |-> NoJob, started |-> clock, last |-> st.last,
                    consumed |-> FALSE, old |-> FALSE]
          /\ UNCHANGED <<tlock, lockLost>>
    BY <1>2 DEF Collect, Fuller
  <2>2. /\ clock \in Nat /\ high \in Nat /\ piece \in [Talks -> Seq(Nat)] /\ InOrder
        /\ st.last \in Nat /\ st.last <= high
    BY DEF DreamInv, DreamTypes, Told, SaidTrue, StateFile
  <2>3. st' \in StateFile /\ st'.job = NoJob /\ ~st'.old /\ st'.phase = "run"
    BY <2>1, <2>2 DEF StateFile, NoJob
  <2>4. TimePasses /\ high' \in Nat /\ high <= high' /\ st'.last <= high'
    BY <1>0, <2>3, StillThere, HighGrows DEF DreamInv
  <2>5. Fed(Fuller(talks).food, Fuller(talks).full, clock, piece, high')
    <3> SUFFICES ASSUME NEW t \in Talks, NEW k \in 1 .. Len(piece[t]), ~(k > Cap),
                        ~Fuller(talks).full, ~(piece[t][k] <= high')
                 PROVE  <<t, k>> \in Fuller(talks).food
      BY DEF Fed
    <3>1. talks = {u \in Talks : mtime(u) > since}
      BY <2>1 DEF IsFood, Fuller
    <3>2. piece[t][k] \in Nat /\ since \in Nat /\ since <= high
      BY <2>2
    <3>3. mtime(t) = piece[t][Len(piece[t])] /\ Len(piece[t]) \in Nat /\ mtime(t) \in Nat
      <4>1. piece[t] \in Seq(Nat) /\ piece[t] # <<>> /\ Len(piece[t]) \in 1 .. Len(piece[t])
        BY <2>2
      <4> QED  BY <4>1 DEF mtime
    <3>4. mtime(t) > since
      BY <2>2, <2>4, <3>2, <3>3 DEF InOrder
    <3>5. t \in talks /\ k <= Cap
      BY <3>1, <3>4, DreamsAssumption
    <3> QED  BY <3>5 DEF Fuller, Extract
  <2>6. Fuller(talks) \in Worker
    <3>1. \A t \in talks : Extract(t) \subseteq Talks \X Nat
      BY <2>2 DEF Extract
    <3>2. Fuller(talks).food \in SUBSET (Talks \X Nat)
      BY <3>1 DEF Fuller
    <3> QED  BY <2>2, <3>2 DEF Fuller, Worker, NoJob
  <2>7. dreamer' \in [Dreamers -> Worker] /\ \A q \in Dreamers \ {p} : dreamer'[q] = dreamer[q]
    BY <2>1, <2>6 DEF DreamInv, DreamTypes
  <2>8. FedWorker(dreamer[p])'
    <3>1. dreamer'[p] = Fuller(talks)
      BY <2>1 DEF DreamInv, DreamTypes
    <3>2. clock' = clock /\ piece' = piece /\ st.last <= high'
      BY <1>0, <2>2, <2>4
    <3>3. /\ Fuller(talks).pc = "post" /\ Fuller(talks).prev = st.last /\ Fuller(talks).at = clock
          /\ Fuller(talks).job = NoJob
      BY DEF Fuller
    <3> QED  BY <2>2, <2>5, <3>1, <3>2, <3>3 DEF FedWorker
  <2>9. \A q \in Dreamers : FedWorker(dreamer[q])'
    BY <1>0, <2>3, <2>4, <2>7, <2>8, OthersFed
  <2>10. FedJobs'
    BY <1>0, <2>3, <2>4, JobsFed DEF FedJobs
  <2>11. Told'
    BY <1>0, <2>3, WindowsTold
  <2> QED  BY <1>0, <1>00, <2>1, <2>3, <2>4, <2>7, <2>9, <2>10, <2>11
           DEF DreamInv, DreamTypes, TimePasses
<1> QED  BY <1>1, <1>2

\* The server takes a job: it is fed what the worker had.
LEMMA AcceptDream ==
  ASSUME DreamInv, NEW p \in Dreamers, Accept(p), HighNext
  PROVE  DreamInv'
<1>0. UNCHANGED <<clock, piece, window, taken, lockLost>> /\ dreamer[p].pc = "post"
  BY DEF Accept
<1>1. PICK j \in Jobs :
        /\ job[j].status = "none"
        /\ job' = [job EXCEPT ![j] = [status |-> "running", food |-> dreamer[p].food,
                                      full |-> dreamer[p].full, at |-> dreamer[p].at]]
        /\ dreamer' = [dreamer EXCEPT ![p].pc = "poll", ![p].job = j, ![p].started = st.started]
        /\ st' = [st EXCEPT !.phase = "run", !.job = j, !.old = FALSE]
  BY DEF Accept
<1>2. dreamer[p] \in Worker /\ FedWorker(dreamer[p]) /\ st.started \in Nat
  BY DEF DreamInv, DreamTypes, StateFile
<1>3. /\ dreamer[p].food \subseteq Talks \X Nat /\ dreamer[p].at \in Nat
      /\ dreamer[p].prev \in Nat /\ dreamer[p].full \in BOOLEAN
  BY <1>2 DEF Worker
<1>4. st' \in StateFile /\ st'.job = j /\ ~st'.old /\ st'.phase = "run"
  BY <1>1 DEF DreamInv, DreamTypes, StateFile
<1>5. TimePasses /\ high \in Nat /\ high' \in Nat /\ high <= high' /\ st'.last <= high'
  BY <1>0, <1>4, StillThere, HighGrows DEF DreamInv
<1>6. /\ job' \in [Jobs -> ServerJob] /\ Given(job', j)
      /\ \A i \in Jobs \ {j} : job'[i] = job[i]
      /\ job'[j] = [status |-> "running", food |-> dreamer[p].food, full |-> dreamer[p].full,
                    at |-> dreamer[p].at]
  <2>1. [status |-> "running", food |-> dreamer[p].food, full |-> dreamer[p].full,
         at |-> dreamer[p].at] \in ServerJob
    BY <1>3 DEF ServerJob
  <2> QED  BY <1>1, <2>1 DEF DreamInv, DreamTypes, Given
<1>7. \A i \in Jobs : Given(job, i) => Given(job', i)
  BY <1>6 DEF Given
<1>8. /\ dreamer' \in [Dreamers -> Worker] /\ \A q \in Dreamers \ {p} : dreamer'[q] = dreamer[q]
      /\ dreamer'[p] = [dreamer[p] EXCEPT !.pc = "poll", !.job = j, !.started = st.started]
  <2>1. [dreamer[p] EXCEPT !.pc = "poll", !.job = j, !.started = st.started] \in Worker
    BY <1>2 DEF Worker
  <2> QED  BY <1>1, <2>1 DEF DreamInv, DreamTypes
<1>9. FedWorker(dreamer[p])'
  <2>1. /\ dreamer'[p].pc = "poll" /\ dreamer'[p].job = j
        /\ dreamer'[p].prev = dreamer[p].prev /\ dreamer'[p].at = dreamer[p].at
    BY <1>2, <1>8 DEF Worker
  <2>2. dreamer[p].prev <= high /\ dreamer[p].at <= clock
    BY <1>0, <1>2 DEF FedWorker
  <2>3. dreamer'[p].prev <= high' /\ dreamer'[p].at <= clock'
    BY <1>0, <1>3, <1>5, <2>1, <2>2
  <2> QED  BY <1>6, <2>1, <2>3 DEF FedWorker
<1>10. \A q \in Dreamers : FedWorker(dreamer[q])'
  BY <1>4, <1>5, <1>7, <1>8, <1>9, OthersFed
<1>11. FedJobs'
  <2>1. job'[j].at <= clock' /\ Fed(job'[j].food, job'[j].full, job'[j].at, piece', high')
    <3>1. dreamer[p].at <= clock /\ Fed(dreamer[p].food, dreamer[p].full, dreamer[p].at, piece, high)
      BY <1>0, <1>2 DEF FedWorker
    <3>2. Fed(dreamer[p].food, dreamer[p].full, dreamer[p].at, piece', high')
      BY <1>3, <1>5, <3>1, FedStays DEF DreamInv, DreamTypes, TimePasses
    <3> QED  BY <1>0, <1>6, <3>1, <3>2
  <2>2. \A i \in Jobs \ {j} : Given(job', i) =>
          job'[i].at <= clock' /\ Fed(job'[i].food, job'[i].full, job'[i].at, piece', high')
    BY <1>4, <1>5, <1>6, JobsFed DEF Given
  <2> QED  BY <2>1, <2>2 DEF FedJobs
<1>12. Told'
  BY <1>0, <1>4, <1>6, <1>7, WindowsTold
<1> QED  BY <1>0, <1>4, <1>5, <1>6, <1>8, <1>10, <1>11, <1>12 DEF DreamInv, DreamTypes, TimePasses

\* A job ends: the server still has it.
LEMMA JobEndsDream ==
  ASSUME DreamInv, NEW j \in Jobs, NEW status \in {"completed", "failed"}, JobEnds(j, status), HighNext
  PROVE  DreamInv'
<1>1. /\ UNCHANGED <<clock, piece, st, dreamer, window, taken, lockLost>>
      /\ job' = [job EXCEPT ![j].status = status]
  BY DEF JobEnds
<1>2. /\ job' \in [Jobs -> ServerJob] /\ Given(job, j)
      /\ \A i \in Jobs : job'[i].food = job[i].food /\ job'[i].at = job[i].at
                         /\ job'[i].full = job[i].full
      /\ \A i \in Jobs : Given(job, i) <=> Given(job', i)
  BY <1>1 DEF JobEnds, DreamInv, DreamTypes, ServerJob, Given
<1>3. TimePasses /\ st' \in StateFile /\ high' \in Nat /\ st'.last <= high'
  BY <1>1, StillThere, HighGrows DEF DreamInv
<1>4. \A p \in Dreamers : FedWorker(dreamer[p])'
  BY <1>1, <1>2, <1>3, OthersFed
<1>5. FedJobs'
  BY <1>2, <1>3, JobsFed DEF FedJobs
<1>6. Told'
  <2>1. /\ st'.job # NoJob => Given(job', st'.job)
        /\ st'.old => st'.phase = "run"
        /\ st'.phase = "done" => st'.job # NoJob
    BY <1>1, <1>2 DEF DreamInv, Told, SaidTrue, Given
  <2> QED  BY <1>1, <1>2, <1>3, <2>1, WindowsTold
<1> QED  BY <1>1, <1>2, <1>3, <1>4, <1>5, <1>6 DEF DreamInv, DreamTypes, TimePasses

\* The end of a worker: what its state file says of a job is of its own.
EndStep(p) == PostLost(p) \/ PollDone(p) \/ PollFailed(p) \/ PollEnds(p)

LEMMA EndDream ==
  ASSUME DreamInv, NEW p \in Dreamers, EndStep(p), HighNext
  PROVE  DreamInv' /\ st'.job = dreamer[p].job /\ dreamer[p].pc \in {"post", "poll"}
<1>1. /\ UNCHANGED <<piece, job, window, taken>> /\ dreamer' = [dreamer EXCEPT ![p] = Awake]
      /\ Unlink(p) /\ dreamer[p].pc \in {"post", "poll"} /\ (clock' = clock \/ clock' = clock + 1)
  BY DEF EndStep, PostLost, PollDone, PollFailed, PollEnds, Fail, Release
<1>2. clock \in Nat /\ dreamer[p] \in Worker /\ FedWorker(dreamer[p])
  BY DEF DreamInv, DreamTypes
<1>3. /\ dreamer[p].prev \in Nat /\ dreamer[p].started \in Nat
      /\ dreamer[p].job \in Jobs \cup {NoJob}
  BY <1>2 DEF Worker
<1>4. st' \in StateFile /\ st'.job = dreamer[p].job /\ ~st'.old
  <2>1. CASE \E last \in Nat : Fail(p, last)
    BY <1>3, <2>1 DEF Fail, StateFile
  <2>2. CASE PollDone(p)
    BY <1>2, <1>3, <2>2 DEF PollDone, StateFile
  <2> QED  BY <1>3, <2>1, <2>2 DEF EndStep, PostLost, PollFailed, PollEnds, FailedLast
<1>5. st'.job # NoJob => Given(job, st'.job)
  BY <1>1, <1>2, <1>4 DEF FedWorker
<1>51. st'.phase = "done" => st'.job # NoJob
  <2>1. CASE PollDone(p)
    <3>1. Given(job, dreamer[p].job)
      BY <1>2, <2>1 DEF PollDone, FedWorker
    <3> QED  BY <1>4, <3>1, DreamsAssumption DEF Given, NoJob
  <2>2. CASE ~PollDone(p)
    BY <2>2 DEF EndStep, PostLost, PollFailed, PollEnds, Fail
  <2> QED  BY <2>1, <2>2
<1>6. Told'
  BY <1>1, <1>4, <1>5, <1>51, WindowsTold
<1>7. window' \in [Openers -> [pc : {"off", "get", "report"}, held : StateFile]] /\ lockLost' \in BOOLEAN
  BY <1>1, UnlinkType DEF DreamInv, DreamTypes
<1> QED  BY <1>1, <1>4, <1>6, <1>7, AwakeWorker, StillThere, PlainDream

\* A window reads the state, hears of an orphan, reports or goes away.
WindowStep(o) == ReadState(o) \/ OrphanAnswer(o) \/ Report(o) \/ OpenerEnds(o)

\* What a window writes names the job that it had read of, which it has taken.
LEMMA WindowSays ==
  ASSUME DreamInv, HighNext, NEW o \in Openers, OrphanAnswer(o) \/ Report(o)
  PROVE  /\ window[o].pc # "off" /\ window'[o] # window[o]
         /\ window[o].held \in StateFile /\ SaidTrue(window[o].held) /\ window[o].held.job # NoJob
         /\ st' \in StateFile /\ st'.job = window[o].held.job /\ st'.phase = "done"
         /\ (st'.old => window[o].held.old /\ window[o].held.phase = "done")
         /\ st'.job \in taken' /\ taken \subseteq taken'
         /\ (OrphanAnswer(o) => ~st'.consumed /\ ~st'.old)
         /\ (Report(o) => st'.consumed)
<1>1. /\ window \in [Openers -> [pc : {"off", "get", "report"}, held : StateFile]]
      /\ window[o].held \in StateFile /\ clock \in Nat
  BY DEF DreamInv, DreamTypes
<1>2. window[o].pc # "off" => SaidTrue(window[o].held) /\ window[o].held.job # NoJob
  BY DEF DreamInv, Told
<1>3. CASE OrphanAnswer(o)
  <2>1. /\ window[o].pc = "get" /\ taken' = taken \cup {window[o].held.job}
        /\ st' = [window[o].held EXCEPT !.phase = "done", !.last = clock + 1,
                                        !.consumed = FALSE, !.old = FALSE]
        /\ window' = [window EXCEPT ![o] = [pc |-> "report", held |-> st']]
    BY <1>3 DEF OrphanAnswer
  <2>2. /\ st' \in StateFile /\ st'.job = window[o].held.job /\ st'.phase = "done"
        /\ ~st'.consumed /\ ~st'.old
    <3> DEFINE h == window[o].held
    <3>1. h \in StateFile /\ clock + 1 \in Nat
      BY <1>1
    <3>2. st' = [h EXCEPT !.phase = "done", !.last = clock + 1, !.consumed = FALSE, !.old = FALSE]
      BY <2>1
    <3> HIDE DEF h
    <3>3. st' \in StateFile /\ st'.job = h.job /\ st'.phase = "done" /\ ~st'.consumed /\ ~st'.old
      BY <3>1, <3>2 DEF StateFile
    <3> QED  BY <3>3 DEF h
  <2>3. window'[o].pc = "report"
    BY <1>1, <2>1
  <2>4. ~Report(o)
    BY <2>1 DEF Report
  <2> QED  BY <1>1, <1>2, <2>1, <2>2, <2>3, <2>4
<1>4. CASE Report(o)
  <2>1. /\ window[o].pc = "report" /\ taken' = taken
        /\ st' = [window[o].held EXCEPT !.consumed = TRUE]
        /\ window' = [window EXCEPT ![o] = NoWindow]
    BY <1>4 DEF Report
  <2>2. window[o].held.job \in taken /\ window[o].held.phase = "done"
    BY <2>1 DEF DreamInv, Told
  <2>3. /\ st' \in StateFile /\ st'.job = window[o].held.job /\ st'.phase = "done"
        /\ st'.consumed /\ st'.old = window[o].held.old
    BY <1>1, <2>1, <2>2 DEF StateFile
  <2>4. window'[o].pc = "off"
    BY <1>1, <2>1 DEF NoWindow
  <2>5. ~OrphanAnswer(o)
    BY <2>1 DEF OrphanAnswer
  <2> QED  BY <1>1, <1>2, <2>1, <2>2, <2>3, <2>4, <2>5
<1> QED  BY <1>3, <1>4

LEMMA WindowDream ==
  ASSUME DreamInv, NEW o \in Openers, WindowStep(o), HighNext
  PROVE  DreamInv'
<1>0. /\ UNCHANGED <<piece, dreamer, job, lockLost>> /\ (clock' = clock \/ clock' = clock + 1)
      /\ \A i \in Openers \ {o} : window'[i] = window[i]
  BY DEF WindowStep, ReadState, OrphanAnswer, Report, OpenerEnds, DreamInv, DreamTypes
<1>1. lockLost' \in BOOLEAN /\ (\A j \in Jobs : Given(job, j) => Given(job', j))
      /\ window \in [Openers -> [pc : {"off", "get", "report"}, held : StateFile]]
      /\ st \in StateFile
  BY <1>0 DEF DreamInv, DreamTypes
<1>2. Blank \in StateFile
  BY DEF StateFile, Blank, NoJob
<1>3. /\ st' \in StateFile /\ taken \subseteq taken' /\ (st'.phase = "done" => st'.job # NoJob)
      /\ (st'.job # NoJob => Given(job', st'.job)) /\ (st'.old => st'.phase = "run")
  <2>1. CASE ReadState(o) \/ OpenerEnds(o)
    BY <1>0, <2>1 DEF ReadState, OpenerEnds, DreamInv, DreamTypes, Told, SaidTrue
  <2>2. CASE OrphanAnswer(o) \/ Report(o)
    <3>1. st'.job # NoJob => Given(job', st'.job)
      BY <1>0, <2>2, WindowSays DEF SaidTrue
    <3>2. ~st'.old
      BY <2>2, WindowSays DEF SaidTrue
    <3> QED  BY <2>2, <3>1, <3>2, WindowSays
  <2> QED  BY <2>1, <2>2 DEF WindowStep
<1>4. SaidTrue(st)' /\ high' \in Nat
  BY <1>3, HighGrows DEF SaidTrue, DreamInv
<1>5. /\ window' \in [Openers -> [pc : {"off", "get", "report"}, held : StateFile]]
      /\ \/ window'[o].pc = "off"
         \/ /\ window'[o].held = st' /\ st'.job # NoJob
            /\ (window'[o].pc = "report" => st'.job \in taken' /\ st'.phase = "done")
  <2>1. CASE ReadState(o)
    <3>1. PICK pc \in {"get", "report"} :
            /\ window' = [window EXCEPT ![o] = [pc |-> pc, held |-> st]] /\ st' = st
            /\ IF pc = "get" THEN st.job # NoJob ELSE st.phase = "done" /\ taken' = taken \cup {st.job}
      BY <2>1 DEF ReadState
    <3>2. st.job # NoJob
      BY <2>1, <3>1 DEF DreamInv, Told, ReadState
    <3> QED  BY <1>1, <3>1, <3>2
  <2>2. CASE OrphanAnswer(o)
    <3>1. window' = [window EXCEPT ![o] = [pc |-> "report", held |-> st']]
      BY <2>2 DEF OrphanAnswer
    <3> QED  BY <1>1, <1>3, <2>2, <3>1, WindowSays
  <2>3. CASE Report(o) \/ OpenerEnds(o)
    <3>1. window' = [window EXCEPT ![o] = NoWindow]
      BY <2>3 DEF Report, OpenerEnds
    <3> QED  BY <1>1, <1>2, <3>1 DEF NoWindow
  <2> QED  BY <2>1, <2>2, <2>3 DEF WindowStep
<1>6. ASSUME NEW i \in Openers
      PROVE  /\ window'[i].pc # "off" => SaidTrue(window[i].held)' /\ window'[i].held.job # NoJob
             /\ window'[i].pc = "report" => window'[i].held.job \in taken' /\ window'[i].held.phase = "done"
  <2>1. CASE i = o
    BY <1>4, <1>5, <2>1 DEF SaidTrue
  <2>2. CASE i # o
    <3>1. window'[i] = window[i] /\ window[i].held \in StateFile
      BY <1>0, <1>1, <2>2
    <3>2. window[i].pc # "off" => SaidTrue(window[i].held) /\ window[i].held.job # NoJob
      BY DEF DreamInv, Told
    <3>3. window[i].pc # "off" => SaidTrue(window[i].held)'
      BY <1>1, <1>3, <3>1, <3>2, StillTrue DEF SaidTrue
    <3>4. window[i].pc = "report" => window[i].held.job \in taken /\ window[i].held.phase = "done"
      BY DEF DreamInv, Told
    <3> QED  BY <1>3, <3>1, <3>2, <3>3, <3>4
  <2> QED  BY <2>1, <2>2
<1>7. Told'
  BY <1>3, <1>4, <1>6 DEF Told
<1>8. dreamer' \in [Dreamers -> Worker] /\ TimePasses
  BY <1>0, StillThere
<1> QED  BY <1>0, <1>1, <1>3, <1>5, <1>7, <1>8, PlainDream

\* A worker goes on to its next step.
LEMMA NextStep ==
  ASSUME DreamInv, NEW p \in Dreamers, NEW c, dreamer' = [dreamer EXCEPT ![p].pc = c]
  PROVE  dreamer'[p].pc = c
<1>1. dreamer \in [Dreamers -> Worker] /\ dreamer[p] \in Worker
  BY DEF DreamInv, DreamTypes
<1>2. dreamer'[p] = [dreamer[p] EXCEPT !.pc = c]
  BY <1>1
<1> QED  BY <1>1, <1>2 DEF Worker

\* Who dreams holds the lock; while a result waits that no window has read, nobody dreams.
LEMMA AloneLocks ==
  ASSUME DreamInv, Alone, NEW p \in Dreamers, LockStep(p)
  PROVE  Alone'
<1> SUFFICES ASSUME ~lockLost'
             PROVE  /\ \A q \in Dreamers : AtWork(q)' => tlock'.by = q
                    /\ (st'.phase = "done" /\ ~st'.consumed /\ st'.job \notin taken') =>
                         \A q \in Dreamers : dreamer'[q].pc \notin {"post", "poll"}
  BY DEF Alone
<1>0. dreamer \in [Dreamers -> Worker] /\ (lockLost' \/ ~lockLost)
  BY DEF DreamInv, DreamTypes, LockStep, DreamLock, DreamSteal, DreamOpen, DreamerDies, Unlink
<1>1. /\ \A q \in Dreamers : AtWork(q) => tlock.by = q
      /\ (st.phase = "done" /\ ~st.consumed /\ st.job \notin taken) =>
           \A q \in Dreamers : dreamer[q].pc \notin {"post", "poll"}
  BY <1>0 DEF Alone
<1>2. UNCHANGED <<st, taken>> /\ \A q \in Dreamers \ {p} : dreamer'[q] = dreamer[q]
  BY <1>0 DEF LockStep, DreamLock, DreamSteal, DreamOpen, DreamerDies
<1>3. CASE DreamLock(p)
  <2>1. dreamer'[p].pc \in {"collect", "steal"}
    BY <1>3, NextStep DEF DreamLock
  <2>2. CASE tlock.by = Unlocked
    <3>1. \A q \in Dreamers : ~AtWork(q)
      BY <1>1, <2>2, DreamsAssumption
    <3>2. tlock'.by = p
      BY <1>3, <2>2 DEF DreamLock
    <3> QED  BY <1>1, <1>2, <2>1, <3>1, <3>2 DEF AtWork
  <2>3. CASE tlock.by # Unlocked
    <3>1. tlock' = tlock /\ dreamer'[p].pc = "steal"
      BY <1>3, <2>3, NextStep DEF DreamLock
    <3> QED  BY <1>1, <1>2, <3>1 DEF AtWork
  <2> QED  BY <2>2, <2>3
<1>4. CASE DreamSteal(p)
  <2>1. dreamer'[p].pc \in {"off", "open"}
    BY <1>0, <1>4, NextStep DEF DreamSteal, Awake
  <2>2. CASE tlock.by = Unlocked
    <3>1. tlock' = tlock
      BY <1>4, <2>2 DEF DreamSteal
    <3> QED  BY <1>1, <1>2, <2>1, <3>1 DEF AtWork
  <2>3. CASE tlock.by # Unlocked
    <3>1. Unlink(p)
      BY <1>4, <2>3 DEF DreamSteal
    <3>2. \A q \in Dreamers \ {p} : ~AtWork(q)
      BY <1>1, <3>1 DEF Unlink
    <3> QED  BY <1>1, <1>2, <2>1, <3>2 DEF AtWork
  <2> QED  BY <2>2, <2>3
<1>5. CASE DreamOpen(p)
  <2>1. CASE tlock.by = Unlocked
    <3>1. \A q \in Dreamers : ~AtWork(q)
      BY <1>1, <2>1, DreamsAssumption
    <3>2. tlock'.by = p /\ dreamer'[p].pc = "collect"
      BY <1>5, <2>1, NextStep DEF DreamOpen, LockGone
    <3> QED  BY <1>1, <1>2, <3>1, <3>2 DEF AtWork
  <2>2. CASE tlock.by # Unlocked
    <3>1. tlock' = tlock /\ dreamer'[p].pc = "off"
      BY <1>0, <1>5, <2>2 DEF DreamOpen, LockGone, Awake
    <3> QED  BY <1>1, <1>2, <3>1 DEF AtWork
  <2> QED  BY <2>1, <2>2
<1>6. CASE DreamerDies(p)
  <2>1. tlock' = tlock /\ dreamer'[p].pc = "off"
    BY <1>0, <1>6 DEF DreamerDies, Awake
  <2> QED  BY <1>1, <1>2, <2>1 DEF AtWork
<1> QED  BY <1>3, <1>4, <1>5, <1>6 DEF LockStep

\* A worker collects, posts, polls and ends: it is alone.
LEMMA AloneWorks ==
  ASSUME DreamInv, Alone, NEW p \in Dreamers, Collect(p) \/ Accept(p) \/ EndStep(p)
  PROVE  Alone'
<1> SUFFICES ASSUME ~lockLost'
             PROVE  /\ \A q \in Dreamers : AtWork(q)' => tlock'.by = q
                    /\ (st'.phase = "done" /\ ~st'.consumed /\ st'.job \notin taken') =>
                         \A q \in Dreamers : dreamer'[q].pc \notin {"post", "poll"}
  BY DEF Alone
<1>0. dreamer \in [Dreamers -> Worker] /\ (lockLost' \/ ~lockLost) /\ st \in StateFile
  BY DEF DreamInv, DreamTypes, Collect, Accept, EndStep, PostLost, PollDone, PollFailed, PollEnds,
         Fail, Release, Unlink
<1>1. /\ \A q \in Dreamers : AtWork(q) => tlock.by = q
      /\ (st.phase = "done" /\ ~st.consumed /\ st.job \notin taken) =>
           \A q \in Dreamers : dreamer[q].pc \notin {"post", "poll"}
  BY <1>0 DEF Alone
<1>2. AtWork(p)
  BY DEF Collect, Accept, EndStep, PostLost, PollDone, PollFailed, PollEnds, AtWork
<1>3. \A q \in Dreamers \ {p} : ~AtWork(q) /\ dreamer'[q] = dreamer[q] /\ ~AtWork(q)'
  <2>1. \A q \in Dreamers \ {p} : ~AtWork(q)
    BY <1>1, <1>2
  <2>2. \A q \in Dreamers \ {p} : dreamer'[q] = dreamer[q]
    BY <1>0 DEF Collect, Accept, EndStep, PostLost, PollDone, PollFailed, PollEnds, Fail, Release
  <2> QED  BY <2>1, <2>2 DEF AtWork
<1>4. CASE EndStep(p) \/ (Release(p) /\ UNCHANGED <<st, taken>>)
  <2>1. dreamer'[p].pc = "off"
    BY <1>0, <1>4 DEF EndStep, PostLost, PollDone, PollFailed, PollEnds, Fail, Release, Awake
  <2> QED  BY <1>3, <2>1 DEF AtWork
<1>5. CASE Collect(p) /\ ~(Release(p) /\ UNCHANGED <<st, taken>>)
  <2>1. tlock' = tlock /\ st'.phase = "run"
    BY <1>5 DEF Collect
  <2> QED  BY <1>1, <1>2, <1>3, <2>1
<1>6. CASE Accept(p)
  <2>1. tlock' = tlock /\ st'.phase = "run"
    BY <1>0, <1>6 DEF Accept, StateFile
  <2> QED  BY <1>1, <1>2, <1>3, <2>1
<1> QED  BY <1>4, <1>5, <1>6 DEF Collect

\* A window reads or writes; a job, a transcript or time goes on.
LEMMA AloneElse ==
  ASSUME DreamInv, Alone, HighNext,
         \/ \E t \in Talks : Chat(t)
         \/ \E j \in Jobs : \E status \in {"completed", "failed"} : JobEnds(j, status)
         \/ \E o \in Openers : WindowStep(o)
         \/ Age
  PROVE  Alone'
<1>0. st \in StateFile /\ dreamer \in [Dreamers -> Worker]
  BY DEF DreamInv, DreamTypes
<1>1. CASE Age
  <2>1. /\ UNCHANGED <<dreamer, lockLost>> /\ \A p \in Dreamers : dreamer[p].pc = "off"
    BY <1>1 DEF Age
  <2> QED  BY <2>1 DEF Alone, AtWork
<1>2. CASE \/ \E t \in Talks : Chat(t)
           \/ \E j \in Jobs : \E status \in {"completed", "failed"} : JobEnds(j, status)
  <2>1. UNCHANGED <<st, tlock, dreamer, taken, lockLost>>
    BY <1>2 DEF Chat, JobEnds
  <2> QED  BY <2>1 DEF Alone, AtWork
<1>3. CASE \E o \in Openers : WindowStep(o)
  <2>1. PICK o \in Openers : WindowStep(o)
    BY <1>3
  <2>2. UNCHANGED <<tlock, dreamer, lockLost>>
    BY <2>1 DEF WindowStep, ReadState, OrphanAnswer, Report, OpenerEnds
  <2>3. CASE ReadState(o) \/ OpenerEnds(o)
    <3>1. st' = st /\ taken \subseteq taken'
      BY <2>3 DEF ReadState, OpenerEnds
    <3> QED  BY <2>2, <3>1 DEF Alone, AtWork
  <2>4. CASE OrphanAnswer(o) \/ Report(o)
    <3>1. st'.job \in taken'
      BY <2>4, WindowSays
    <3> QED  BY <2>2, <3>1 DEF Alone, AtWork
  <2> QED  BY <2>1, <2>3, <2>4 DEF WindowStep
<1> QED  BY <1>1, <1>2, <1>3

LEMMA DreamStep == DreamInv /\ Alone /\ [DNext]_dvars => DreamInv' /\ Alone'
<1> SUFFICES ASSUME DreamInv, Alone, [DNext]_dvars  PROVE DreamInv' /\ Alone'
  OBVIOUS
<1>1. CASE UNCHANGED dvars
  <2>1. DreamInv'
    BY <1>1 DEF dvars, DreamInv, DreamTypes, InOrder, FedWorker, FedJobs, Told, SaidTrue
  <2> QED  BY <1>1, <2>1 DEF dvars, Alone, AtWork
<1>2. CASE DNext
  <2>1. HighNext /\ DStep
    BY <1>2 DEF DNext, HighNext
  <2>2. CASE \E p \in Dreamers : LockStep(p)
    BY <2>1, <2>2, LockDream, AloneLocks
  <2>3. CASE \E p \in Dreamers : Collect(p) \/ Accept(p) \/ EndStep(p)
    BY <2>1, <2>3, CollectDream, AcceptDream, EndDream, AloneWorks
  <2>4. CASE \/ \E t \in Talks : Chat(t)
             \/ \E j \in Jobs : \E status \in {"completed", "failed"} : JobEnds(j, status)
             \/ \E o \in Openers : WindowStep(o)
             \/ Age
    BY <2>1, <2>4, ChatDream, JobEndsDream, WindowDream, AgeDream, AloneElse
  <2> QED  BY <2>1, <2>2, <2>3, <2>4 DEF DStep, LockStep, EndStep, WindowStep
<1> QED  BY <1>1, <1>2

LEMMA DreamAlways == DSpec => [](DreamInv /\ Alone)
BY DreamStart, DreamStep, PTL DEF DSpec

\* When last_dream_at moves past a piece of a transcript, a dream was fed with
\* it, or it lies behind the cap of a transcript, or the request was full, or it
\* was written meanwhile, or the time had been there before (dream.mjs; MaterialDreamt).
THEOREM MaterialIsDreamt == DSpec => MaterialDreamt
<1> DEFINE Dreamt(t, k) ==
      \/ \E j \in Jobs : <<t, k>> \in job[j].food
      \/ k > Cap
      \/ st'.job # NoJob /\ job[st'.job].full
      \/ st'.job # NoJob /\ piece[t][k] > job[st'.job].at
      \/ piece[t][k] <= high
<1>1. ASSUME DreamInv, DNext, NEW t \in Talks, NEW k \in 1 .. Len(piece[t]),
             st.last < piece[t][k], piece[t][k] <= st'.last
      PROVE  Dreamt(t, k)
  <2>0. /\ clock \in Nat /\ piece[t][k] \in Nat /\ st \in StateFile /\ high \in Nat
        /\ st.last \in Nat /\ st'.last # st.last
    BY <1>1 DEF DreamInv, DreamTypes, StateFile
  <2>1. ASSUME Given(job, st'.job)  PROVE Dreamt(t, k)
    <3>1. st'.job \in Jobs /\ st'.job # NoJob
      BY <2>1, DreamsAssumption DEF Given, NoJob
    <3>2. /\ Fed(job[st'.job].food, job[st'.job].full, job[st'.job].at, piece, high)
          /\ job[st'.job].at \in Nat
      BY <1>1, <2>1, <3>1 DEF DreamInv, DreamTypes, FedJobs, ServerJob
    <3> QED  BY <2>0, <3>1, <3>2 DEF Fed
  <2>2. ASSUME NEW p \in Dreamers, PostLost(p) \/ PollEnds(p)  PROVE Dreamt(t, k)
    <3>1. st'.last = dreamer[p].prev /\ dreamer[p].pc \in {"post", "poll"}
      BY <2>0, <2>2 DEF PostLost, PollEnds, Fail, FailedLast, StateFile
    <3>2. dreamer[p].prev <= high /\ dreamer[p].prev \in Nat
      BY <1>1, <3>1 DEF DreamInv, DreamTypes, FedWorker, Worker
    <3> QED  BY <1>1, <2>0, <3>1, <3>2
  <2>3. ASSUME NEW p \in Dreamers, PollDone(p) \/ PollFailed(p)  PROVE Dreamt(t, k)
    <3>1. st'.job = dreamer[p].job /\ dreamer[p].pc = "poll"
      BY <2>0, <2>3 DEF PollDone, PollFailed, Fail, StateFile
    <3>2. Given(job, dreamer[p].job)
      BY <1>1, <3>1 DEF DreamInv, FedWorker
    <3> QED  BY <2>1, <3>1, <3>2
  <2>4. ASSUME NEW o \in Openers, OrphanAnswer(o) \/ Report(o)  PROVE Dreamt(t, k)
    <3>0. HighNext
      BY <1>1 DEF DNext, HighNext
    <3>1. st'.job = window[o].held.job /\ SaidTrue(window[o].held) /\ window[o].held.job # NoJob
      BY <1>1, <2>4, <3>0, WindowSays
    <3> QED  BY <2>1, <3>1 DEF SaidTrue
  <2>5. ASSUME \/ \E u \in Talks : Chat(u)
               \/ \E p \in Dreamers : LockStep(p) \/ Collect(p) \/ Accept(p)
               \/ \E j \in Jobs : \E status \in {"completed", "failed"} : JobEnds(j, status)
               \/ \E o \in Openers : ReadState(o) \/ OpenerEnds(o)
               \/ Age
        PROVE  FALSE
    <3>1. st'.last = st.last
      <4>1. CASE \E p \in Dreamers : Collect(p)
        BY <4>1 DEF Collect
      <4>2. CASE Age \/ \E p \in Dreamers : Accept(p)
        BY <2>0, <4>2 DEF Age, Accept, StateFile
      <4> QED  BY <2>5, <4>1, <4>2 DEF Chat, LockStep, DreamLock, DreamSteal, DreamOpen, DreamerDies,
                                       JobEnds, ReadState, OpenerEnds
    <3> QED  BY <2>0, <3>1
  <2> QED  BY <1>1, <2>2, <2>3, <2>4, <2>5 DEF DNext, DStep, LockStep
<1>2. DreamInv /\ [DNext]_dvars =>
        [\A t \in Talks : \A k \in 1 .. Len(piece[t]) :
           (st.last < piece[t][k] /\ piece[t][k] <= st'.last) => Dreamt(t, k)]_dvars
  BY <1>1
<1> QED  BY <1>2, DreamAlways, PTL DEF DSpec, MaterialDreamt

\* A result that waits stays until a window has read it to report it, unless a
\* dream begins, a window writes back what it read of another job, or two are
\* dreaming since a lock at work was removed (dream.mjs, session-start.mjs;
\* ResultShown): who dreams holds the lock, and writes no result while one waits.
THEOREM ResultIsShown == DSpec => ResultShown
<1> DEFINE Stays ==
      \/ st.job \in taken'
      \/ st'.phase = "run" /\ st'.job = NoJob
      \/ \E o \in Openers : /\ window[o].pc # "off" /\ window'[o] # window[o]
                            /\ st.job # window[o].held.job /\ st'.job = window[o].held.job
      \/ lockLost
<1>1. ASSUME DreamInv, Alone, DNext, st.phase = "done", ~st.consumed, st' # st  PROVE Stays
  <2>0. HighNext /\ DStep /\ st \in StateFile
    BY <1>1 DEF DNext, HighNext, DreamInv, DreamTypes
  <2>1. ASSUME NEW p \in Dreamers, Collect(p)  PROVE Stays
    BY <1>1, <2>1 DEF Collect
  <2>2. ASSUME NEW p \in Dreamers, Accept(p) \/ EndStep(p), st.job \notin taken, ~lockLost  PROVE FALSE
    <3>1. dreamer[p].pc \in {"post", "poll"}
      BY <2>2 DEF Accept, EndStep, PostLost, PollDone, PollFailed, PollEnds
    <3> QED  BY <1>1, <2>2, <3>1 DEF Alone
  <2>3. ASSUME NEW o \in Openers, OrphanAnswer(o) \/ Report(o)  PROVE Stays
    <3>1. /\ window[o].pc # "off" /\ window'[o] # window[o]
          /\ st'.job = window[o].held.job /\ st'.job \in taken'
      BY <1>1, <2>0, <2>3, WindowSays
    <3> QED  BY <3>1
  <2>4. ASSUME \/ \E u \in Talks : Chat(u)
               \/ \E p \in Dreamers : LockStep(p)
               \/ \E j \in Jobs : \E status \in {"completed", "failed"} : JobEnds(j, status)
               \/ \E o \in Openers : ReadState(o) \/ OpenerEnds(o)
        PROVE  FALSE
    BY <1>1, <2>4 DEF Chat, LockStep, DreamLock, DreamSteal, DreamOpen, DreamerDies, JobEnds,
                      ReadState, OpenerEnds
  <2>5. ASSUME Age  PROVE FALSE
    <3>1. ~st.old
      BY <1>1 DEF DreamInv, Told, SaidTrue
    <3>2. st' = [st EXCEPT !.old = FALSE]
      BY <1>1, <2>5 DEF Age
    <3> QED  BY <1>1, <2>0, <3>1, <3>2 DEF StateFile
  <2>6. \A p \in Dreamers : taken' = taken \/ ~(Accept(p) \/ EndStep(p))
    BY DEF Accept, EndStep, PostLost, PollDone, PollFailed, PollEnds
  <2> QED  BY <2>0, <2>1, <2>2, <2>3, <2>4, <2>5, <2>6 DEF DStep, LockStep, EndStep
<1>2. DreamInv /\ Alone /\ [DNext]_dvars =>
        [(st.phase = "done" /\ ~st.consumed /\ st' # st) => Stays]_dvars
  BY <1>1
<1> QED  BY <1>2, DreamAlways, PTL DEF DSpec, ResultShown
-----------------------------------------------------------------------------
(* The merge of a dream.                                                   *)

ApplyInv ==
  /\ applied = FALSE => \A f \in MemFiles : body[f] = 0
  /\ \A i \in DOMAIN archive : i \in Nat \ {0} /\ archive[i] \in Entries

\* Of the entries of one name, none is better than the one that is chosen.
LEMMA ChosenIsBest ==
  ASSUME ApplyInv, NEW i \in Chosen
  PROVE  i \in DOMAIN archive /\ \A j \in SameName(i) : ~Better(j, i)
<1>1. i \in DOMAIN archive
  BY DEF Chosen
<1>2. ASSUME NEW j \in SameName(i)  PROVE ~Better(j, i)
  <2>1. j \in DOMAIN archive /\ archive[i].size \in Nat /\ archive[j].size \in Nat
    BY <1>1, <1>2 DEF SameName, ApplyInv, Entries
  <2>2. CASE j = i
    BY <2>1, <2>2 DEF Better
  <2>3. CASE j # i
    <3>1. Better(i, j) \/ ~Better(j, i)
      BY <1>2, <2>3 DEF Chosen
    <3> QED  BY <2>1, <3>1 DEF Better
  <2> QED  BY <2>2, <2>3
<1> QED  BY <1>1, <1>2

\* The name that leads to a file is an entry's own or that of its link's text.
LEMMA NameLeads ==
  ASSUME ApplyInv, NEW i \in DOMAIN archive, NameOf(i) \in OldFiles
  PROVE  FileOf(NameOf(i)) \in MemFiles /\ About(i, FileOf(NameOf(i)))
<1>1. \A n \in OldFiles : FileOf(n) \in MemFiles /\ dir[FileOf(n)] = n
  BY DEF OldFiles, FileOf
<1>2. NameOf(i) \in {archive[i].name, LinkText[archive[i].name]}
  BY DEF NameOf
<1> QED  BY <1>1, <1>2 DEF About

\* A memory file goes only by an entry that drops it and that no better entry of
\* its name speaks against, and is rewritten only by an entry with content that
\* merges or updates it, or whose new name has the file's name as its slug
\* (apply-dream.mjs:3-9; ContractKept): for any files, names and archives.
THEOREM ContractIsKept == ASpec => ContractKept
<1> DEFINE Goes(f) ==
      \E i \in DOMAIN archive : /\ archive[i].act = "dropped" /\ About(i, f)
                                /\ \A j \in SameName(i) : ~Better(j, i)
           Rewrites(f) ==
      \E i \in DOMAIN archive :
        /\ i = body'[f] /\ Content(i)
        /\ \/ archive[i].act \in {"merged", "updated"} /\ About(i, f)
           \/ /\ archive[i].act \in {"added", "merged", "updated"}
              /\ archive[i].name \notin OldFiles /\ Slug[archive[i].name] = f
<1>1. AInit => ApplyInv
  BY DEF AInit, ApplyInv
<1>2. ApplyInv /\ [Apply]_avars => ApplyInv'
  BY DEF ApplyInv, Apply, avars
<1>3. ASSUME ApplyInv, Apply, NEW f \in MemFiles, dir[f] # Absent
      PROVE  (dir'[f] = Absent => Goes(f)) /\ (body'[f] # body[f] => Rewrites(f))
  <2>1. /\ body[f] = 0
        /\ body'[f] = IF Removed(f) \/ Lasting(f) = {} THEN 0 ELSE CHOOSE i \in Lasting(f) : TRUE
        /\ dir'[f] = IF Removed(f) THEN Absent
                     ELSE IF body'[f] = 0 THEN dir[f] ELSE NameOf(body'[f])
    BY <1>3 DEF Apply, ApplyInv
  <2>2. CASE Removed(f)
    <3>1. PICK i \in Drops : FileOf(NameOf(i)) = f
      BY <2>2 DEF Removed
    <3>2. i \in Chosen /\ archive[i].act = "dropped" /\ NameOf(i) \in OldFiles
      BY <3>1 DEF Drops
    <3>3. Goes(f)
      BY <1>3, <3>1, <3>2, ChosenIsBest, NameLeads
    <3> QED  BY <2>1, <2>2, <3>3
  <2>3. CASE ~Removed(f) /\ Lasting(f) = {}
    BY <1>3, <2>1, <2>3
  <2>4. CASE ~Removed(f) /\ Lasting(f) # {}
    <3>1. PICK i \in Lasting(f) : body'[f] = i
      BY <2>1, <2>4
    <3>2. i \in Writes /\ PathOf(i) = f
      BY <3>1 DEF Lasting, Written
    <3>3. /\ i \in Chosen /\ ~Conflict(i) /\ Content(i)
          /\ archive[i].act \in {"added", "merged", "updated"}
      BY <3>2 DEF Writes
    <3>4. i \in DOMAIN archive /\ i # 0 /\ archive[i].name \in Names
      BY <1>3, <3>3, ChosenIsBest DEF ApplyInv, Entries
    <3>5. NameOf(i) # Absent
      BY <3>4, ApplyAssumption DEF NameOf, OldFiles
    <3>6. CASE NameOf(i) \in OldFiles
      <4>1. archive[i].act \in {"merged", "updated"} /\ About(i, f)
        BY <1>3, <3>2, <3>3, <3>4, <3>6, NameLeads DEF PathOf, Conflict
      <4> QED  BY <2>1, <2>4, <3>1, <3>3, <3>4, <3>5, <4>1
    <3>7. CASE NameOf(i) \notin OldFiles
      <4>1. NameOf(i) = archive[i].name
        BY <3>7 DEF NameOf
      <4>2. archive[i].name \notin OldFiles /\ Slug[archive[i].name] = f
        BY <3>2, <3>7, <4>1 DEF PathOf
      <4> QED  BY <2>1, <2>4, <3>1, <3>3, <3>4, <3>5, <4>2
    <3> QED  BY <3>6, <3>7
  <2> QED  BY <2>2, <2>3, <2>4
<1>4. ApplyInv /\ [Apply]_avars =>
        [\A f \in MemFiles : dir[f] # Absent =>
           /\ dir'[f] = Absent =>
                \E i \in DOMAIN archive :
                  /\ archive[i].act = "dropped" /\ About(i, f)
                  /\ \A j \in SameName(i) : ~Better(j, i)
           /\ body'[f] # body[f] =>
                \E i \in DOMAIN archive :
                  /\ i = body'[f] /\ Content(i)
                  /\ \/ archive[i].act \in {"merged", "updated"} /\ About(i, f)
                     \/ /\ archive[i].act \in {"added", "merged", "updated"}
                        /\ archive[i].name \notin OldFiles /\ Slug[archive[i].name] = f]_avars
  BY <1>3
<1> QED  BY <1>1, <1>2, <1>4, PTL DEF ASpec, ContractKept
===============================================================================
