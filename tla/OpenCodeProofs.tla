---------------------------- MODULE OpenCodeProofs ----------------------------
(***************************************************************************)
(* Proofs about OpenCode, for any sessions, agents, policies, timers and   *)
(* chat hooks: what is sent twice and why, what silence means, whose       *)
(* messages are stored, and what the flag of the injection says.           *)
(***************************************************************************)
EXTENDS OpenCode, FiniteSetTheorems, TLAPS

-----------------------------------------------------------------------------
(* The invariant. *)

\* The counters that TypeOK leaves out.
Counters ==
  /\ captured \in [Sessions -> [Numbers -> Nat]] /\ archived \in [Sessions -> [Numbers -> Nat]]
  /\ resends \in [Sessions -> Nat] /\ blocks \in [Sessions -> Nat]
  /\ stored \in [Vias -> SUBSET Sessions]

\* Every message has its place, those under way included.
Timeline ==
  \A s \in Sessions : since[s] <= said[s] /\ said[s] + Cardinality(Chatting(s)) <= MaxMessages[s]

\* Who has chatted since the start has locked the plugin to a session.
Locked ==
  /\ mainSession # None => mainSession \in mains
  /\ mainSession = None =>
       /\ \A s \in Sessions : said[s] = since[s] /\ Chatting(s) = {}
       /\ injected = {} /\ comp.pc = "off" /\ due = {}

\* One capture runs, and the flag says so; the timer that is referred to is pending.
Running(t) == cap[t].pc \in {"messages", "session", "post"}
OneRun ==
  /\ \A t, u \in Timers : Running(t) /\ Running(u) => t = u
  /\ (\E t \in Timers : Running(t)) => isCapturing
  /\ handle # None => cap[handle].pc = "pending"

\* Timers, captures and the sends of a compaction are of the main session.
OfMain ==
  /\ \A t \in Timers : cap[t].pc # "off" => cap[t].session = mainSession
  /\ comp.pc \in {"session", "post"} => comp.session = mainSession

\* A message is recorded as processed once it was captured, and then it is
\* captured once more at most for every loss of the record; what is being sent
\* is not recorded, and was lost from the record if its entry is gone.
Recorded ==
  \A s \in Sessions, k \in Numbers :
    /\ k \in processed[s] => captured[s][k] > 0
    /\ captured[s][k] <= resends[s] + (IF k \in processed[s] THEN 1 ELSE 0)
Sending(t) == cap[t].pc \in {"session", "post"}
InFlight ==
  \A t \in Timers : Sending(t) =>
    \A k \in Numbers \cap cap[t].batch :
      /\ k \notin processed[cap[t].session]
      /\ cap[t].session \notin known =>
           captured[cap[t].session][k] < resends[cap[t].session]

\* What the last idle event asked for is in the transcript, and it is captured,
\* given up, or in the hands of a timer or a capture.
DueSaid == \A k \in due : since[mainSession] < k /\ k <= said[mainSession]
Promised ==
  \A k \in due \ excused :
    \/ captured[mainSession][k] > 0
    \/ \E t \in Timers : cap[t].pc \in {"pending", "messages"}
    \/ \E t \in Timers : Sending(t) /\ k \in cap[t].batch

\* Who has a block and no overlap has the flag, and nobody is about to change it.
Compacting(s) == comp.pc # "off" /\ comp.session = s
BlockFlagged ==
  \A s \in Sessions \ overlapped :
    /\ blocks[s] <= 1
    /\ blocks[s] > 0 => s \in injected /\ Chatting(s) = {} /\ ~Compacting(s)
    /\ \A c, d \in Chatting(s) : c = d
    /\ Chatting(s) # {} => ~Compacting(s)

\* The flag of the main session, where a compaction does not have it in hand.
FlagKept ==
  Policy[StaticAgent] = "readwrite" =>
    \A s \in injected \cap {mainSession} :
      \/ blocks[s] > 0 \/ s \in overlapped \/ s \in barred
      \/ Compacting(s) /\ comp.pc # "summary"

IInv ==
  /\ TypeOK /\ Counters /\ Timeline /\ Locked /\ OneRun /\ OfMain
  /\ Recorded /\ InFlight /\ DueSaid /\ Promised /\ OnlyMainStored
  /\ BlockFlagged /\ FlagKept

-----------------------------------------------------------------------------
(* What some actions do. *)

\* A restart empties the plugin's memory.
LEMMA RestartSays ==
  ASSUME Restart
  PROVE  /\ mainSession' = None /\ handle' = None /\ ~isCapturing' /\ comp'.pc = "off"
         /\ \A t \in Timers : cap'[t].pc = "off"
         /\ \A c \in Chats : chat'[c].pc = "off"
         /\ injected' = {} /\ overlapped' = {} /\ barred' = {} /\ due' = {} /\ excused' = {}
         /\ blocks' = [s \in Sessions |-> 0] /\ resends' = [s \in Sessions |-> resends[s] + 1]
         /\ processed' = [s \in Sessions |-> {}] /\ known' = {} /\ since' = said
         /\ UNCHANGED <<said, agent, deleted, mains, captured, archived, stored>>
BY DEF Restart, Reset, NoCapture, NoChat, server

\* A chat locks the plugin to a session, if none has yet.
LEMMA LockSays ==
  ASSUME TypeOK, NEW s \in Sessions, Lock(s)
  PROVE  /\ mainSession' \in Sessions /\ mainSession' # None /\ mainSession' \in mains'
         /\ mainSession # None => mainSession' = mainSession
         /\ mains' = mains \cup {mainSession'}
BY OpenCodeAssumption DEF TypeOK, Lock

\* So a session that has something to capture finds the plugin locked.
LEMMA ActiveLocked ==
  ASSUME TypeOK, Locked, NEW s \in Sessions, Active(s)
  PROVE  mainSession \in Sessions /\ mainSession # None /\ mainSession \in mains
BY OpenCodeAssumption DEF TypeOK, Locked, Active, Numbers

\* An idle event takes a timer, in the place of the one that is referred to.
LEMMA IdleSays ==
  ASSUME TypeOK, Locked, NEW s \in Sessions, NEW t \in Timers, Idle(s, t)
  PROVE  /\ s = mainSession /\ mainSession # None /\ Active(s)
         /\ cap[t].pc = "off" /\ cap'[t].pc = "pending" /\ cap'[t].session = s
         /\ \A u \in Timers \ {t} : cap'[u] = cap[u] \/ (u = handle /\ cap'[u].pc = "off")
         /\ \A u \in Timers \ {t} : u # handle => cap'[u] = cap[u]
         /\ handle' = t /\ excused' = {}
         /\ due' = {k \in Numbers : since[s] < k /\ k <= said[s]}
         /\ UNCHANGED <<opencode, locks, memory, isCapturing, chat, comp, server, resends, context>>
<1>1. Active(s) /\ ~OtherThanMain(s) /\ Arm(s, t)
  BY DEF Idle, Arm
<1>2. mainSession # None
  BY <1>1, ActiveLocked
<1>3. s = mainSession
  BY <1>1, <1>2 DEF OtherThanMain
<1>4. cap' = [u \in Timers |->
               IF u = t THEN [NoCapture EXCEPT !.pc = "pending", !.session = s]
               ELSE IF u = handle THEN NoCapture ELSE cap[u]]
  BY <1>1 DEF Arm
<1>5. /\ cap'[t].pc = "pending" /\ cap'[t].session = s
      /\ \A u \in Timers \ {t} : cap'[u] = cap[u] \/ (u = handle /\ cap'[u].pc = "off")
      /\ \A u \in Timers \ {t} : u # handle => cap'[u] = cap[u]
  BY <1>4 DEF NoCapture
<1>6. QED  BY <1>1, <1>2, <1>3, <1>5 DEF Arm

\* The steps of a timer and of the capture that it becomes.
OwnStep(t) == \/ Fire(t) \/ Fetched(t) \/ FetchFailed(t)
              \/ (\E b \in BOOLEAN : AgentResolved(t, b)) \/ (\E r, b \in BOOLEAN : Ingested(t, r, b))

\* They leave the other timers alone, and the session of this one.
LEMMA OwnSays ==
  ASSUME TypeOK, NEW t \in Timers, OwnStep(t)
  PROVE  /\ \A u \in Timers \ {t} : cap'[u] = cap[u]
         /\ cap'[t].pc # "off" => cap'[t].session = cap[t].session
         /\ UNCHANGED <<opencode, mainSession, mains, chat, comp, due, context>>
         /\ \/ Running(t) /\ Running(t)' /\ UNCHANGED <<isCapturing, handle>>
            \/ Running(t) /\ cap'[t].pc = "off" /\ ~isCapturing' /\ handle' = None
            \/ /\ cap[t].pc = "pending" /\ isCapturing' /\ handle' = (IF handle = t THEN None ELSE handle)
               /\ IF isCapturing THEN cap'[t].pc = "off" ELSE Running(t)'
<1> USE DEF TypeOK, NoCapture, CaptureDone, Running, locks
<1>1. CASE Fire(t)
  <2>1. CASE isCapturing
    BY <1>1, <2>1 DEF Fire
  <2>2. CASE ~isCapturing
    BY <1>1, <2>2 DEF Fire
  <2>3. QED  BY <2>1, <2>2
<1>2. CASE Fetched(t)
  BY <1>2 DEF Fetched
<1>3. CASE FetchFailed(t)
  BY <1>3 DEF FetchFailed
<1>4. CASE \E b \in BOOLEAN : AgentResolved(t, b)
  BY <1>4 DEF AgentResolved
<1>5. CASE \E r, b \in BOOLEAN : Ingested(t, r, b)
  BY <1>5 DEF Ingested, Ingest
<1>6. QED  BY <1>1, <1>2, <1>3, <1>4, <1>5 DEF OwnStep

\* Chats lock the plugin, and nothing but a restart unlocks it.
LEMMA LockedStep ==
  ASSUME TypeOK, Locked, [Next]_vars
  PROVE  Locked'
<1> USE DEF TypeOK, Locked, Chatting, Active, opencode, locks, capture, memory, server, ledger,
        context
<1>1. CASE \E s \in Sessions, a \in Agents : SwitchAgent(s, a)
  BY <1>1 DEF SwitchAgent
<1>2. CASE Toggle
  BY <1>2 DEF Toggle
<1>3. CASE Restart
  BY <1>3, RestartSays DEF Numbers
<1>4. CASE \E s \in Sessions, b \in BOOLEAN : ChatPlain(s, b)
  <2>1. PICK s \in Sessions, b \in BOOLEAN : ChatPlain(s, b)
    BY <1>4
  <2>2. QED  BY <2>1, LockSays DEF ChatPlain
<1>5. CASE \E s \in Sessions, c \in Chats : ChatBegin(c, s)
  <2>1. PICK s \in Sessions, c \in Chats : ChatBegin(c, s)
    BY <1>5
  <2>2. QED  BY <2>1, LockSays DEF ChatBegin
<1>6. CASE \E c \in Chats, b \in BOOLEAN : ChatInjected(c, b)
  BY <1>6 DEF ChatInjected, InjectionArrives, Said, NoChat
<1>7. CASE \E s \in Sessions, t \in Timers : Idle(s, t)
  <2>1. PICK s \in Sessions, t \in Timers : Idle(s, t)
    BY <1>7
  <2>2. QED  BY <2>1, IdleSays
<1>8. CASE \E t \in Timers : OwnStep(t)
  <2>1. PICK t \in Timers : OwnStep(t)
    BY <1>8
  <2>2. QED  BY <2>1, OwnSays
<1>9. CASE \E s \in Sessions : CompactBegin(s)
  <2>1. PICK s \in Sessions : CompactBegin(s)
    BY <1>9
  <2>2. mainSession # None
    BY <2>1, ActiveLocked DEF CompactBegin
  <2>3. QED  BY <2>1, <2>2 DEF CompactBegin
<1>10. CASE \E s \in Sessions : Deleted(s)
  BY <1>10 DEF Deleted
<1>11. CASE CompactGates
  BY <1>11 DEF CompactGates
<1>12. CASE CompactSend
  BY <1>12 DEF CompactSend, Forget
<1>13. CASE \E b \in BOOLEAN : CompactSent(b)
  BY <1>13 DEF CompactSent, Forget
<1>14. CASE \E f \in BOOLEAN, b \in BOOLEAN : Autocontinue(f, b)
  BY <1>14 DEF Autocontinue, NoCapture, Store
<1>15. CASE \E s \in Sessions, f \in BOOLEAN, b \in BOOLEAN : Reply(s, f, b)
  <2>1. PICK s \in Sessions, f \in BOOLEAN, b \in BOOLEAN : Reply(s, f, b)
    BY <1>15
  <2>2. mainSession # None
    BY <2>1, ActiveLocked DEF Reply
  <2>3. QED  BY <2>1, <2>2 DEF Reply
<1>16. CASE UNCHANGED vars
  BY <1>16 DEF vars
<1>17. QED
  BY <1>1, <1>2, <1>3, <1>4, <1>5, <1>6, <1>7, <1>8, <1>9, <1>10, <1>11, <1>12, <1>13, <1>14,
          <1>15, <1>16 DEF Next, OwnStep

\* A timer starts a capture only when none runs, and ends it with the flag.
LEMMA OneRunStep ==
  ASSUME TypeOK, Locked, OneRun, [Next]_vars
  PROVE  OneRun'
<1> USE OpenCodeAssumption DEF TypeOK, OneRun, Running, opencode, locks, capture, memory, server,
        ledger, context
<1>1. CASE \E s \in Sessions, a \in Agents : SwitchAgent(s, a)
  BY <1>1 DEF SwitchAgent
<1>2. CASE Toggle
  BY <1>2 DEF Toggle
<1>3. CASE Restart
  BY <1>3, RestartSays
<1>4. CASE \E s \in Sessions, b \in BOOLEAN : ChatPlain(s, b)
  BY <1>4 DEF ChatPlain, Lock, Said
<1>5. CASE \E s \in Sessions, c \in Chats : ChatBegin(c, s)
  BY <1>5 DEF ChatBegin, Lock
<1>6. CASE \E c \in Chats, b \in BOOLEAN : ChatInjected(c, b)
  BY <1>6 DEF ChatInjected, InjectionArrives, Said, NoChat
<1>7. CASE \E s \in Sessions, t \in Timers : Idle(s, t)
  <2>1. PICK s \in Sessions, t \in Timers : Idle(s, t)
    BY <1>7
  <2>2. \A u \in Timers : Running(u)' => u # t /\ cap'[u] = cap[u]
    BY <2>1, IdleSays DEF Running
  <2>3. QED  BY <2>1, <2>2, IdleSays
<1>8. CASE \E t \in Timers : OwnStep(t)
  <2>1. PICK t \in Timers : OwnStep(t)
    BY <1>8
  <2>2. \A u \in Timers \ {t} : cap'[u] = cap[u] /\ (Running(u)' <=> Running(u))
    BY <2>1, OwnSays
  <2>3. CASE Running(t) /\ Running(t)' /\ UNCHANGED <<isCapturing, handle>>
    BY <2>2, <2>3
  <2>4. CASE Running(t) /\ cap'[t].pc = "off" /\ ~isCapturing' /\ handle' = None
    BY <2>2, <2>4
  <2>5. CASE /\ cap[t].pc = "pending" /\ isCapturing' /\ handle' = (IF handle = t THEN None ELSE handle)
             /\ IF isCapturing THEN cap'[t].pc = "off" ELSE Running(t)'
    <3>1. handle' # None => handle' \in Timers \ {t} /\ handle' = handle
      BY <2>5
    <3>2. QED  BY <2>2, <2>5, <3>1
  <2>6. QED  BY <2>1, <2>3, <2>4, <2>5, OwnSays
<1>9. CASE \E s \in Sessions : CompactBegin(s)
  BY <1>9 DEF CompactBegin, NoCapture
<1>10. CASE \E s \in Sessions : Deleted(s)
  BY <1>10 DEF Deleted
<1>11. CASE CompactGates
  BY <1>11 DEF CompactGates
<1>12. CASE CompactSend
  BY <1>12 DEF CompactSend, Forget
<1>13. CASE \E b \in BOOLEAN : CompactSent(b)
  BY <1>13 DEF CompactSent, Forget
<1>14. CASE \E f \in BOOLEAN, b \in BOOLEAN : Autocontinue(f, b)
  BY <1>14 DEF Autocontinue, NoCapture, Store
<1>15. CASE \E s \in Sessions, f \in BOOLEAN, b \in BOOLEAN : Reply(s, f, b)
  BY <1>15 DEF Reply, Store
<1>16. CASE UNCHANGED vars
  BY <1>16 DEF vars
<1>17. QED
  BY <1>1, <1>2, <1>3, <1>4, <1>5, <1>6, <1>7, <1>8, <1>9, <1>10, <1>11, <1>12, <1>13, <1>14,
          <1>15, <1>16 DEF Next, OwnStep

\* Timers and sends are of the main session, and it stays the main session.
LEMMA OfMainStep ==
  ASSUME TypeOK, Locked, OfMain, [Next]_vars
  PROVE  OfMain'
<1> USE DEF TypeOK, OfMain, OtherThanMain, Active, opencode, locks, capture, memory, server,
        ledger, context
<1>1. CASE \E s \in Sessions, a \in Agents : SwitchAgent(s, a)
  BY <1>1 DEF SwitchAgent
<1>2. CASE Toggle
  BY <1>2 DEF Toggle
<1>3. CASE Restart
  BY <1>3, RestartSays
<1>4. CASE \E s \in Sessions, b \in BOOLEAN : ChatPlain(s, b)
  <2>1. PICK s \in Sessions, b \in BOOLEAN : ChatPlain(s, b)
    BY <1>4
  <2>2. mainSession # None => mainSession' = mainSession
    BY <2>1, LockSays DEF ChatPlain
  <2>3. UNCHANGED <<cap, comp>>
    BY <2>1 DEF ChatPlain
  <2>4. QED  BY <2>2, <2>3, OpenCodeAssumption
<1>5. CASE \E s \in Sessions, c \in Chats : ChatBegin(c, s)
  <2>1. PICK s \in Sessions, c \in Chats : ChatBegin(c, s)
    BY <1>5
  <2>2. mainSession # None => mainSession' = mainSession
    BY <2>1, LockSays DEF ChatBegin
  <2>3. UNCHANGED <<cap, comp>>
    BY <2>1 DEF ChatBegin
  <2>4. QED  BY <2>2, <2>3, OpenCodeAssumption
<1>6. CASE \E c \in Chats, b \in BOOLEAN : ChatInjected(c, b)
  BY <1>6 DEF ChatInjected, InjectionArrives, Said, NoChat
<1>7. CASE \E s \in Sessions, t \in Timers : Idle(s, t)
  <2>1. PICK s \in Sessions, t \in Timers : Idle(s, t)
    BY <1>7
  <2>2. QED  BY <2>1, IdleSays
<1>8. CASE \E t \in Timers : OwnStep(t)
  <2>1. PICK t \in Timers : OwnStep(t)
    BY <1>8
  <2>2. QED  BY <2>1, OwnSays DEF Running
<1>9. CASE \E s \in Sessions : CompactBegin(s)
  BY <1>9 DEF CompactBegin, NoCapture
<1>10. CASE \E s \in Sessions : Deleted(s)
  BY <1>10 DEF Deleted
<1>11. CASE CompactGates
  <2>1. mainSession # None
    BY <1>11 DEF Locked, CompactGates
  <2>2. CASE OtherThanMain(comp.session)
    BY <1>11, <2>2 DEF CompactGates
  <2>3. CASE ~OtherThanMain(comp.session)
    <3>1. comp'.session = comp.session /\ comp.session = mainSession
      BY <1>11, <2>1, <2>3 DEF CompactGates
    <3>2. QED  BY <1>11, <3>1 DEF CompactGates
  <2>4. QED  BY <2>2, <2>3
<1>12. CASE CompactSend
  BY <1>12 DEF CompactSend, Forget
<1>13. CASE \E b \in BOOLEAN : CompactSent(b)
  BY <1>13 DEF CompactSent, Forget
<1>14. CASE \E f \in BOOLEAN, b \in BOOLEAN : Autocontinue(f, b)
  BY <1>14 DEF Autocontinue, NoCapture, Store
<1>15. CASE \E s \in Sessions, f \in BOOLEAN, b \in BOOLEAN : Reply(s, f, b)
  BY <1>15 DEF Reply, Store
<1>16. CASE UNCHANGED vars
  BY <1>16 DEF vars
<1>17. QED
  BY <1>1, <1>2, <1>3, <1>4, <1>5, <1>6, <1>7, <1>8, <1>9, <1>10, <1>11, <1>12, <1>13, <1>14,
          <1>15, <1>16 DEF Next, OwnStep

-----------------------------------------------------------------------------
(* What is sent again. *)

\* What a compaction removes from the record counts as lost.
LEMMA ForgetKeeps ==
  ASSUME TypeOK, Counters, Recorded, InFlight, NEW s \in Sessions, Forget(s), UNCHANGED <<captured, cap>>
  PROVE  Recorded' /\ InFlight'
<1>1. /\ processed' = [processed EXCEPT ![s] = {}] /\ known' = known \ {s}
      /\ resends' = [resends EXCEPT ![s] = resends[s] + 1]
  BY DEF Forget
<1>2. \A r \in Sessions, k \in Numbers :
        /\ captured[r][k] \in Nat /\ resends[r] \in Nat
        /\ k \notin processed[r] => captured[r][k] <= resends[r]
        /\ captured[r][k] <= resends[r] + 1
  BY DEF Counters, Recorded
<1>3. Recorded'
  BY <1>1, <1>2 DEF Recorded, TypeOK, Counters
<1>4. InFlight'
  <2> SUFFICES ASSUME NEW t \in Timers, Sending(t), NEW k \in Numbers \cap cap[t].batch
               PROVE  /\ k \notin processed'[cap[t].session]
                      /\ cap[t].session \notin known' =>
                           captured[cap[t].session][k] < resends'[cap[t].session]
    BY DEF InFlight, Sending
  <2> DEFINE r == cap[t].session
  <2>1. r \in Sessions /\ k \notin processed[r] /\ (r \notin known => captured[r][k] < resends[r])
    BY DEF InFlight, TypeOK
  <2>2. CASE r = s
    BY <1>1, <1>2, <2>1, <2>2 DEF TypeOK, Counters
  <2>3. CASE r # s
    BY <1>1, <1>2, <2>1, <2>3 DEF TypeOK, Counters
  <2>4. QED  BY <2>2, <2>3
<1>5. QED  BY <1>3, <1>4

\* A capture that ends has recorded what it sent, or the record or the answer
\* was lost.
LEMMA IngestKeeps ==
  ASSUME TypeOK, Counters, OneRun, Recorded, InFlight, NEW t \in Timers,
         \E r, b \in BOOLEAN : Ingested(t, r, b)
  PROVE  Recorded' /\ InFlight'
<1>1. PICK reached \in BOOLEAN, answered \in BOOLEAN : Ingested(t, reached, answered)
  OBVIOUS
<1> DEFINE s == cap[t].session
<1>2. s \in Sessions /\ Sending(t) /\ Running(t)
  BY <1>1 DEF Ingested, Ingest, Sending, Running, TypeOK
<1>3. \A u \in Timers : ~Sending(u)'
  BY <1>1, <1>2 DEF Ingested, Ingest, CaptureDone, NoCapture, OneRun, Running, Sending, TypeOK
<1>4. \A r \in Sessions \ {s} : processed'[r] = processed[r] /\ captured'[r] = captured[r] /\ resends'[r] = resends[r]
  BY <1>1 DEF Ingested, Ingest, TypeOK, Counters
<1>5. ASSUME NEW k \in Numbers
      PROVE  /\ k \in processed'[s] => captured'[s][k] > 0
             /\ captured'[s][k] <= resends'[s] + (IF k \in processed'[s] THEN 1 ELSE 0)
  <2>1. captured[s][k] \in Nat /\ resends[s] \in Nat
    BY <1>2 DEF Counters
  <2>2. /\ k \in processed[s] => captured[s][k] > 0
        /\ captured[s][k] <= resends[s] + (IF k \in processed[s] THEN 1 ELSE 0)
    BY <1>2 DEF Recorded
  <2>3. k \in cap[t].batch => k \notin processed[s] /\ (s \notin known => captured[s][k] < resends[s])
    BY <1>2 DEF InFlight
  <2>4. captured'[s][k] = IF reached /\ k \in cap[t].batch THEN captured[s][k] + 1 ELSE captured[s][k]
    BY <1>1, <1>2 DEF Ingested, Ingest, Bump, Counters
  <2>5. resends'[s] = IF reached /\ ~answered THEN resends[s] + 1 ELSE resends[s]
    BY <1>1, <1>2 DEF Ingested, Ingest, Counters
  <2>6. k \in processed'[s] <=> k \in processed[s] \/ (answered /\ s \in known /\ k \in cap[t].batch)
    BY <1>1, <1>2 DEF Ingested, Ingest, TypeOK
  <2>7. answered => reached
    BY <1>1 DEF Ingested, Ingest
  <2>8. QED  BY <2>1, <2>2, <2>3, <2>4, <2>5, <2>6, <2>7
<1>6. Recorded'
  BY <1>4, <1>5 DEF Recorded
<1>7. QED  BY <1>3, <1>6 DEF InFlight

\* Every step keeps what the record of sent messages says.
LEMMA RecordedStep ==
  ASSUME TypeOK, Counters, Locked, OneRun, Recorded, InFlight, [Next]_vars
  PROVE  Recorded' /\ InFlight'
<1> USE DEF opencode, locks, capture, memory, server, ledger, context
<1>1. CASE \E s \in Sessions, a \in Agents : SwitchAgent(s, a)
  BY <1>1 DEF SwitchAgent, Recorded, InFlight, Sending
<1>2. CASE Toggle
  BY <1>2 DEF Toggle, Recorded, InFlight, Sending
<1>3. CASE Restart
  <2>1. \A s \in Sessions, k \in Numbers : captured[s][k] <= resends[s] + 1
    BY DEF Counters, Recorded
  <2>2. \A t \in Timers : ~Sending(t)'
    BY <1>3, RestartSays DEF Sending
  <2>3. \A s \in Sessions : processed'[s] = {} /\ resends'[s] = resends[s] + 1 /\ captured'[s] = captured[s]
    BY <1>3, RestartSays
  <2>4. \A s \in Sessions : resends[s] \in Nat
    BY DEF Counters
  <2>5. QED  BY <2>1, <2>2, <2>3, <2>4 DEF Recorded, InFlight
<1>4. CASE \E s \in Sessions, b \in BOOLEAN : ChatPlain(s, b)
  BY <1>4 DEF ChatPlain, Lock, Said, Recorded, InFlight, Sending
<1>5. CASE \E s \in Sessions, c \in Chats : ChatBegin(c, s)
  BY <1>5 DEF ChatBegin, Lock, Recorded, InFlight, Sending
<1>6. CASE \E c \in Chats, b \in BOOLEAN : ChatInjected(c, b)
  BY <1>6 DEF ChatInjected, InjectionArrives, Said, NoChat, Recorded, InFlight, Sending
<1>7. CASE \E s \in Sessions, t \in Timers : Idle(s, t)
  <2>1. PICK s \in Sessions, t \in Timers : Idle(s, t)
    BY <1>7
  <2>2. UNCHANGED <<captured, processed, known, resends>>
    BY <2>1, IdleSays DEF server, memory
  <2>3. \A u \in Timers : Sending(u)' => cap'[u] = cap[u]
    BY <2>1, IdleSays DEF Sending
  <2>4. QED  BY <2>2, <2>3 DEF Recorded, InFlight, Sending
<1>8. CASE \E t \in Timers : OwnStep(t)
  <2>1. PICK t \in Timers : OwnStep(t)
    BY <1>8
  <2>2. \A u \in Timers \ {t} : cap'[u] = cap[u]
    BY <2>1, OwnSays
  <2>3. CASE Fire(t) \/ FetchFailed(t)
    <3>1. UNCHANGED <<captured, processed, known, resends>> /\ ~Sending(t)'
      BY <2>3 DEF Fire, FetchFailed, CaptureDone, NoCapture, Sending, TypeOK, server, memory
    <3>2. QED  BY <2>2, <3>1 DEF Recorded, InFlight, Sending
  <2>4. CASE Fetched(t)
    <3>1. UNCHANGED <<captured, processed, resends>> /\ known' = known \cup {cap[t].session}
      BY <2>4 DEF Fetched, server
    <3>2. Sending(t)' => cap'[t].session = cap[t].session /\ cap'[t].batch = NewMessages(cap[t].session)
      BY <2>4 DEF Fetched, CaptureDone, NoCapture, Sending, TypeOK
    <3>3. QED  BY <2>2, <3>1, <3>2 DEF Recorded, InFlight, Sending, NewMessages
  <2>5. CASE \E b \in BOOLEAN : AgentResolved(t, b)
    <3>1. UNCHANGED <<captured, processed, known, resends>> /\ Sending(t)
      BY <2>5 DEF AgentResolved, Sending, server, memory
    <3>2. Sending(t)' => cap'[t].session = cap[t].session /\ cap'[t].batch = cap[t].batch
      BY <2>5 DEF AgentResolved, CaptureDone, NoCapture, Sending, TypeOK
    <3>3. QED  BY <2>2, <3>1, <3>2 DEF Recorded, InFlight, Sending
  <2>6. CASE \E r, b \in BOOLEAN : Ingested(t, r, b)
    BY <2>6, IngestKeeps
  <2>7. QED  BY <2>1, <2>3, <2>4, <2>5, <2>6 DEF OwnStep
<1>9. CASE \E s \in Sessions : CompactBegin(s)
  BY <1>9 DEF CompactBegin, NoCapture, Recorded, InFlight, Sending
<1>10. CASE \E s \in Sessions : Deleted(s)
  BY <1>10 DEF Deleted, Recorded, InFlight, Sending
<1>11. CASE CompactGates
  BY <1>11 DEF CompactGates, Recorded, InFlight, Sending
<1>12. CASE CompactSend
  <2>1. CASE comp'.pc = "post"
    BY <1>12, <2>1 DEF CompactSend, Forget, Recorded, InFlight, Sending, memory, server, capture,
            TypeOK
  <2>2. CASE Forget(comp.session)
    BY <1>12, <2>2, ForgetKeeps DEF CompactSend, TypeOK, server, capture
  <2>3. QED  BY <1>12, <2>1, <2>2 DEF CompactSend, TypeOK
<1>13. CASE \E b \in BOOLEAN : CompactSent(b)
  BY <1>13, ForgetKeeps DEF CompactSent, TypeOK, capture
<1>14. CASE \E f \in BOOLEAN, b \in BOOLEAN : Autocontinue(f, b)
  BY <1>14 DEF Autocontinue, NoCapture, Store, Recorded, InFlight, Sending
<1>15. CASE \E s \in Sessions, f \in BOOLEAN, b \in BOOLEAN : Reply(s, f, b)
  BY <1>15 DEF Reply, Store, Recorded, InFlight, Sending
<1>16. CASE UNCHANGED vars
  BY <1>16 DEF vars, Recorded, InFlight, Sending
<1>17. QED
  BY <1>1, <1>2, <1>3, <1>4, <1>5, <1>6, <1>7, <1>8, <1>9, <1>10, <1>11, <1>12, <1>13, <1>14,
          <1>15, <1>16 DEF Next, OwnStep

-----------------------------------------------------------------------------
(* Types and counts. *)

\* The numbers of a transcript.
LEMMA NumbersSay ==
  /\ Numbers \subseteq Nat
  /\ \A s \in Sessions, n \in Nat : n <= MaxMessages[s] => 1 .. n \subseteq Numbers
  /\ MaxMessages \in [Sessions -> Nat]
<1>1. MaxMessages \in [Sessions -> Nat]
  BY OpenCodeAssumption
<1>2. ASSUME NEW s \in Sessions, NEW n \in Nat, n <= MaxMessages[s]
      PROVE  1 .. n \subseteq Numbers
  <2>1. 1 .. n \subseteq 1 .. MaxMessages[s]
    BY <1>1, <1>2
  <2>2. QED  BY <2>1 DEF Numbers
<1>3. QED  BY <1>1, <1>2 DEF Numbers

\* What a room leaves.
LEMMA Counted ==
  ASSUME TypeOK, NEW s \in Sessions
  PROVE  /\ IsFiniteSet(Chatting(s)) /\ Cardinality(Chatting(s)) \in Nat
         /\ said[s] \in Nat /\ since[s] \in Nat /\ MaxMessages[s] \in Nat
<1>1. IsFiniteSet(Chatting(s)) /\ Cardinality(Chatting(s)) \in Nat
  BY OpenCodeAssumption, FS_Subset, FS_CardinalityType DEF Chatting
<1>2. {0} \cup Numbers \subseteq Nat /\ MaxMessages[s] \in Nat
  BY NumbersSay
<1>3. said[s] \in Nat /\ since[s] \in Nat
  BY <1>2 DEF TypeOK
<1>4. QED  BY <1>1, <1>2, <1>3

\* A message that there is room for has a number.
LEMMA NextNumber ==
  ASSUME TypeOK, NEW s \in Sessions, said[s] < MaxMessages[s]
  PROVE  said[s] + 1 \in Numbers
<1>1. said[s] \in Nat /\ said[s] + 1 \in 1 .. said[s] + 1 /\ said[s] + 1 <= MaxMessages[s]
  BY Counted
<1>2. 1 .. (said[s] + 1) \subseteq Numbers
  BY <1>1, NumbersSay
<1>3. QED  BY <1>1, <1>2

\* So there is a number for the message of every chat hook.
LEMMA NumberForChat ==
  ASSUME TypeOK, Timeline, NEW s \in Sessions, NEW c \in Chatting(s)
  PROVE  said[s] + 1 \in Numbers
<1> DEFINE n == Cardinality(Chatting(s))
<1>1. said[s] \in Nat /\ n \in Nat /\ MaxMessages[s] \in Nat
  BY Counted
<1>2. n # 0
  BY Counted, FS_EmptySet
<1>3. said[s] + n <= MaxMessages[s]
  BY DEF Timeline
<1> HIDE DEF n
<1>4. said[s] < MaxMessages[s]
  BY <1>1, <1>2, <1>3
<1>5. QED  BY <1>4, NextNumber

\* A record of no capture, and none of a chat, is of its type.
LEMMA NothingTyped ==
  /\ NoCapture \in [pc : {"off"}, session : Sessions, batch : SUBSET Numbers]
  /\ NoChat \in [pc : {"off"}, session : Sessions]
BY OpenCodeAssumption DEF NoCapture, NoChat

\* A chat hook that awaits the injection is counted.
LEMMA ChatBeginSays ==
  ASSUME TypeOK, NEW s \in Sessions, NEW c \in Chats, ChatBegin(c, s)
  PROVE  /\ c \notin Chatting(s) /\ Chatting(s)' = Chatting(s) \cup {c}
         /\ \A r \in Sessions \ {s} : Chatting(r)' = Chatting(r)
<1>1. chat' = [chat EXCEPT ![c] = [pc |-> "inject", session |-> s]] /\ chat[c].pc = "off"
  BY DEF ChatBegin
<1>2. QED  BY <1>1 DEF TypeOK, Chatting

\* It is no longer counted when it ends.
LEMMA ChatEndSays ==
  ASSUME TypeOK, NEW c \in Chats, NEW b \in BOOLEAN, ChatInjected(c, b),
         NEW s \in Sessions, s = chat[c].session
  PROVE  /\ c \in Chatting(s) /\ Chatting(s)' = Chatting(s) \ {c}
         /\ \A r \in Sessions \ {s} : Chatting(r)' = Chatting(r)
<1>1. chat' = [chat EXCEPT ![c] = NoChat] /\ chat[c].pc = "inject"
  BY DEF ChatInjected, InjectionArrives
<1>2. chat'[c].pc = "off" /\ \A d \in Chats \ {c} : chat'[d] = chat[d]
  BY <1>1 DEF TypeOK, NoChat
<1>3. QED  BY <1>1, <1>2 DEF TypeOK, Chatting

\* What a compaction leaves behind is well typed.
LEMMA ForgetTyped ==
  ASSUME TypeOK, NEW s \in Sessions, Forget(s)
  PROVE  /\ tracked' \in [Sessions -> SUBSET Numbers] /\ processed' \in [Sessions -> SUBSET Numbers]
         /\ known' \subseteq Sessions /\ injected' \subseteq Sessions /\ barred' \subseteq Sessions
         /\ comp' \in [pc : {"summary"}, session : Sessions, batch : SUBSET Numbers]
BY DEF TypeOK, Forget

\* A capture that ends leaves well-typed timers.
LEMMA EndTyped ==
  ASSUME TypeOK, NEW t \in Timers, CaptureDone(t)
  PROVE  /\ isCapturing' \in BOOLEAN /\ handle' \in Timers \cup {None}
         /\ cap' \in [Timers -> [pc : {"off", "pending", "messages", "session", "post"},
                                 session : Sessions, batch : SUBSET Numbers]]
BY NothingTyped DEF CaptureDone, TypeOK

\* Every step keeps the types.
LEMMA TypeStep ==
  ASSUME TypeOK, Timeline, [Next]_vars
  PROVE  TypeOK'
<1> USE OpenCodeAssumption DEF TypeOK, opencode, locks, capture, memory, server, ledger, context
<1>1. CASE \E s \in Sessions, a \in Agents : SwitchAgent(s, a)
  BY <1>1 DEF SwitchAgent
<1>2. CASE Toggle
  BY <1>2 DEF Toggle
<1>3. CASE Restart
  <2>1. UNCHANGED <<said, agent, deleted, mains, autoStore>>
    BY <1>3 DEF Restart
  <2>2. since' = said /\ mainSession' = None /\ cachedAgent' = StaticAgent /\ handle' = None
    BY <1>3 DEF Restart, Reset
  <2>3. /\ tracked' = [s \in Sessions |-> {}] /\ processed' = [s \in Sessions |-> {}]
        /\ known' \cup injected' \cup summarized' \cup overlapped' \cup barred' = {}
        /\ isCapturing' = FALSE /\ due' = {} /\ excused' = {}
    BY <1>3 DEF Restart, Reset
  <2>4. cap' = [t \in Timers |-> NoCapture] /\ chat' = [c \in Chats |-> NoChat] /\ comp' = NoCapture
    BY <1>3 DEF Restart, Reset
  <2>5. QED  BY <2>1, <2>2, <2>3, <2>4, NothingTyped, OpenCodeAssumption
<1>4. CASE \E s \in Sessions, b \in BOOLEAN : ChatPlain(s, b)
  <2>1. PICK s \in Sessions, b \in BOOLEAN : ChatPlain(s, b)
    BY <1>4
  <2>2. said[s] < MaxMessages[s]
    BY <2>1, Counted DEF ChatPlain, Room
  <2>3. said[s] + 1 \in Numbers
    BY <2>2, NextNumber
  <2>4. QED  BY <2>1, <2>3 DEF ChatPlain, Lock, Said
<1>5. CASE \E s \in Sessions, c \in Chats : ChatBegin(c, s)
  BY <1>5 DEF ChatBegin, Lock
<1>6. CASE \E c \in Chats, b \in BOOLEAN : ChatInjected(c, b)
  <2>1. PICK c \in Chats, b \in BOOLEAN : ChatInjected(c, b)
    BY <1>6
  <2>7. PICK s \in Sessions : s = chat[c].session
    OBVIOUS
  <2>2. s \in Sessions /\ c \in Chatting(s)
    BY <2>1, <2>7 DEF ChatInjected, InjectionArrives, Chatting
  <2>5. said[s] + 1 \in Numbers
    BY <2>2, NumberForChat
  <2>6. QED  BY <2>1, <2>2, <2>5, <2>7, NothingTyped DEF ChatInjected, InjectionArrives, Said
<1>7. CASE \E s \in Sessions, t \in Timers : Idle(s, t)
  <2>1. PICK s \in Sessions, t \in Timers : Idle(s, t)
    BY <1>7
  <2>2. cap' = [u \in Timers |->
                 IF u = t THEN [NoCapture EXCEPT !.pc = "pending", !.session = s]
                 ELSE IF u = handle THEN NoCapture ELSE cap[u]]
    BY <2>1 DEF Idle, Arm
  <2>3. [NoCapture EXCEPT !.pc = "pending", !.session = s] \in
          [pc : {"pending"}, session : Sessions, batch : SUBSET Numbers]
    BY NothingTyped
  <2>4. cap' \in [Timers -> [pc : {"off", "pending", "messages", "session", "post"},
                             session : Sessions, batch : SUBSET Numbers]]
    BY <2>2, <2>3, NothingTyped
  <2>5. QED  BY <2>1, <2>4 DEF Idle, Arm
<1>8. CASE \E t \in Timers : OwnStep(t)
  <2>1. PICK t \in Timers : OwnStep(t)
    BY <1>8
  <2>2. CASE Fire(t)
    <3>1. cap' \in [Timers -> [pc : {"off", "pending", "messages", "session", "post"},
                               session : Sessions, batch : SUBSET Numbers]]
      <4>1. \/ cap' = [cap EXCEPT ![t].pc = "messages"]
            \/ cap' = [cap EXCEPT ![t] = NoCapture]
        BY <2>2 DEF Fire
      <4>2. QED  BY <4>1, NothingTyped
    <3>2. isCapturing' \in BOOLEAN /\ handle' \in Timers \cup {None} /\ excused' \subseteq Numbers
      BY <2>2 DEF Fire
    <3>3. UNCHANGED <<opencode, locks, autoStore, memory, summarized, chat, comp, due, context>>
      BY <2>2 DEF Fire
    <3>4. QED  BY <3>1, <3>2, <3>3
  <2>3. CASE Fetched(t)
    <3> DEFINE s == cap[t].session
    <3>1. NewMessages(s) \subseteq Numbers
      <4>1. s \in Sessions /\ said[s] <= MaxMessages[s]
        BY Counted DEF Timeline
      <4>2. QED  BY <4>1, Counted, NumbersSay DEF NewMessages
    <3>2. known' = known \cup {s} /\ s \in Sessions
      BY <2>3 DEF Fetched
    <3>3. \/ CaptureDone(t) /\ excused' = excused \cup NewMessages(s)
          \/ /\ cap' = [cap EXCEPT ![t].pc = "session", ![t].batch = NewMessages(s)]
             /\ UNCHANGED <<isCapturing, handle, excused>>
      BY <2>3 DEF Fetched
    <3>4. /\ isCapturing' \in BOOLEAN /\ handle' \in Timers \cup {None} /\ excused' \subseteq Numbers
          /\ cap' \in [Timers -> [pc : {"off", "pending", "messages", "session", "post"},
                                  session : Sessions, batch : SUBSET Numbers]]
      <4>1. CASE CaptureDone(t) /\ excused' = excused \cup NewMessages(s)
        BY <3>1, <4>1, EndTyped
      <4>2. CASE /\ cap' = [cap EXCEPT ![t].pc = "session", ![t].batch = NewMessages(s)]
                 /\ UNCHANGED <<isCapturing, handle, excused>>
        BY <3>1, <4>2
      <4>3. QED  BY <3>3, <4>1, <4>2
    <3>5. UNCHANGED <<opencode, locks, autoStore, tracked, processed, summarized, chat, comp, due, context>>
      BY <2>3 DEF Fetched
    <3>6. QED  BY <3>2, <3>4, <3>5
  <2>4. CASE FetchFailed(t)
    BY <2>4, NothingTyped DEF FetchFailed, CaptureDone
  <2>5. CASE \E b \in BOOLEAN : AgentResolved(t, b)
    <3>1. PICK b \in BOOLEAN : AgentResolved(t, b)
      BY <2>5
    <3>2. cachedAgent' \in Agents /\ excused' \subseteq Numbers
      BY <3>1 DEF AgentResolved
    <3>3. \/ CaptureDone(t)
          \/ cap' = [cap EXCEPT ![t].pc = "post"] /\ UNCHANGED <<isCapturing, handle>>
      BY <3>1 DEF AgentResolved
    <3>4. /\ isCapturing' \in BOOLEAN /\ handle' \in Timers \cup {None}
          /\ cap' \in [Timers -> [pc : {"off", "pending", "messages", "session", "post"},
                                  session : Sessions, batch : SUBSET Numbers]]
      BY <3>3, EndTyped
    <3>5. UNCHANGED <<opencode, mainSession, mains, autoStore, memory, summarized, chat, comp,
                      due, context>>
      BY <3>1 DEF AgentResolved
    <3>6. QED  BY <3>2, <3>4, <3>5
  <2>6. CASE \E r, b \in BOOLEAN : Ingested(t, r, b)
    <3>1. PICK r \in BOOLEAN, b \in BOOLEAN : Ingested(t, r, b)
      BY <2>6
    <3>2. processed' \in [Sessions -> SUBSET Numbers] /\ excused' \subseteq Numbers
      BY <3>1 DEF Ingested, Ingest
    <3>3. CaptureDone(t)
      BY <3>1 DEF Ingested, Ingest
    <3>4. UNCHANGED <<opencode, locks, autoStore, tracked, known, summarized, chat, comp, due, context>>
      BY <3>1 DEF Ingested, Ingest
    <3>5. QED  BY <3>2, <3>3, <3>4, EndTyped
  <2>7. QED  BY <2>1, <2>2, <2>3, <2>4, <2>5, <2>6 DEF OwnStep
<1>9. CASE \E s \in Sessions : CompactBegin(s)
  <2>1. PICK s \in Sessions : CompactBegin(s)
    BY <1>9
  <2>2. [NoCapture EXCEPT !.pc = "search", !.session = s] \in
          [pc : {"search"}, session : Sessions, batch : SUBSET Numbers]
    BY NothingTyped
  <2>3. QED  BY <2>1, <2>2 DEF CompactBegin
<1>10. CASE \E s \in Sessions : Deleted(s)
  BY <1>10 DEF Deleted
<1>11. CASE CompactGates
  BY <1>11 DEF CompactGates
<1>12. CASE CompactSend
  <2>1. CASE Forget(comp.session)
    <3>1. UNCHANGED <<opencode, locks, autoStore, summarized, capture, chat, due, excused, overlapped>>
      BY <1>12 DEF CompactSend
    <3>2. QED  BY <2>1, <3>1, ForgetTyped
  <2>2. CASE comp' = [comp EXCEPT !.pc = "post", !.batch = tracked[comp.session]]
             /\ UNCHANGED <<memory, injected, barred>>
    BY <1>12, <2>2 DEF CompactSend
  <2>3. QED  BY <1>12, <2>1, <2>2 DEF CompactSend
<1>13. CASE \E b \in BOOLEAN : CompactSent(b)
  <2>1. Forget(comp.session)
    BY <1>13 DEF CompactSent
  <2>2. UNCHANGED <<opencode, locks, autoStore, summarized, capture, chat, due, excused, overlapped>>
    BY <1>13 DEF CompactSent
  <2>3. QED  BY <2>1, <2>2, ForgetTyped
<1>14. CASE \E f \in BOOLEAN, b \in BOOLEAN : Autocontinue(f, b)
  BY <1>14, NothingTyped DEF Autocontinue
<1>15. CASE \E s \in Sessions, f \in BOOLEAN, b \in BOOLEAN : Reply(s, f, b)
  <2>1. PICK s \in Sessions, f \in BOOLEAN, b \in BOOLEAN : Reply(s, f, b)
    BY <1>15
  <2>2. said[s] < MaxMessages[s]
    BY <2>1, Counted DEF Reply, Room
  <2>3. said[s] + 1 \in Numbers
    BY <2>2, NextNumber
  <2>4. QED  BY <2>1, <2>3 DEF Reply
<1>16. CASE UNCHANGED vars
  BY <1>16 DEF vars
<1>17. QED
  BY <1>1, <1>2, <1>3, <1>4, <1>5, <1>6, <1>7, <1>8, <1>9, <1>10, <1>11, <1>12, <1>13, <1>14,
          <1>15, <1>16 DEF Next, OwnStep

\* Every step keeps the types of the counters.
LEMMA CountersStep ==
  ASSUME TypeOK, Counters, [Next]_vars
  PROVE  Counters'
<1> USE DEF Counters, Vias, opencode, locks, capture, memory, server, ledger, context
<1>1. CASE \E s \in Sessions, a \in Agents : SwitchAgent(s, a)
  BY <1>1 DEF SwitchAgent
<1>2. CASE Toggle
  BY <1>2 DEF Toggle
<1>3. CASE Restart
  BY <1>3 DEF Restart, Reset
<1>4. CASE \E s \in Sessions, b \in BOOLEAN : ChatPlain(s, b)
  BY <1>4 DEF ChatPlain, Lock, Said
<1>5. CASE \E s \in Sessions, c \in Chats : ChatBegin(c, s)
  BY <1>5 DEF ChatBegin, Lock
<1>6. CASE \E c \in Chats, b \in BOOLEAN : ChatInjected(c, b)
  BY <1>6 DEF ChatInjected, InjectionArrives, Said, NoChat, TypeOK
<1>7. CASE \E s \in Sessions, t \in Timers : Idle(s, t)
  BY <1>7 DEF Idle, Arm, NoCapture
<1>8. CASE \E t \in Timers : OwnStep(t)
  <2>1. PICK t \in Timers : OwnStep(t)
    BY <1>8
  <2>2. UNCHANGED <<archived, stored, blocks>>
    BY <2>1 DEF OwnStep, Fire, Fetched, FetchFailed, AgentResolved, Ingested, Ingest
  <2>3. CASE UNCHANGED <<captured, resends>>
    BY <2>2, <2>3
  <2>4. CASE \E r, b \in BOOLEAN : Ingested(t, r, b)
    <3>1. cap[t].session \in Sessions
      BY DEF TypeOK
    <3>2. Bump(captured[cap[t].session], cap[t].batch) \in [Numbers -> Nat]
      BY <3>1 DEF Bump
    <3>3. captured' \in [Sessions -> [Numbers -> Nat]] /\ resends' \in [Sessions -> Nat]
      BY <2>4, <3>1, <3>2 DEF Ingested, Ingest
    <3>4. QED  BY <2>2, <3>3
  <2>5. QED  BY <2>1, <2>3, <2>4 DEF OwnStep, Fire, Fetched, FetchFailed, AgentResolved
<1>9. CASE \E s \in Sessions : CompactBegin(s)
  BY <1>9 DEF CompactBegin, NoCapture
<1>10. CASE \E s \in Sessions : Deleted(s)
  BY <1>10 DEF Deleted
<1>11. CASE CompactGates
  BY <1>11 DEF CompactGates
<1>12. CASE CompactSend
  BY <1>12 DEF CompactSend, Forget, TypeOK
<1>13. CASE \E b \in BOOLEAN : CompactSent(b)
  BY <1>13 DEF CompactSent, Forget, Bump, TypeOK
<1>14. CASE \E f \in BOOLEAN, b \in BOOLEAN : Autocontinue(f, b)
  <2>1. PICK f \in BOOLEAN, b \in BOOLEAN : Autocontinue(f, b)
    BY <1>14
  <2>2. UNCHANGED <<captured, archived, resends, blocks>> /\ comp.session \in Sessions
    BY <2>1 DEF Autocontinue, TypeOK
  <2>3. stored' = stored \/ stored' = [stored EXCEPT !["autocontinue"] = @ \cup {comp.session}]
    BY <2>1 DEF Autocontinue, Store
  <2>4. QED  BY <2>2, <2>3
<1>15. CASE \E s \in Sessions, f \in BOOLEAN, b \in BOOLEAN : Reply(s, f, b)
  BY <1>15 DEF Reply, Store
<1>16. CASE UNCHANGED vars
  BY <1>16 DEF vars
<1>17. QED
  BY <1>1, <1>2, <1>3, <1>4, <1>5, <1>6, <1>7, <1>8, <1>9, <1>10, <1>11, <1>12, <1>13, <1>14,
          <1>15, <1>16 DEF Next, OwnStep

\* Every message, those of chat hooks under way included, has room.
LEMMA TimelineStep ==
  ASSUME TypeOK, Locked, Timeline, [Next]_vars
  PROVE  Timeline'
<1> USE DEF Timeline, opencode, locks, capture, memory, server, ledger, context
<1>1. CASE \E s \in Sessions, a \in Agents : SwitchAgent(s, a)
  BY <1>1 DEF SwitchAgent, Chatting
<1>2. CASE Toggle
  BY <1>2 DEF Toggle, Chatting
<1>3. CASE Restart
  <2>1. \A s \in Sessions : Chatting(s)' = {}
    BY <1>3, RestartSays DEF Chatting
  <2>2. QED  BY <1>3, <2>1, RestartSays, FS_EmptySet, Counted
<1>4. CASE \E s \in Sessions, b \in BOOLEAN : ChatPlain(s, b)
  <2>1. PICK s \in Sessions, b \in BOOLEAN : ChatPlain(s, b)
    BY <1>4
  <2>2. /\ said' = [said EXCEPT ![s] = @ + 1] /\ UNCHANGED <<since, chat>> /\ Room(s)
    BY <2>1 DEF ChatPlain, Said
  <2>3. \A r \in Sessions : Chatting(r)' = Chatting(r) /\ Cardinality(Chatting(r)) \in Nat
    BY <2>2, Counted DEF Chatting
  <2>4. QED  BY <2>2, <2>3, Counted DEF Room, TypeOK
<1>5. CASE \E s \in Sessions, c \in Chats : ChatBegin(c, s)
  <2>1. PICK s \in Sessions, c \in Chats : ChatBegin(c, s)
    BY <1>5
  <2>2. UNCHANGED <<said, since>> /\ Room(s)
    BY <2>1 DEF ChatBegin
  <2>3. Cardinality(Chatting(s)') = Cardinality(Chatting(s)) + 1
    BY <2>1, ChatBeginSays, Counted, FS_AddElement
  <2>4. \A r \in Sessions : said[r] \in Nat /\ Cardinality(Chatting(r)) \in Nat
    BY Counted
  <2>5. QED  BY <2>1, <2>2, <2>3, <2>4, ChatBeginSays, Counted DEF Room
<1>6. CASE \E c \in Chats, b \in BOOLEAN : ChatInjected(c, b)
  <2>1. PICK c \in Chats, b \in BOOLEAN : ChatInjected(c, b)
    BY <1>6
  <2>7. PICK s \in Sessions : s = chat[c].session
    BY DEF TypeOK
  <2>2. said' = [said EXCEPT ![s] = said[s] + 1] /\ UNCHANGED since
    BY <2>1, <2>7 DEF ChatInjected, InjectionArrives, Said
  <2>3. Cardinality(Chatting(s)') = Cardinality(Chatting(s)) - 1
    <3>1. c \in Chatting(s) /\ Chatting(s)' = Chatting(s) \ {c}
      BY <2>1, <2>7, ChatEndSays
    <3>2. IsFiniteSet(Chatting(s))
      BY Counted
    <3>3. QED  BY <3>1, <3>2, FS_RemoveElement
  <2>4. \A r \in Sessions : said[r] \in Nat /\ since[r] \in Nat /\ Cardinality(Chatting(r)) \in Nat
    BY Counted
  <2>5. QED  BY <2>1, <2>2, <2>3, <2>4, <2>7, ChatEndSays, Counted DEF TypeOK
<1>7. CASE \E s \in Sessions, t \in Timers : Idle(s, t)
  <2>1. PICK s \in Sessions, t \in Timers : Idle(s, t)
    BY <1>7
  <2>2. UNCHANGED <<said, since, chat>>
    BY <2>1 DEF Idle, Arm
  <2>3. QED  BY <2>2 DEF Chatting
<1>8. CASE \E t \in Timers : OwnStep(t)
  <2>1. PICK t \in Timers : OwnStep(t)
    BY <1>8
  <2>2. QED  BY <2>1, OwnSays DEF Chatting
<1>9. CASE \E s \in Sessions : CompactBegin(s)
  BY <1>9 DEF CompactBegin, NoCapture, Chatting
<1>10. CASE \E s \in Sessions : Deleted(s)
  BY <1>10 DEF Deleted, Chatting
<1>11. CASE CompactGates
  BY <1>11 DEF CompactGates, Chatting
<1>12. CASE CompactSend
  BY <1>12 DEF CompactSend, Forget, Chatting
<1>13. CASE \E b \in BOOLEAN : CompactSent(b)
  BY <1>13 DEF CompactSent, Forget, Chatting
<1>14. CASE \E f \in BOOLEAN, b \in BOOLEAN : Autocontinue(f, b)
  BY <1>14 DEF Autocontinue, NoCapture, Store, Chatting
<1>15. CASE \E s \in Sessions, f \in BOOLEAN, b \in BOOLEAN : Reply(s, f, b)
  <2>1. PICK s \in Sessions, f \in BOOLEAN, b \in BOOLEAN : Reply(s, f, b)
    BY <1>15
  <2>2. /\ said' = [said EXCEPT ![s] = @ + 1] /\ UNCHANGED <<since, chat>> /\ Room(s)
    BY <2>1 DEF Reply
  <2>3. \A r \in Sessions : Chatting(r)' = Chatting(r) /\ Cardinality(Chatting(r)) \in Nat
    BY <2>2, Counted DEF Chatting
  <2>4. QED  BY <2>2, <2>3, Counted DEF Room, TypeOK
<1>16. CASE UNCHANGED vars
  BY <1>16 DEF vars, Chatting
<1>17. QED
  BY <1>1, <1>2, <1>3, <1>4, <1>5, <1>6, <1>7, <1>8, <1>9, <1>10, <1>11, <1>12, <1>13, <1>14,
          <1>15, <1>16 DEF Next, OwnStep

-----------------------------------------------------------------------------
(* What silence means. *)

\* Messages that are added change nothing of what was promised.
LEMMA DueKept ==
  ASSUME TypeOK, Locked, DueSaid, Promised,
         mainSession # None => mainSession' = mainSession,
         said' = said \/ (\E s \in Sessions : said' = [said EXCEPT ![s] = @ + 1]),
         UNCHANGED <<since, due, excused, captured, cap>>
  PROVE  DueSaid' /\ Promised'
<1>1. CASE mainSession = None
  BY <1>1 DEF Locked, DueSaid, Promised
<1>2. CASE mainSession # None
  <2>1. mainSession' = mainSession /\ mainSession \in Sessions
    BY <1>2 DEF TypeOK
  <2>2. Promised'
    BY <2>1 DEF Promised, Sending
  <2>3. said[mainSession] \in Nat /\ said'[mainSession] \in {said[mainSession], said[mainSession] + 1}
    BY <2>1, OpenCodeAssumption DEF TypeOK, Numbers
  <2>4. due \subseteq Nat
    BY OpenCodeAssumption DEF TypeOK, Numbers
  <2>5. QED  BY <2>1, <2>2, <2>3, <2>4 DEF DueSaid
<1>3. QED  BY <1>1, <1>2

\* A timer or a capture hands over what is due, or gives it up.
LEMMA OwnKeepsPromise ==
  ASSUME TypeOK, Counters, OneRun, OfMain, Recorded, DueSaid, Promised, NEW t \in Timers, OwnStep(t)
  PROVE  Promised'
<1> DEFINE m == cap[t].session
<1>1. /\ \A u \in Timers \ {t} : cap'[u] = cap[u]
      /\ UNCHANGED <<said, since, mainSession, due>> /\ m \in Sessions
  BY OwnSays DEF TypeOK, opencode
<1>2. CASE Fire(t)
  <2>1. CASE isCapturing
    BY <1>2, <2>1 DEF Fire, Promised
  <2>2. CASE ~isCapturing
    <3>1. cap'[t].pc = "messages"
      BY <1>2, <2>2 DEF Fire, TypeOK
    <3>2. QED  BY <3>1 DEF Promised
  <2>3. QED  BY <2>1, <2>2
<1>3. CASE FetchFailed(t)
  BY <1>3 DEF FetchFailed, Promised
<1>4. CASE Fetched(t)
  <2>1. m = mainSession /\ UNCHANGED captured
    BY <1>4 DEF Fetched, OfMain, server
  <2> SUFFICES ASSUME NEW k \in due \ excused'
               PROVE  \/ captured[m][k] > 0
                      \/ \E u \in Timers : Sending(u)' /\ k \in cap'[u].batch
    BY <1>1, <2>1 DEF Promised
  <2>2. k \in Numbers /\ since[m] < k /\ k <= said[m] /\ k \in 1 .. said[m]
    BY <1>1, <2>1, OpenCodeAssumption DEF DueSaid, TypeOK, Numbers
  <2>3. CASE k \in processed[m]
    BY <1>1, <2>2, <2>3 DEF Recorded
  <2>4. CASE k \notin processed[m]
    <3>1. k \in NewMessages(m)
      BY <2>2, <2>4 DEF NewMessages
    <3>2. cap' = [cap EXCEPT ![t].pc = "session", ![t].batch = NewMessages(m)]
      BY <1>4, <3>1 DEF Fetched
    <3>3. Sending(t)' /\ cap'[t].batch = NewMessages(m)
      BY <3>2 DEF Sending, TypeOK
    <3>4. QED  BY <3>1, <3>3
  <2>5. QED  BY <2>3, <2>4
<1>5. CASE \E b \in BOOLEAN : AgentResolved(t, b)
  <2>1. PICK b \in BOOLEAN : AgentResolved(t, b)
    BY <1>5
  <2>2. Sending(t) /\ UNCHANGED captured
    BY <2>1 DEF AgentResolved, Sending, server
  <2>3. \/ cap'[t].pc = "post" /\ cap'[t].batch = cap[t].batch /\ UNCHANGED excused
        \/ excused' = excused \cup cap[t].batch
    BY <2>1 DEF AgentResolved, TypeOK
  <2>4. QED  BY <1>1, <2>2, <2>3 DEF Promised, Sending, OneRun, Running
<1>6. CASE \E r, b \in BOOLEAN : Ingested(t, r, b)
  <2>1. PICK reached \in BOOLEAN, b \in BOOLEAN : Ingested(t, reached, b)
    BY <1>6
  <2>2. Sending(t) /\ m = mainSession
    BY <2>1 DEF Ingested, Ingest, Sending, OfMain
  <2>3. /\ captured' = IF reached THEN [captured EXCEPT ![m] = Bump(captured[m], cap[t].batch)] ELSE captured
        /\ excused' = IF reached THEN excused ELSE excused \cup cap[t].batch
    BY <2>1 DEF Ingested, Ingest
  <2>4. \A k \in Numbers : captured[m][k] \in Nat
    BY <1>1 DEF Counters
  <2>5. \A k \in Numbers :
          captured'[m][k] = IF reached /\ k \in cap[t].batch THEN captured[m][k] + 1 ELSE captured[m][k]
    BY <1>1, <2>3 DEF Bump, Counters
  <2>6. \A k \in due \ excused' : k \in Numbers /\ k \in due \ excused
    BY <2>3 DEF TypeOK
  <2> SUFFICES ASSUME NEW k \in due \ excused'
               PROVE  \/ captured'[m][k] > 0
                      \/ \E u \in Timers : cap'[u].pc \in {"pending", "messages"}
                      \/ \E u \in Timers : Sending(u)' /\ k \in cap'[u].batch
    BY <1>1, <2>2 DEF Promised
  <2>7. CASE captured[m][k] > 0
    BY <2>4, <2>5, <2>6, <2>7
  <2>8. CASE \E u \in Timers : cap[u].pc \in {"pending", "messages"}
    BY <1>1, <2>2, <2>8 DEF Sending
  <2>9. CASE \E u \in Timers : Sending(u) /\ k \in cap[u].batch
    <3>1. k \in cap[t].batch
      BY <2>2, <2>9 DEF Sending, OneRun, Running
    <3>2. reached
      BY <2>3, <3>1
    <3>3. QED  BY <2>4, <2>5, <2>6, <3>1, <3>2
  <2>10. QED  BY <2>2, <2>6, <2>7, <2>8, <2>9 DEF Promised
<1>7. QED  BY <1>2, <1>3, <1>4, <1>5, <1>6 DEF OwnStep

\* Every step keeps what the last idle event was promised.
LEMMA PromisedStep ==
  ASSUME TypeOK, Counters, Locked, OneRun, OfMain, Recorded, DueSaid, Promised, [Next]_vars
  PROVE  DueSaid' /\ Promised'
<1> USE DEF opencode, locks, capture, memory, server, ledger, context
<1>1. CASE \E s \in Sessions, a \in Agents : SwitchAgent(s, a)
  BY <1>1 DEF SwitchAgent, DueSaid, Promised, Sending
<1>2. CASE Toggle
  BY <1>2 DEF Toggle, DueSaid, Promised, Sending
<1>3. CASE Restart
  BY <1>3, RestartSays DEF DueSaid, Promised
<1>4. CASE \E s \in Sessions, b \in BOOLEAN : ChatPlain(s, b)
  <2>1. PICK s \in Sessions, b \in BOOLEAN : ChatPlain(s, b)
    BY <1>4
  <2>2. /\ mainSession # None => mainSession' = mainSession
        /\ said' = [said EXCEPT ![s] = @ + 1] /\ UNCHANGED <<since, due, excused, captured, cap>>
    BY <2>1, LockSays DEF ChatPlain, Said
  <2>3. QED  BY <2>2, DueKept
<1>5. CASE \E s \in Sessions, c \in Chats : ChatBegin(c, s)
  <2>1. PICK s \in Sessions, c \in Chats : ChatBegin(c, s)
    BY <1>5
  <2>2. /\ mainSession # None => mainSession' = mainSession
        /\ UNCHANGED <<said, since, due, excused, captured, cap>>
    BY <2>1, LockSays DEF ChatBegin
  <2>3. QED  BY <2>2, DueKept
<1>6. CASE \E c \in Chats, b \in BOOLEAN : ChatInjected(c, b)
  <2>1. PICK c \in Chats, b \in BOOLEAN : ChatInjected(c, b)
    BY <1>6
  <2>2. /\ UNCHANGED <<mainSession, since, due, excused, captured, cap>>
        /\ said' = [said EXCEPT ![chat[c].session] = @ + 1]
    BY <2>1 DEF ChatInjected, InjectionArrives, Said
  <2>3. chat[c].session \in Sessions
    BY DEF TypeOK
  <2>4. QED  BY <2>2, <2>3, DueKept
<1>7. CASE \E s \in Sessions, t \in Timers : Idle(s, t)
  <2>1. PICK s \in Sessions, t \in Timers : Idle(s, t)
    BY <1>7
  <2>2. /\ due' = {k \in Numbers : since[s] < k /\ k <= said[s]} /\ s = mainSession
        /\ UNCHANGED <<mainSession, said, since>> /\ cap'[t].pc = "pending"
    BY <2>1, IdleSays
  <2>3. QED  BY <2>2 DEF DueSaid, Promised
<1>8. CASE \E t \in Timers : OwnStep(t)
  <2>1. PICK t \in Timers : OwnStep(t)
    BY <1>8
  <2>2. /\ \A u \in Timers \ {t} : cap'[u] = cap[u]
        /\ UNCHANGED <<said, since, mainSession, due>>
    BY <2>1, OwnSays
  <2>3. DueSaid'
    BY <2>2 DEF DueSaid
  <2>4. Promised'
    BY <2>1, OwnKeepsPromise
  <2>5. QED  BY <2>3, <2>4
<1>9. CASE \E s \in Sessions : CompactBegin(s)
  BY <1>9 DEF CompactBegin, NoCapture, DueSaid, Promised, Sending
<1>10. CASE \E s \in Sessions : Deleted(s)
  BY <1>10 DEF Deleted, DueSaid, Promised, Sending
<1>11. CASE CompactGates
  BY <1>11 DEF CompactGates, DueSaid, Promised, Sending
<1>12. CASE CompactSend
  BY <1>12 DEF CompactSend, Forget, DueSaid, Promised, Sending
<1>13. CASE \E b \in BOOLEAN : CompactSent(b)
  BY <1>13 DEF CompactSent, Forget, DueSaid, Promised, Sending
<1>14. CASE \E f \in BOOLEAN, b \in BOOLEAN : Autocontinue(f, b)
  BY <1>14 DEF Autocontinue, NoCapture, Store, DueSaid, Promised, Sending
<1>15. CASE \E s \in Sessions, f \in BOOLEAN, b \in BOOLEAN : Reply(s, f, b)
  <2>1. PICK s \in Sessions, f \in BOOLEAN, b \in BOOLEAN : Reply(s, f, b)
    BY <1>15
  <2>2. /\ UNCHANGED <<mainSession, since, due, excused, captured, cap>>
        /\ said' = [said EXCEPT ![s] = @ + 1]
    BY <2>1 DEF Reply
  <2>3. QED  BY <2>2, DueKept
<1>16. CASE UNCHANGED vars
  BY <1>16 DEF vars, DueSaid, Promised, Sending
<1>17. QED
  BY <1>1, <1>2, <1>3, <1>4, <1>5, <1>6, <1>7, <1>8, <1>9, <1>10, <1>11, <1>12, <1>13, <1>14,
          <1>15, <1>16 DEF Next, OwnStep

\* No step stores anything of a session that never was the main one.
LEMMA OnlyMainStep ==
  ASSUME TypeOK, Counters, Locked, OfMain, OnlyMainStored, [Next]_vars
  PROVE  OnlyMainStored'
<1> USE DEF TypeOK, OnlyMainStored, opencode, locks, capture, memory, server, ledger, context
<1>1. CASE \E s \in Sessions, a \in Agents : SwitchAgent(s, a)
  BY <1>1 DEF SwitchAgent
<1>2. CASE Toggle
  BY <1>2 DEF Toggle
<1>3. CASE Restart
  BY <1>3 DEF Restart, Reset
<1>4. CASE \E s \in Sessions, b \in BOOLEAN : ChatPlain(s, b)
  BY <1>4 DEF ChatPlain, Lock, Said
<1>5. CASE \E s \in Sessions, c \in Chats : ChatBegin(c, s)
  BY <1>5 DEF ChatBegin, Lock
<1>6. CASE \E c \in Chats, b \in BOOLEAN : ChatInjected(c, b)
  BY <1>6 DEF ChatInjected, InjectionArrives, Said, NoChat
<1>7. CASE \E s \in Sessions, t \in Timers : Idle(s, t)
  <2>1. PICK s \in Sessions, t \in Timers : Idle(s, t)
    BY <1>7
  <2>2. UNCHANGED <<mains, captured, archived, stored>>
    BY <2>1, IdleSays DEF locks, server
  <2>3. QED  BY <2>2
<1>8. CASE \E t \in Timers : OwnStep(t)
  <2>1. PICK t \in Timers : OwnStep(t)
    BY <1>8
  <2>2. UNCHANGED <<mains, archived, stored>>
    BY <2>1 DEF OwnStep, Fire, Fetched, FetchFailed, AgentResolved, Ingested, Ingest
  <2>3. CASE UNCHANGED captured
    BY <2>2, <2>3
  <2>4. CASE \E r, b \in BOOLEAN : Ingested(t, r, b)
    <3>1. cap[t].session \in mains
      BY <2>4, OpenCodeAssumption DEF Ingested, Ingest, OfMain, Locked
    <3>2. \A s \in Sessions \ {cap[t].session} : captured'[s] = captured[s]
      BY <2>4 DEF Ingested, Ingest, Counters
    <3>3. QED  BY <2>2, <3>1, <3>2
  <2>5. QED  BY <2>1, <2>3, <2>4 DEF OwnStep, Fire, Fetched, FetchFailed, AgentResolved
<1>9. CASE \E s \in Sessions : CompactBegin(s)
  BY <1>9 DEF CompactBegin, NoCapture
<1>10. CASE \E s \in Sessions : Deleted(s)
  BY <1>10 DEF Deleted
<1>11. CASE CompactGates
  BY <1>11 DEF CompactGates
<1>12. CASE CompactSend
  BY <1>12 DEF CompactSend, Forget
<1>13. CASE \E b \in BOOLEAN : CompactSent(b)
  <2>1. PICK b \in BOOLEAN : CompactSent(b)
    BY <1>13
  <2>2. UNCHANGED <<mains, captured, stored>> /\ comp.session \in mains
    BY <2>1, OpenCodeAssumption DEF CompactSent, OfMain, Locked
  <2>3. \A s \in Sessions \ {comp.session} : archived'[s] = archived[s]
    BY <2>1 DEF CompactSent, Counters
  <2>4. QED  BY <2>2, <2>3
<1>14. CASE \E f \in BOOLEAN, b \in BOOLEAN : Autocontinue(f, b)
  <2>1. PICK f \in BOOLEAN, b \in BOOLEAN : Autocontinue(f, b)
    BY <1>14
  <2>2. UNCHANGED <<mains, captured, archived>> /\ stored'["summary"] = stored["summary"]
    BY <2>1 DEF Autocontinue, Store, Counters, Vias
  <2>3. QED  BY <2>2
<1>15. CASE \E s \in Sessions, f \in BOOLEAN, b \in BOOLEAN : Reply(s, f, b)
  <2>1. PICK s \in Sessions, f \in BOOLEAN, b \in BOOLEAN : Reply(s, f, b)
    BY <1>15
  <2>2. mainSession # None /\ mainSession \in mains
    BY <2>1, ActiveLocked DEF Reply
  <2>3. UNCHANGED <<mains, captured, archived>>
    BY <2>1 DEF Reply
  <2>4. stored' = stored \/ (s \in mains /\ stored' = [stored EXCEPT !["summary"] = @ \cup {s}])
    BY <2>1, <2>2 DEF Reply, Store, SummaryGates, OtherThanMain
  <2>5. stored'["summary"] \subseteq stored["summary"] \cup mains
    BY <2>4 DEF Counters, Vias
  <2>6. QED  BY <2>3, <2>5
<1>16. CASE UNCHANGED vars
  BY <1>16 DEF vars
<1>17. QED
  BY <1>1, <1>2, <1>3, <1>4, <1>5, <1>6, <1>7, <1>8, <1>9, <1>10, <1>11, <1>12, <1>13, <1>14,
          <1>15, <1>16 DEF Next, OwnStep

-----------------------------------------------------------------------------
(* What the flag of the injection says. *)

\* While a session is compacted, it has no block that its flag would stand for.
LEMMA CompactKeepsBlocks ==
  ASSUME TypeOK, BlockFlagged, comp.pc # "off", comp'.session = comp.session,
         UNCHANGED <<blocks, overlapped, chat>>,
         injected' = injected \/ injected' = injected \ {comp.session}
  PROVE  BlockFlagged'
<1>1. \A r \in Sessions : Chatting(r)' = Chatting(r) /\ (Compacting(r)' => Compacting(r))
  BY DEF Chatting, Compacting
<1>2. \A r \in Sessions : r \in injected /\ ~Compacting(r) => r \in injected'
  BY DEF Compacting
<1>3. QED  BY <1>1, <1>2 DEF BlockFlagged

\* A block comes with its flag, to a session that no other hook works on.
LEMMA BlockStep ==
  ASSUME TypeOK, Counters, Locked, BlockFlagged, [Next]_vars
  PROVE  BlockFlagged'
<1> USE DEF opencode, locks, capture, memory, server, ledger, context
<1>1. CASE \E s \in Sessions, a \in Agents : SwitchAgent(s, a)
  BY <1>1 DEF SwitchAgent, BlockFlagged, Chatting, Compacting
<1>2. CASE Toggle
  BY <1>2 DEF Toggle, BlockFlagged, Chatting, Compacting
<1>3. CASE Restart
  <2>1. \A s \in Sessions : Chatting(s)' = {} /\ ~Compacting(s)' /\ blocks'[s] = 0
    BY <1>3, RestartSays DEF Chatting, Compacting
  <2>2. QED  BY <2>1 DEF BlockFlagged
<1>4. CASE \E s \in Sessions, b \in BOOLEAN : ChatPlain(s, b)
  <2>1. PICK s \in Sessions, b \in BOOLEAN : ChatPlain(s, b)
    BY <1>4
  <2>2. UNCHANGED <<blocks, overlapped, chat, comp>> /\ injected \subseteq injected'
    BY <2>1 DEF ChatPlain
  <2>3. QED  BY <2>2 DEF BlockFlagged, Chatting, Compacting
<1>5. CASE \E s \in Sessions, c \in Chats : ChatBegin(c, s)
  <2>1. PICK s \in Sessions, c \in Chats : ChatBegin(c, s)
    BY <1>5
  <2>2. /\ overlapped' = IF Chatting(s) # {} \/ Compacting(s) THEN overlapped \cup {s} ELSE overlapped
        /\ s \notin injected /\ UNCHANGED <<blocks, injected, comp>>
    BY <2>1 DEF ChatBegin, Compacting
  <2>3. \A r \in Sessions : Compacting(r)' <=> Compacting(r)
    BY <2>2 DEF Compacting
  <2>4. Chatting(s)' = Chatting(s) \cup {c} /\ \A r \in Sessions \ {s} : Chatting(r)' = Chatting(r)
    BY <2>1, ChatBeginSays
  <2>5. QED  BY <2>2, <2>3, <2>4 DEF BlockFlagged, Counters
<1>6. CASE \E c \in Chats, b \in BOOLEAN : ChatInjected(c, b)
  <2>1. PICK c \in Chats, b \in BOOLEAN : ChatInjected(c, b)
    BY <1>6
  <2>2. PICK s \in Sessions : s = chat[c].session
    BY DEF TypeOK
  <2>3. /\ c \in Chatting(s) /\ Chatting(s)' = Chatting(s) \ {c}
        /\ \A r \in Sessions \ {s} : Chatting(r)' = Chatting(r)
    BY <2>1, <2>2, ChatEndSays
  <2>4. /\ injected' = (IF b THEN injected \cup {s} ELSE injected)
        /\ blocks' = [blocks EXCEPT ![s] = IF b THEN blocks[s] + 1 ELSE blocks[s]]
        /\ UNCHANGED <<comp, overlapped>>
    BY <2>1, <2>2 DEF ChatInjected, InjectionArrives
  <2>5. \A r \in Sessions : blocks[r] \in Nat /\ (Compacting(r)' <=> Compacting(r))
    BY <2>4 DEF Compacting, Counters
  <2>6. s \notin overlapped => blocks[s] = 0
    BY <2>3, <2>5 DEF BlockFlagged
  <2>7. QED  BY <2>3, <2>4, <2>5, <2>6 DEF BlockFlagged, Counters
<1>7. CASE \E s \in Sessions, t \in Timers : Idle(s, t)
  <2>1. PICK s \in Sessions, t \in Timers : Idle(s, t)
    BY <1>7
  <2>2. UNCHANGED <<injected, blocks, overlapped, chat, comp>>
    BY <2>1, IdleSays DEF context
  <2>3. QED  BY <2>2 DEF BlockFlagged, Chatting, Compacting
<1>8. CASE \E t \in Timers : OwnStep(t)
  <2>1. PICK t \in Timers : OwnStep(t)
    BY <1>8
  <2>2. UNCHANGED <<injected, blocks, overlapped, chat, comp>>
    BY <2>1, OwnSays DEF context
  <2>3. QED  BY <2>2 DEF BlockFlagged, Chatting, Compacting
<1>9. CASE \E s \in Sessions : CompactBegin(s)
  <2>1. PICK s \in Sessions : CompactBegin(s)
    BY <1>9
  <2>2. /\ comp.pc = "off" /\ comp'.session = s
        /\ blocks' = [blocks EXCEPT ![s] = 0]
        /\ overlapped' = IF Chatting(s) # {} THEN overlapped \cup {s} ELSE overlapped \ {s}
        /\ UNCHANGED <<chat, injected>>
    BY <2>1 DEF CompactBegin, NoCapture
  <2>3. \A r \in Sessions : Chatting(r)' = Chatting(r)
    BY <2>2 DEF Chatting
  <2>4. \A r \in Sessions \ {s} : ~Compacting(r)'
    BY <2>2 DEF Compacting
  <2>5. QED  BY <2>2, <2>3, <2>4 DEF BlockFlagged, Counters
<1>10. CASE \E s \in Sessions : Deleted(s)
  BY <1>10 DEF Deleted, BlockFlagged, Chatting, Compacting
<1>11. CASE CompactGates
  <2>1. UNCHANGED <<injected, blocks, overlapped, chat>> /\ comp.pc # "off" /\ comp'.session = comp.session
    BY <1>11 DEF CompactGates, TypeOK
  <2>2. QED  BY <2>1 DEF BlockFlagged, Chatting, Compacting
<1>12. CASE CompactSend
  <2>1. /\ comp.pc # "off" /\ comp'.session = comp.session /\ UNCHANGED <<blocks, overlapped, chat>>
        /\ injected' = injected \/ injected' = injected \ {comp.session}
    BY <1>12 DEF CompactSend, Forget, TypeOK
  <2>2. QED  BY <2>1, CompactKeepsBlocks
<1>13. CASE \E b \in BOOLEAN : CompactSent(b)
  <2>1. /\ comp.pc # "off" /\ comp'.session = comp.session /\ UNCHANGED <<blocks, overlapped, chat>>
        /\ injected' = injected \ {comp.session}
    BY <1>13 DEF CompactSent, Forget, TypeOK
  <2>2. QED  BY <2>1, CompactKeepsBlocks
<1>14. CASE \E f \in BOOLEAN, b \in BOOLEAN : Autocontinue(f, b)
  <2>1. UNCHANGED <<injected, blocks, overlapped, chat>> /\ comp'.pc = "off"
    BY <1>14 DEF Autocontinue, NoCapture
  <2>2. \A r \in Sessions : ~Compacting(r)' /\ Chatting(r)' = Chatting(r)
    BY <2>1 DEF Compacting, Chatting
  <2>3. QED  BY <2>1, <2>2 DEF BlockFlagged
<1>15. CASE \E s \in Sessions, f \in BOOLEAN, b \in BOOLEAN : Reply(s, f, b)
  BY <1>15 DEF Reply, Store, BlockFlagged, Chatting, Compacting
<1>16. CASE UNCHANGED vars
  BY <1>16 DEF vars, BlockFlagged, Chatting, Compacting
<1>17. QED
  BY <1>1, <1>2, <1>3, <1>4, <1>5, <1>6, <1>7, <1>8, <1>9, <1>10, <1>11, <1>12, <1>13, <1>14,
          <1>15, <1>16 DEF Next, OwnStep

\* What a compaction takes away it takes away with its excuses.
LEMMA ForgetKeepsFlag ==
  ASSUME TypeOK, FlagKept, Forget(comp.session), UNCHANGED <<blocks, overlapped, mainSession>>
  PROVE  FlagKept'
<1>1. /\ injected' = injected \ {comp.session} /\ barred' = barred \ {comp.session}
      /\ comp'.session = comp.session
  BY DEF Forget, TypeOK
<1>2. QED  BY <1>1 DEF FlagKept, Compacting

\* The flag of the main session keeps what it stands for.
LEMMA FlagStep ==
  ASSUME TypeOK, Counters, Locked, FlagKept, [Next]_vars
  PROVE  FlagKept'
<1> USE DEF opencode, locks, capture, memory, server, ledger, context
<1>1. CASE \E s \in Sessions, a \in Agents : SwitchAgent(s, a)
  BY <1>1 DEF SwitchAgent, FlagKept, Compacting
<1>2. CASE Toggle
  BY <1>2 DEF Toggle, FlagKept, Compacting
<1>3. CASE Restart
  BY <1>3, RestartSays DEF FlagKept
<1>4. CASE \E s \in Sessions, b \in BOOLEAN : ChatPlain(s, b)
  <2>1. PICK s \in Sessions, b \in BOOLEAN : ChatPlain(s, b)
    BY <1>4
  <2>2. /\ mainSession # None => mainSession' = mainSession
        /\ injected' \ injected \subseteq barred' /\ barred \subseteq barred'
        /\ UNCHANGED <<blocks, overlapped, comp>>
    BY <2>1, LockSays DEF ChatPlain
  <2>3. QED  BY <2>2 DEF FlagKept, Locked, Compacting
<1>5. CASE \E s \in Sessions, c \in Chats : ChatBegin(c, s)
  <2>1. PICK s \in Sessions, c \in Chats : ChatBegin(c, s)
    BY <1>5
  <2>2. /\ mainSession # None => mainSession' = mainSession
        /\ overlapped \subseteq overlapped' /\ UNCHANGED <<injected, barred, blocks, comp>>
    BY <2>1, LockSays DEF ChatBegin
  <2>3. QED  BY <2>2 DEF FlagKept, Locked, Compacting
<1>6. CASE \E c \in Chats, b \in BOOLEAN : ChatInjected(c, b)
  <2>1. PICK c \in Chats, b \in BOOLEAN : ChatInjected(c, b)
    BY <1>6
  <2>2. PICK s \in Sessions : s = chat[c].session
    BY DEF TypeOK
  <2>3. /\ injected' = (IF b THEN injected \cup {s} ELSE injected)
        /\ blocks' = [blocks EXCEPT ![s] = IF b THEN blocks[s] + 1 ELSE blocks[s]]
        /\ UNCHANGED <<comp, overlapped, barred, mainSession>>
    BY <2>1, <2>2 DEF ChatInjected, InjectionArrives, locks
  <2>4. \A r \in Sessions : blocks'[r] >= blocks[r] /\ blocks[r] \in Nat /\ blocks'[r] \in Nat
    BY <2>3 DEF Counters
  <2>5. b => blocks'[s] > 0
    BY <2>3 DEF Counters
  <2>6. QED  BY <2>3, <2>4, <2>5 DEF FlagKept, Compacting, TypeOK
<1>7. CASE \E s \in Sessions, t \in Timers : Idle(s, t)
  <2>1. PICK s \in Sessions, t \in Timers : Idle(s, t)
    BY <1>7
  <2>2. UNCHANGED <<injected, blocks, overlapped, barred, mainSession, comp>>
    BY <2>1, IdleSays DEF context, locks
  <2>3. QED  BY <2>2 DEF FlagKept, Compacting
<1>8. CASE \E t \in Timers : OwnStep(t)
  <2>1. PICK t \in Timers : OwnStep(t)
    BY <1>8
  <2>2. UNCHANGED <<injected, blocks, overlapped, barred, mainSession, comp>>
    BY <2>1, OwnSays DEF context, locks
  <2>3. QED  BY <2>2 DEF FlagKept, Compacting
<1>9. CASE \E s \in Sessions : CompactBegin(s)
  <2>1. PICK s \in Sessions : CompactBegin(s)
    BY <1>9
  <2>2. /\ comp'.session = s /\ comp'.pc = "search" /\ blocks' = [blocks EXCEPT ![s] = 0]
        /\ overlapped \ {s} \subseteq overlapped' /\ comp.pc = "off"
        /\ UNCHANGED <<injected, barred, mainSession>>
    BY <2>1 DEF CompactBegin, NoCapture, locks
  <2>3. Compacting(s)' /\ comp'.pc # "summary"
    BY <2>2 DEF Compacting
  <2>4. QED  BY <2>2, <2>3 DEF FlagKept, Compacting, Counters
<1>10. CASE \E s \in Sessions : Deleted(s)
  BY <1>10 DEF Deleted, FlagKept, Compacting, locks, context
<1>11. CASE CompactGates
  <2>1. UNCHANGED <<injected, blocks, overlapped, barred, mainSession>> /\ comp'.session = comp.session
    BY <1>11 DEF CompactGates, TypeOK, locks, context
  <2>2. Policy[StaticAgent] = "readwrite" /\ mainSession = comp.session => comp'.pc = "session"
    BY <1>11 DEF CompactGates, OtherThanMain, TypeOK
  <2>3. QED  BY <1>11, <2>1, <2>2 DEF FlagKept, Compacting, CompactGates
<1>12. CASE CompactSend
  <2>1. CASE Forget(comp.session)
    BY <1>12, <2>1, ForgetKeepsFlag DEF CompactSend, locks
  <2>2. CASE comp' = [comp EXCEPT !.pc = "post", !.batch = tracked[comp.session]] /\ UNCHANGED <<injected, barred>>
    <3>1. comp'.session = comp.session /\ comp'.pc = "post" /\ comp.pc = "session"
      BY <1>12, <2>2 DEF CompactSend, TypeOK
    <3>2. QED  BY <1>12, <2>2, <3>1 DEF CompactSend, FlagKept, Compacting, locks
  <2>3. QED  BY <1>12, <2>1, <2>2 DEF CompactSend
<1>13. CASE \E b \in BOOLEAN : CompactSent(b)
  BY <1>13, ForgetKeepsFlag DEF CompactSent, locks
<1>14. CASE \E f \in BOOLEAN, b \in BOOLEAN : Autocontinue(f, b)
  <2>1. UNCHANGED <<injected, blocks, overlapped, barred, mainSession>> /\ comp.pc = "summary"
    BY <1>14 DEF Autocontinue, locks, context
  <2>2. QED  BY <2>1 DEF FlagKept, Compacting
<1>15. CASE \E s \in Sessions, f \in BOOLEAN, b \in BOOLEAN : Reply(s, f, b)
  BY <1>15 DEF Reply, FlagKept, Compacting, locks, context
<1>16. CASE UNCHANGED vars
  BY <1>16 DEF vars, FlagKept, Compacting
<1>17. QED
  BY <1>1, <1>2, <1>3, <1>4, <1>5, <1>6, <1>7, <1>8, <1>9, <1>10, <1>11, <1>12, <1>13, <1>14,
          <1>15, <1>16 DEF Next, OwnStep

-----------------------------------------------------------------------------
(* The theorems. *)

\* An instance that has just started has sent, promised and injected nothing.
LEMMA InitIInv ==
  ASSUME Init
  PROVE  IInv
<1> USE DEF Init, Reset
<1>1. TypeOK
  BY NothingTyped, OpenCodeAssumption DEF TypeOK
<1>2. Counters
  BY NumbersSay DEF Counters, Zero
<1>3. \A s \in Sessions : Chatting(s) = {}
  BY DEF Chatting, NoChat
<1>4. Timeline
  <2>1. \A s \in Sessions : said[s] = 0 /\ since[s] = 0 /\ MaxMessages[s] \in Nat
    BY NumbersSay
  <2>2. \A s \in Sessions : Cardinality(Chatting(s)) = 0
    BY <1>3, FS_EmptySet
  <2>3. QED  BY <2>1, <2>2 DEF Timeline
<1>5. comp.pc = "off" /\ \A t \in Timers : cap[t].pc = "off"
  BY DEF NoCapture
<1>6. Locked
  BY <1>3, <1>5 DEF Locked
<1>7. OneRun /\ OfMain /\ InFlight /\ DueSaid /\ Promised
  BY <1>5 DEF OneRun, Running, OfMain, InFlight, Sending, DueSaid, Promised
<1>8. Recorded /\ OnlyMainStored
  BY DEF Recorded, OnlyMainStored, Zero, Vias
<1>9. BlockFlagged /\ FlagKept
  BY <1>3 DEF BlockFlagged, FlagKept
<1>10. QED  BY <1>1, <1>2, <1>4, <1>6, <1>7, <1>8, <1>9 DEF IInv

\* Every step of OpenCode or of the plugin keeps the invariant.
LEMMA StepIInv ==
  ASSUME IInv, [Next]_vars
  PROVE  IInv'
BY LockedStep, OneRunStep, OfMainStep, RecordedStep, TypeStep, CountersStep, TimelineStep,
   PromisedStep, OnlyMainStep, BlockStep, FlagStep DEF IInv

\* So it holds in every state.
THEOREM IInvHolds == Spec => []IInv
<1>1. Init => IInv
  BY InitIInv
<1>2. IInv /\ [Next]_vars => IInv'
  BY StepIInv
<1>3. QED  BY <1>1, <1>2, PTL DEF Spec

\* A message is sent again only for a record or an answer that was lost.
THEOREM ResendIsBounded == Spec => []ResendBounded
<1>1. IInv => ResendBounded
  <2> SUFFICES ASSUME IInv, NEW s \in Sessions, NEW k \in Numbers
               PROVE  captured[s][k] <= 1 + resends[s]
    BY DEF ResendBounded
  <2>1. captured[s][k] \in Nat /\ resends[s] \in Nat
    BY DEF IInv, Counters
  <2>2. captured[s][k] <= resends[s] + (IF k \in processed[s] THEN 1 ELSE 0)
    BY DEF IInv, Recorded
  <2>3. QED  BY <2>1, <2>2
<1>2. QED  BY <1>1, IInvHolds, PTL

\* When nothing is pending and nothing runs, what was asked for is captured.
THEOREM QuietIsCaptured == Spec => []QuietMeansCaptured
<1>1. IInv => QuietMeansCaptured
  BY DEF IInv, Promised, Sending, QuietMeansCaptured
<1>2. QED  BY <1>1, IInvHolds, PTL

\* Nothing of a session that never was the main one is stored.
THEOREM OnlyMainIsStored == Spec => []OnlyMainStored
<1>1. IInv => OnlyMainStored
  BY DEF IInv
<1>2. QED  BY <1>1, IInvHolds, PTL

\* What the plugin's maps say of an injection is what the conversation shows.
THEOREM InjectionIsHonest == Spec => []InjectionHonest
<1>1. IInv => InjectionHonest
  <2> SUFFICES ASSUME IInv PROVE InjectionHonest
    OBVIOUS
  <2>1. OneBlock
    BY DEF IInv, BlockFlagged, OneBlock
  <2>2. FlagMeansBlock
    BY DEF IInv, FlagKept, FlagMeansBlock, Compacting
  <2>3. QED  BY <2>1, <2>2 DEF IInv, InjectionHonest
<1>2. QED  BY <1>1, IInvHolds, PTL

=============================================================================
