------------------------------- MODULE OpenCode -------------------------------
(***************************************************************************)
(* The OpenCode plugin (plugins/opencode/src): what of a session's         *)
(* transcript reaches the server, and when the block of memories is put    *)
(* into a session's context.  index.ts wires the hooks of hooks.ts to      *)
(* OpenCode's events; every await in a hook is a step of its own, and any  *)
(* other hook may run there.                                               *)
(*                                                                         *)
(* OpenCode itself (sessions, transcripts, compactions, agents) is         *)
(* modelled as far as its events need it.                                  *)
(***************************************************************************)
EXTENDS Naturals, FiniteSets, FiniteSetsExt

CONSTANTS
  Sessions,       \* sessions of one OpenCode instance
  Agents,         \* agents a session may run
  StaticAgent,    \* OMEM_AGENT_ID, "opencode" by default
  Policy,         \* resolveAgentPolicy of each agent
  Threshold,      \* ingest.autoCaptureThreshold
  Stamped,        \* do messages carry the createdAt that the idle hook reads?
  Timers,         \* bound: idle timers and captures at once
  Chats,          \* bound: chat.message hooks at once
  MaxMessages,    \* bound: messages of each session
  MaxEvents,      \* bound: compactions, restarts, faults, toggles, agent switches
  MaxBudget       \* bound: all of those together

None == "none"
Vias == {"summary", "autocontinue"}

ASSUME OpenCodeAssumption ==
  /\ Sessions # {} /\ None \notin Sessions \cup Timers /\ IsFiniteSet(Chats)
  /\ StaticAgent \in Agents /\ Policy \in [Agents -> {"none", "readonly", "readwrite"}]
  /\ Threshold \in Nat /\ MaxMessages \in [Sessions -> Nat] /\ Stamped \in BOOLEAN
  /\ MaxBudget \in Nat
  /\ MaxEvents \in [{"compact", "restart", "fault", "toggle", "switch"} -> Nat]

VARIABLES
  said,        \* said[s]: messages with text in the transcript of s
  since,       \* since[s]: those older than the plugin
  agent,       \* agent[s]: the agent of s
  deleted,     \* sessions that OpenCode deleted
  mainSession, \* the session that the plugin is locked to, or None
  cachedAgent, \* cachedAgentName, or the static agent
  autoStore,   \* autoStore[s]: the switch of memory_toggle, kept in a file
  tracked,     \* sessionMessages[s]: the user's messages since the last compaction
  known,       \* sessions that processedMessageIds has an entry for
  processed,   \* processed[s]: that entry
  injected,    \* injectedSessions
  summarized,  \* summarizedSessions
  isCapturing,
  handle,      \* the timer that idleTimeout refers to, if it is pending
  cap,         \* cap[t]: idle timer t, then the capture it runs
  chat,        \* chat[c]: a chat.message hook that awaits the injection
  comp,        \* the compacting hook
  captured,    \* captured[s][k]: session-ingest requests the server has with k
  archived,    \* archived[s][k]: ingest requests of a compaction with k
  stored,      \* stored[via]: sessions of which the server has a summary
  blocks,      \* blocks[s]: blocks of memories in the context of s
  due,         \* messages that the last idle event asked to capture
  excused,     \* those of them that a logged failure or gate gave up
  resends,     \* resends[s]: times that processed[s] or an answer was lost
  mains,       \* sessions that were the main session
  overlapped,  \* sessions where a chat hook overlapped another hook
  barred,      \* sessions flagged because their agent has no access
  events       \* events so far, by kind

opencode == <<said, since, agent, deleted>>
locks    == <<mainSession, mains, cachedAgent>>
capture  == <<isCapturing, handle, cap>>
memory   == <<tracked, known, processed>>
server   == <<captured, archived, stored>>
ledger   == <<due, excused, resends>>
context  == <<injected, blocks, overlapped, barred>>
vars == <<opencode, locks, autoStore, memory, summarized, capture, chat, comp,
          server, ledger, context, events>>

Numbers == UNION {1 .. MaxMessages[s] : s \in Sessions}
Zero == [s \in Sessions |-> [k \in Numbers |-> 0]]

NoCapture == [pc |-> "off", session |-> CHOOSE s \in Sessions : TRUE, batch |-> {}]
NoChat    == [pc |-> "off", session |-> CHOOSE s \in Sessions : TRUE]

TypeOK ==
  /\ said \in [Sessions -> {0} \cup Numbers] /\ since \in [Sessions -> {0} \cup Numbers]
  /\ agent \in [Sessions -> Agents] /\ cachedAgent \in Agents
  /\ mainSession \in Sessions \cup {None} /\ mains \subseteq Sessions
  /\ deleted \subseteq Sessions /\ autoStore \in [Sessions -> BOOLEAN]
  /\ tracked \in [Sessions -> SUBSET Numbers] /\ processed \in [Sessions -> SUBSET Numbers]
  /\ known \cup injected \cup summarized \cup overlapped \cup barred \subseteq Sessions
  /\ isCapturing \in BOOLEAN /\ handle \in Timers \cup {None}
  /\ cap \in [Timers -> [pc : {"off", "pending", "messages", "session", "post"},
                         session : Sessions, batch : SUBSET Numbers]]
  /\ chat \in [Chats -> [pc : {"off", "inject"}, session : Sessions]]
  /\ comp \in [pc : {"off", "search", "session", "post", "summary"},
               session : Sessions, batch : SUBSET Numbers]
  /\ due \subseteq Numbers /\ excused \subseteq Numbers

Reset ==   \* The plugin's memory when OpenCode starts.
  [locks |-> <<None, StaticAgent>>,
   none  |-> [s \in Sessions |-> {}],
   cap   |-> [t \in Timers |-> NoCapture],
   chat  |-> [c \in Chats |-> NoChat]]

Init ==
  /\ said = [s \in Sessions |-> 0] /\ since = said /\ deleted = {}
  /\ agent = [s \in Sessions |-> StaticAgent]
  /\ mainSession = None /\ cachedAgent = StaticAgent /\ mains = {}
  /\ autoStore = [s \in Sessions |-> TRUE]
  /\ tracked = Reset.none /\ processed = Reset.none /\ known = {}
  /\ injected = {} /\ summarized = {} /\ overlapped = {} /\ barred = {}
  /\ isCapturing = FALSE /\ handle = None /\ cap = Reset.cap
  /\ chat = Reset.chat /\ comp = NoCapture
  /\ captured = Zero /\ archived = Zero
  /\ stored = [via \in Vias |-> {}]
  /\ blocks = [s \in Sessions |-> 0]
  /\ due = {} /\ excused = {} /\ resends = [s \in Sessions |-> 0]
  /\ events = [e \in DOMAIN MaxEvents |-> 0]

Count(e) ==
  /\ events[e] < MaxEvents[e] /\ MapThenSumSet(LAMBDA x : events[x], DOMAIN events) < MaxBudget
  /\ events' = [events EXCEPT ![e] = @ + 1]
Bump(count, batch) == [k \in Numbers |-> IF k \in batch THEN count[k] + 1 ELSE count[k]]
\* sanitizeSessionId leaves OpenCode's own ids as they are.
OtherThanMain(s) == mainSession # None /\ s # mainSession
\* A session runs after a prompt, and not after its deletion.
Active(s) == s \notin deleted /\ said[s] > since[s]
\* isAutoStoreEnabled: what the session's file says, on if there is none.
StoreEnabled(s) == autoStore[s]

-----------------------------------------------------------------------------
(* OpenCode: agents, the auto-store switch, the start of the plugin.       *)

SwitchAgent(s, a) ==
  /\ Count("switch") /\ agent[s] # a
  /\ agent' = [agent EXCEPT ![s] = a]
  /\ UNCHANGED <<said, since, deleted, locks, autoStore, memory, summarized, capture, chat,
                 comp, server, ledger, context>>

\* memory_toggle acts on the main session, whichever session calls it, if the
\* policy of the agent that a capture saw last allows writing.
Toggle ==
  /\ Count("toggle") /\ mainSession # None /\ Policy[cachedAgent] = "readwrite"
  /\ autoStore' = [autoStore EXCEPT ![mainSession] = ~@]
  /\ UNCHANGED <<opencode, locks, memory, summarized, capture, chat, comp, server,
                 ledger, context>>

\* OpenCode restarts: sessions, their contexts and the switches stay.
Restart ==
  /\ Count("restart")
  /\ since' = said
  /\ mainSession' = None /\ cachedAgent' = StaticAgent
  /\ tracked' = Reset.none /\ processed' = Reset.none /\ known' = {}
  /\ injected' = {} /\ summarized' = {}
  /\ isCapturing' = FALSE /\ handle' = None /\ cap' = Reset.cap
  /\ chat' = Reset.chat /\ comp' = NoCapture
  /\ blocks' = [s \in Sessions |-> 0] /\ overlapped' = {} /\ barred' = {}
  /\ due' = {} /\ excused' = {}
  /\ resends' = [s \in Sessions |-> resends[s] + 1]
  /\ UNCHANGED <<said, agent, deleted, mains, autoStore, server>>

-----------------------------------------------------------------------------
(* chat.message: the first session locks the plugin to itself; the block   *)
(* of memories is prepended to the first message that is worth a search.   *)

Chatting(s) == {c \in Chats : chat[c].pc # "off" /\ chat[c].session = s}
Room(s) == said[s] + Cardinality(Chatting(s)) < MaxMessages[s]

Lock(s) ==
  /\ mainSession' = IF mainSession = None THEN s ELSE mainSession
  /\ mains' = mains \cup {mainSession'}
  /\ UNCHANGED cachedAgent

\* The tail of the hook: the message is tracked, then OpenCode stores it.
Said(s) ==
  /\ said' = [said EXCEPT ![s] = @ + 1]
  /\ tracked' = IF Policy[StaticAgent] = "none" THEN tracked
                ELSE [tracked EXCEPT ![s] = @ \cup {said[s] + 1}]
  /\ UNCHANGED <<since, agent, deleted, known, processed>>

\* A session that has its block, an agent without access, a trivial message.
ChatPlain(s, trivial) ==
  /\ s \notin deleted /\ Room(s)
  /\ \/ s \in injected
     \/ Policy[cachedAgent] = "none"
     \/ trivial
  /\ Lock(s) /\ Said(s)
  /\ IF Policy[cachedAgent] = "none"
     THEN injected' = injected \cup {s} /\ barred' = barred \cup ({s} \ injected)
     ELSE UNCHANGED <<injected, barred>>
  /\ UNCHANGED <<autoStore, summarized, capture, chat, comp, server, ledger, blocks,
                 overlapped, events>>

\* The four queries of buildMemoryInjection are under way.
ChatBegin(c, s) ==
  /\ s \notin deleted /\ Room(s) /\ chat[c].pc = "off"
  /\ s \notin injected /\ Policy[cachedAgent] # "none"
  /\ Lock(s)
  /\ chat' = [chat EXCEPT ![c] = [pc |-> "inject", session |-> s]]
  /\ overlapped' = IF Chatting(s) # {} \/ (comp.pc # "off" /\ comp.session = s)
                   THEN overlapped \cup {s} ELSE overlapped
  /\ UNCHANGED <<opencode, autoStore, memory, summarized, capture, comp, server,
                 ledger, injected, blocks, barred, events>>

\* What the queries returned has arrived; `flagged`: the session is marked.
InjectionArrives(c, content, flagged) ==
  LET s == chat[c].session IN
  /\ chat[c].pc = "inject"
  /\ Said(s)
  /\ injected' = IF flagged THEN injected \cup {s} ELSE injected
  /\ blocks' = [blocks EXCEPT ![s] = IF content THEN @ + 1 ELSE @]
  /\ chat' = [chat EXCEPT ![c] = NoChat]
  /\ UNCHANGED <<locks, autoStore, summarized, capture, comp, server, ledger, overlapped,
                 barred, events>>

\* Fault: the flag is forgotten.
InjectedUnmarked(c, content) == InjectionArrives(c, content, FALSE)

\* With content the block is prepended and the session flagged; without
\* (nothing stored, time-outs, an error) the next message tries again.
ChatInjected(c, content) == InjectionArrives(c, content, content)

-----------------------------------------------------------------------------
(* session.idle: ten seconds after the last idle event of the main         *)
(* session, its new messages are sent.                                     *)

\* The timer that idleTimeout refers to, if any, makes room for a new one.
Arm(s, t) ==
  /\ Active(s) /\ cap[t].pc = "off" /\ StoreEnabled(s)
  /\ cap' = [u \in Timers |->
               IF u = t THEN [NoCapture EXCEPT !.pc = "pending", !.session = s]
               ELSE IF u = handle THEN NoCapture ELSE cap[u]]
  /\ handle' = t
  /\ due' = {k \in Numbers : since[s] < k /\ k <= said[s]} /\ excused' = {}
  /\ UNCHANGED <<opencode, locks, autoStore, memory, summarized, isCapturing, chat, comp,
                 server, resends, context, events>>

\* Fault: an idle event of any session counts.
IdleOfAny(s, t) == Arm(s, t)

\* The switch and the session are looked at now, and not when the timer fires.
Idle(s, t) == ~OtherThanMain(s) /\ Arm(s, t)

\* Fault: the flag is not looked at.
FireUnguarded(t) ==
  /\ cap[t].pc = "pending"
  /\ handle' = IF handle = t THEN None ELSE handle
  /\ isCapturing' = TRUE /\ cap' = [cap EXCEPT ![t].pc = "messages"]
  /\ UNCHANGED <<opencode, locks, autoStore, memory, summarized, chat, comp, server,
                 due, excused, resends, context, events>>

\* A timer that fires during a capture is dropped, not rearmed.
Fire(t) ==
  /\ cap[t].pc = "pending"
  /\ handle' = IF handle = t THEN None ELSE handle
  /\ \/ /\ ~isCapturing
        /\ isCapturing' = TRUE /\ cap' = [cap EXCEPT ![t].pc = "messages"]
        /\ UNCHANGED excused
     \/ /\ isCapturing
        /\ cap' = [cap EXCEPT ![t] = NoCapture]
        /\ excused' = due
        /\ UNCHANGED isCapturing
  /\ UNCHANGED <<opencode, locks, autoStore, memory, summarized, chat, comp, server,
                 due, resends, context, events>>

\* `finally`: idleTimeout is cleared, even if it refers to a newer timer.
CaptureDone(t) ==
  /\ isCapturing' = FALSE /\ handle' = None
  /\ cap' = [cap EXCEPT ![t] = NoCapture]

\* The messages that a capture of s sends.
NewMessages(s) ==
  {k \in 1 .. said[s] : k \notin processed[s] /\ (Stamped => k > since[s])}

\* The transcript is there: nothing new or too little ends the capture.
Fetched(t) ==
  LET s == cap[t].session IN
  /\ cap[t].pc = "messages"
  /\ known' = known \cup {s}
  /\ \/ /\ NewMessages(s) = {} \/ (Threshold > 1 /\ Cardinality(NewMessages(s)) < Threshold)
        /\ CaptureDone(t)
        /\ excused' = excused \cup NewMessages(s)
     \/ /\ NewMessages(s) # {} /\ ~(Threshold > 1 /\ Cardinality(NewMessages(s)) < Threshold)
        /\ cap' = [cap EXCEPT ![t].pc = "session", ![t].batch = NewMessages(s)]
        /\ UNCHANGED <<isCapturing, handle, excused>>
  /\ UNCHANGED <<opencode, locks, autoStore, tracked, processed, summarized, chat, comp,
                 server, due, resends, context, events>>

\* OpenCode does not return the transcript.
FetchFailed(t) ==
  /\ Count("fault") /\ cap[t].pc = "messages"
  /\ CaptureDone(t)
  /\ excused' = due
  /\ UNCHANGED <<opencode, locks, autoStore, memory, summarized, chat, comp, server,
                 due, resends, context>>

\* session.get names the agent, or fails (the static agent); its policy decides.
AgentResolved(t, answered) ==
  LET a == IF answered THEN agent[cap[t].session] ELSE StaticAgent IN
  /\ cap[t].pc = "session"
  /\ cachedAgent' = IF answered THEN a ELSE cachedAgent
  /\ \/ /\ Policy[a] = "readwrite"
        /\ cap' = [cap EXCEPT ![t].pc = "post"]
        /\ UNCHANGED <<isCapturing, handle, excused>>
     \/ /\ Policy[a] # "readwrite"
        /\ CaptureDone(t)
        /\ excused' = excused \cup cap[t].batch
  /\ UNCHANGED <<opencode, mainSession, mains, autoStore, memory, summarized, chat, comp,
                 server, due, resends, context, events>>

\* session-ingest: the request may be lost, or its answer.  A compaction may
\* have removed the entry of processedMessageIds meanwhile: then the line that
\* marks the messages throws, and the capture counts as failed.
Ingest(t, reached, answered, marked) ==
  LET s == cap[t].session IN
  /\ cap[t].pc = "post"
  /\ answered => reached
  /\ captured' = IF reached THEN [captured EXCEPT ![s] = Bump(@, cap[t].batch)] ELSE captured
  /\ IF answered THEN UNCHANGED events ELSE Count("fault")
  /\ processed' = IF marked /\ s \in known
                  THEN [processed EXCEPT ![s] = @ \cup cap[t].batch] ELSE processed
  /\ excused' = IF reached THEN excused ELSE excused \cup cap[t].batch
  /\ resends' = IF reached /\ ~answered THEN [resends EXCEPT ![s] = @ + 1] ELSE resends
  /\ CaptureDone(t)
  /\ UNCHANGED <<opencode, locks, autoStore, tracked, known, summarized, chat, comp,
                 archived, stored, due, context>>

\* Fault: the messages are marked whatever the answer was.
IngestMarked(t, reached, answered) == Ingest(t, reached, answered, TRUE)

\* The messages are marked after the answer.
Ingested(t, reached, answered) == Ingest(t, reached, answered, answered)

-----------------------------------------------------------------------------
(* Compaction: OpenCode replaces the context by a summary; the hook sends  *)
(* the tracked messages and lets the next message inject again.            *)

CompactBegin(s) ==
  /\ Count("compact") /\ comp.pc = "off" /\ Active(s)
  /\ comp' = [NoCapture EXCEPT !.pc = "search", !.session = s]
  /\ blocks' = [blocks EXCEPT ![s] = 0]
  /\ overlapped' = IF Chatting(s) # {} THEN overlapped \cup {s} ELSE overlapped \ {s}
  /\ UNCHANGED <<opencode, locks, autoStore, memory, summarized, capture, chat, server,
                 ledger, injected, barred>>

\* Fault: the flag survives the compaction.
ForgetAllButFlag(s) ==
  /\ tracked' = [tracked EXCEPT ![s] = {}]
  /\ known' = known \ {s} /\ processed' = [processed EXCEPT ![s] = {}]
  /\ resends' = [resends EXCEPT ![s] = @ + 1]
  /\ comp' = [comp EXCEPT !.pc = "summary", !.batch = {}]
  /\ UNCHANGED <<injected, barred>>

\* What the hook leaves behind when it runs to its end.
Forget(s) ==
  /\ tracked' = [tracked EXCEPT ![s] = {}]
  /\ known' = known \ {s} /\ processed' = [processed EXCEPT ![s] = {}]
  /\ injected' = injected \ {s} /\ barred' = barred \ {s}
  /\ resends' = [resends EXCEPT ![s] = @ + 1]
  /\ comp' = [comp EXCEPT !.pc = "summary", !.batch = {}]

\* After the search: a session that is not the main one, or an agent that may
\* not write, ends the hook early, with the injection flag as it was.
CompactGates ==
  LET s == comp.session IN
  /\ comp.pc = "search"
  /\ \/ /\ OtherThanMain(s)
        /\ comp' = [comp EXCEPT !.pc = "summary"]
        /\ UNCHANGED tracked
     \/ /\ ~OtherThanMain(s) /\ Policy[StaticAgent] # "readwrite"
        /\ tracked' = [tracked EXCEPT ![s] = {}]
        /\ comp' = [comp EXCEPT !.pc = "summary"]
     \/ /\ ~OtherThanMain(s) /\ Policy[StaticAgent] = "readwrite"
        /\ comp' = [comp EXCEPT !.pc = "session"]
        /\ UNCHANGED tracked
  /\ UNCHANGED <<opencode, locks, autoStore, known, processed, summarized, capture, chat,
                 server, ledger, context, events>>

\* After session.get: the tracked messages are sent, unless the switch is off.
CompactSend ==
  LET s == comp.session IN
  /\ comp.pc = "session"
  /\ \/ /\ tracked[s] # {} /\ StoreEnabled(s)
        /\ comp' = [comp EXCEPT !.pc = "post", !.batch = tracked[s]]
        /\ UNCHANGED <<memory, injected, barred, resends>>
     \/ /\ tracked[s] = {} \/ ~StoreEnabled(s)
        /\ Forget(s)
  /\ UNCHANGED <<opencode, locks, autoStore, summarized, capture, chat, server, due,
                 excused, blocks, overlapped, events>>

\* The answer, or the failure: the tracked messages are dropped either way,
\* also those that were said while the request was under way.
CompactSent(reached) ==
  /\ comp.pc = "post"
  /\ IF reached THEN UNCHANGED events ELSE Count("fault")
  /\ archived' = IF reached
                 THEN [archived EXCEPT ![comp.session] = Bump(@, comp.batch)] ELSE archived
  /\ Forget(comp.session)
  /\ UNCHANGED <<opencode, locks, autoStore, summarized, capture, chat, captured,
                 stored, due, excused, blocks, overlapped>>

-----------------------------------------------------------------------------
(* Summaries: the first finished reply of a session that is seen, and the  *)
(* message with which OpenCode continues after a compaction.  Their gates  *)
(* come before their awaits, and nothing is looked at after them.          *)

\* The transcript may hold no text of thirty characters to store, and the
\* request may be lost.
Store(via, s, gates, found, reached) ==
  /\ stored' = IF gates /\ found /\ reached
               THEN [stored EXCEPT ![via] = @ \cup {s}]
               ELSE stored
  /\ IF gates /\ found /\ ~reached THEN Count("fault") ELSE UNCHANGED events

SummaryGates(s) ==
  ~OtherThanMain(s) /\ Policy[StaticAgent] = "readwrite" /\ StoreEnabled(s)

\* An assistant's message is finished (message.updated): handleSummaryCapture
\* marks the session before it looks at any gate.
Reply(s, found, reached) ==
  /\ Active(s) /\ Room(s)
  /\ said' = [said EXCEPT ![s] = @ + 1]
  /\ summarized' = summarized \cup {s}
  /\ Store("summary", s, s \notin summarized /\ SummaryGates(s), found, reached)
  /\ UNCHANGED <<since, agent, deleted, locks, autoStore, memory, capture, chat, comp,
                 captured, archived, ledger, context>>

\* OpenCode has written its summary and continues: autocontinueHook asks for
\* the policy and the switch, and not whether the session is the main one.
Autocontinue(found, reached) ==
  LET s == comp.session IN
  /\ comp.pc = "summary"
  /\ comp' = NoCapture
  /\ Store("autocontinue", s, Policy[StaticAgent] = "readwrite" /\ StoreEnabled(s), found, reached)
  /\ UNCHANGED <<opencode, locks, autoStore, memory, summarized, capture, chat,
                 captured, archived, ledger, context>>

\* session.deleted: processedMessageIds, injectedSessions and the lock stay.
Deleted(s) ==
  /\ s \notin deleted /\ said[s] > 0 /\ Chatting(s) = {}
  /\ ~(comp.pc # "off" /\ comp.session = s)
  /\ deleted' = deleted \cup {s}
  /\ summarized' = summarized \ {s}
  /\ tracked' = [tracked EXCEPT ![s] = {}]
  /\ UNCHANGED <<said, since, agent, locks, autoStore, known, processed, capture, chat, comp,
                 server, ledger, context, events>>

-----------------------------------------------------------------------------
Next ==
  \/ \E s \in Sessions : \E a \in Agents : SwitchAgent(s, a)
  \/ Toggle \/ Restart
  \/ \E s \in Sessions, b \in BOOLEAN : ChatPlain(s, b)
  \/ \E s \in Sessions, c \in Chats : ChatBegin(c, s)
  \/ \E c \in Chats, b \in BOOLEAN : ChatInjected(c, b)
  \/ \E s \in Sessions, t \in Timers : Idle(s, t)
  \/ \E t \in Timers : Fire(t) \/ Fetched(t) \/ FetchFailed(t)
  \/ \E t \in Timers, b \in BOOLEAN : AgentResolved(t, b)
  \/ \E t \in Timers, r \in BOOLEAN, b \in BOOLEAN : Ingested(t, r, b)
  \/ \E s \in Sessions : CompactBegin(s) \/ Deleted(s)
  \/ CompactGates \/ CompactSend
  \/ \E b \in BOOLEAN : CompactSent(b)
  \/ \E f \in BOOLEAN, b \in BOOLEAN :
       Autocontinue(f, b) \/ \E s \in Sessions : Reply(s, f, b)

Spec == Init /\ [][Next]_vars

-----------------------------------------------------------------------------
(* Properties.                                                             *)

\* A message is sent to session-ingest again only after something removed the
\* record that it was sent: an answer that never came, a compaction of its
\* session, or a restart.  Several idle timers may be pending at once.
ResendBounded ==
  \A s \in Sessions, k \in Numbers : captured[s][k] <= 1 + resends[s]

\* When no timer is pending and no capture runs, every message that the last
\* idle event asked for is at the server, or the capture was given up where
\* the code says so: a capture under way, too few messages, the policy, an
\* error.  A failed capture is made up for by the next.
QuietMeansCaptured ==
  (\A t \in Timers : cap[t].pc = "off") =>
    \A k \in due \ excused : captured[mainSession][k] > 0

\* Only the main session is captured, archived or summarised.  (What
\* autocontinueHook stores is not covered: it has no such gate.)
OnlyMainStored ==
  \A s \in Sessions \ mains :
    /\ \A k \in Numbers : captured[s][k] = 0 /\ archived[s][k] = 0
    /\ s \notin stored["summary"]

\* A context holds the block of memories at most once, unless a chat hook
\* overlapped a second one or a compaction of the session.
OneBlock == \A s \in Sessions \ overlapped : blocks[s] <= 1

\* In the main session the flag that stops further injections stands for a
\* block that is still in the context, or was set for an agent without access
\* (and outlives a switch to another one): if agents may write by default, a
\* compaction takes both away.
FlagMeansBlock ==
  \A s \in injected \cap {mainSession} :
    \/ blocks[s] > 0
    \/ comp.pc # "off" /\ comp.session = s
    \/ s \in overlapped
    \/ s \in barred \/ Policy[StaticAgent] # "readwrite"

\* The plugin's maps stay of their types, and what they say of an injection is
\* what the conversation shows (hooks.ts:371-460, 545-667).
InjectionHonest == TypeOK /\ OneBlock /\ FlagMeansBlock
=============================================================================
