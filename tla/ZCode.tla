-------------------------------- MODULE ZCode --------------------------------
(***************************************************************************)
(* The Stop hook of the ZCode plugin (plugins/zcode/hooks/stop.js): after  *)
(* every turn it reads the rollout, in which each turn leaves a snapshot   *)
(* of the whole conversation, and archives what is new.  How far it got is *)
(* a file of its own: the turns it has processed and the length of the     *)
(* conversation it archived last.                                          *)
(*                                                                         *)
(* ZCode runs the hook once after a turn, and shortens a conversation when *)
(* it compacts it: the hook is not told.                                   *)
(***************************************************************************)
EXTENDS Naturals, Sequences, SequencesExt

CONSTANTS
  ZSessions,
  Fragments,        \* messages of less than 100 characters
  CaptureThreshold, \* ingest.autoCaptureThreshold
  Growth,           \* bound: messages that a turn may add
  MaxTalk,          \* bound: messages of a session
  MaxCompactions,   \* bound: compactions of a session
  MaxToggles,       \* bound: uses of memory_toggle
  MaxLosses         \* bound: lost requests and lost answers

ASSUME ZCodeAssumption == Growth \in Nat /\ MaxTalk \in Nat

NoSessionId == "default"   \* memory_toggle's session when it is given none
TalkBound == 1 .. MaxTalk

VARIABLES
  talk,         \* talk[s]: the conversation, a sequence of messages
  written,      \* written[s]: messages of s so far, summaries included
  rollout,      \* rollout[s]: the snapshots, one for each turn
  turnIds,      \* turnIds[s]: turns in processed-turns-<s>.json
  lastMsgCount, \* lastMsgCount[s]: the length in that file
  switchedOff,  \* sessions whose autostore-<s>.json says no
  stop,         \* stop[s]: the hook of s, due after a turn or awaiting its request
  zgot,         \* zgot[s][m]: requests the server has with message m
  compactions, unheard, toggles, losses   \* counters; unheard[s]: lost answers

zarchive == <<turnIds, lastMsgCount>>
zvars == <<talk, written, rollout, zarchive, switchedOff, stop, zgot,
           compactions, unheard, toggles, losses>>

Idling == [pc |-> "off", turns |-> {}, upto |-> 0, batch |-> {}]

ZInit ==
  /\ talk = [s \in ZSessions |-> <<>>] /\ written = [s \in ZSessions |-> 0]
  /\ rollout = talk
  /\ turnIds = [s \in ZSessions |-> {}] /\ lastMsgCount = written
  /\ switchedOff = {}
  /\ stop = [s \in ZSessions |-> Idling]
  /\ zgot = [s \in ZSessions |-> [m \in TalkBound |-> 0]]
  /\ compactions = written /\ unheard = written /\ toggles = 0 /\ losses = 0

-----------------------------------------------------------------------------
(* ZCode and its user.                                                     *)

Turn(s, n) ==
  /\ stop[s].pc = "off" /\ written[s] + n <= MaxTalk
  /\ stop' = [stop EXCEPT ![s].pc = "due"]
  /\ written' = [written EXCEPT ![s] = @ + n]
  /\ talk' = [talk EXCEPT ![s] = @ \o [i \in 1 .. n |-> written[s] + i]]
  /\ rollout' = [rollout EXCEPT ![s] = Append(@, talk'[s])]
  /\ UNCHANGED <<zarchive, switchedOff, zgot, compactions, unheard, toggles, losses>>

\* A summary and the last message are what is left.
CompactTalk(s) ==
  /\ stop[s].pc = "off" /\ Len(talk[s]) > 2 /\ written[s] < MaxTalk
  /\ compactions[s] < MaxCompactions
  /\ compactions' = [compactions EXCEPT ![s] = @ + 1]
  /\ written' = [written EXCEPT ![s] = @ + 1]
  /\ talk' = [talk EXCEPT ![s] = <<written[s] + 1, Last(@)>>]
  /\ UNCHANGED <<rollout, zarchive, switchedOff, stop, zgot, unheard, toggles, losses>>

\* The tool of the MCP server writes the file of the session it is given, and
\* of none that exists if it is given none.
MemoryToggle(s, on) ==
  /\ toggles < MaxToggles /\ toggles' = toggles + 1
  /\ switchedOff' = IF on THEN switchedOff \ {s} ELSE switchedOff \cup {s}
  /\ UNCHANGED <<talk, written, rollout, zarchive, stop, zgot, compactions, unheard, losses>>

-----------------------------------------------------------------------------
(* The hook.                                                               *)

NewTurns(s) == (1 .. Len(rollout[s])) \ turnIds[s]
Latest(s)   == rollout[s][Len(rollout[s])]

\* Fault: the conversation is always sent from its start.
WholeTalk(s) == Latest(s)

\* What follows the part that was archived; all of it if it got shorter.
Delta(s) ==
  IF Len(Latest(s)) <= lastMsgCount[s] THEN Latest(s)
  ELSE SubSeq(Latest(s), lastMsgCount[s] + 1, Len(Latest(s)))

\* getAutoStore: on, unless the session's file says no.
AutoStore(s) == s \notin switchedOff

\* What is left of messages: the others are fragments once their text is
\* cleaned of injections, thinking and long results.
Cleaned(ms) == ms \ Fragments

\* Returns before the request: the switch, nothing new, a short conversation,
\* whose messages are left for a later turn.
Ready(s) ==
  /\ AutoStore(s) /\ NewTurns(s) # {}
  /\ Len(Latest(s)) >= CaptureThreshold

StopReturns(s) ==
  /\ stop[s].pc = "due" /\ ~Ready(s)
  /\ stop' = [stop EXCEPT ![s] = Idling]
  /\ UNCHANGED <<talk, written, rollout, zarchive, switchedOff, zgot, compactions, unheard,
                 toggles, losses>>

\* What a hook that read `turns` and `upto` messages of the last one saves.
SaveState(s, turns, upto) ==
  /\ turnIds' = [turnIds EXCEPT ![s] = @ \cup turns]
  /\ lastMsgCount' = [lastMsgCount EXCEPT ![s] = upto]

StopFragments(s) ==
  /\ stop[s].pc = "due" /\ Ready(s) /\ Cleaned(ToSet(Delta(s))) = {}
  /\ SaveState(s, NewTurns(s), Len(Latest(s)))
  /\ stop' = [stop EXCEPT ![s] = Idling]
  /\ UNCHANGED <<talk, written, rollout, switchedOff, zgot, compactions, unheard,
                 toggles, losses>>

StopRead(s) ==
  /\ stop[s].pc = "due" /\ Ready(s) /\ Cleaned(ToSet(Delta(s))) # {}
  /\ stop' = [stop EXCEPT ![s] = [pc |-> "post", turns |-> NewTurns(s),
                upto |-> Len(Latest(s)), batch |-> Cleaned(ToSet(Delta(s)))]]
  /\ UNCHANGED <<talk, written, rollout, zarchive, switchedOff, zgot, compactions, unheard,
                 toggles, losses>>

\* Fault: the state advances whatever came of the request.
SaveAnyway(s, ok) == SaveState(s, stop[s].turns, stop[s].upto)

Saved(s, ok) ==
  IF ok THEN SaveState(s, stop[s].turns, stop[s].upto) ELSE UNCHANGED zarchive

\* The request and its answer; the state advances after a 2xx only.
StopPost(s, reached, ok) ==
  /\ stop[s].pc = "post" /\ (ok => reached)
  /\ IF ok THEN UNCHANGED losses ELSE losses < MaxLosses /\ losses' = losses + 1
  /\ zgot' = IF reached THEN [zgot EXCEPT ![s] = [m \in TalkBound |->
                               IF m \in stop[s].batch THEN @[m] + 1 ELSE @[m]]] ELSE zgot
  /\ unheard' = IF reached /\ ~ok THEN [unheard EXCEPT ![s] = @ + 1] ELSE unheard
  /\ Saved(s, ok)
  /\ stop' = [stop EXCEPT ![s] = Idling]
  /\ UNCHANGED <<talk, written, rollout, switchedOff, compactions, toggles>>

ZNext ==
  \/ \E s \in ZSessions : \E n \in 1 .. Growth : Turn(s, n)
  \/ \E s \in ZSessions :
       CompactTalk(s) \/ StopReturns(s) \/ StopFragments(s) \/ StopRead(s)
       \/ \E r \in BOOLEAN, ok \in BOOLEAN : StopPost(s, r, ok)
  \/ \E s \in ZSessions \cup {NoSessionId}, on \in BOOLEAN : MemoryToggle(s, on)

ZSpec == ZInit /\ [][ZNext]_zvars

-----------------------------------------------------------------------------
(* Properties.                                                             *)

Missing(s) == Cleaned({m \in TalkBound : zgot[s][m] = 0})

\* A turn that the hook recorded as processed is at the server with all its
\* messages, however many requests failed, as long as the session was never
\* compacted.
ProcessedIsArchived ==
  \A s \in ZSessions : compactions[s] = 0 =>
    \A t \in turnIds[s] : ToSet(rollout[s][t]) \cap Missing(s) = {}

\* A message is sent again only after a compaction or a lost answer.
SentAgainNeedsCause ==
  \A s \in ZSessions, m \in TalkBound : zgot[s][m] <= 1 + compactions[s] + unheard[s]

\* stop.js:14 promises "2xx advances state; failure keeps state for retry
\* (at-least-once)": whatever turn is recorded as processed was archived.
AtLeastOnce ==
  \A s \in ZSessions : \A t \in turnIds[s] : ToSet(rollout[s][t]) \cap Missing(s) = {}
=============================================================================
