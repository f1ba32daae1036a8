------------------------------- MODULE OpenClaw --------------------------------
(***************************************************************************)
(* The hooks of the OpenClaw plugin: memories are put before the user's    *)
(* prompt, the end of a turn sends the last messages, a reset the last     *)
(* ones of the user.  Nothing remembers what was sent before.              *)
(***************************************************************************)
EXTENDS Naturals, Sequences, FiniteSets

CONSTANTS
  MaxCapture,     \* MAX_CAPTURE_MESSAGES
  CaptureBytes,   \* MAX_CAPTURE_BYTES
  ResetTexts,     \* how many texts before_reset sends
  ResetLength,    \* how much it sends of each
  TooShort,       \* a text that long is not sent at a reset
  BlockLength,    \* length of a block of memories
  Weights,        \* lengths of what is said in a message
  MaxSaid         \* bound: messages of a session

ASSUME OpenClawAssumption ==
  /\ {MaxCapture, ResetTexts} \subseteq Nat \ {0}
  /\ {CaptureBytes, ResetLength, TooShort, BlockLength, MaxSaid} \cup Weights \subseteq Nat

VARIABLES
  messages,   \* evt.messages: [id, role, own, block], the length of what was
              \* said and of the memories before it
  captured,   \* server: ids of the messages whose own words it got
  echoed,     \* server: ids of those whose memories it got as if they were said
  ended,      \* ids of the messages at the ends of turns that succeeded
  missed,     \* ids a capture did not reach, or whose request failed
  wiped       \* ids of the messages at resets
clvars == <<messages, captured, echoed, ended, missed, wiped>>

ClInit ==
  /\ messages = <<>> /\ captured = {} /\ echoed = {}
  /\ ended = {} /\ missed = {} /\ wiped = {}

\* The ids of the messages at some positions.
IdsAt(positions) == {messages[i].id : i \in positions}

Says(role, own, block) ==
  LET id == Cardinality(IdsAt(DOMAIN messages) \cup wiped) + 1
  IN  /\ id <= MaxSaid
      /\ messages' = Append(messages, [id |-> id, role |-> role, own |-> own, block |-> block])
      /\ UNCHANGED <<captured, echoed, ended, missed, wiped>>

-----------------------------------------------------------------------------
\* buildContextBlock: nothing for no memories.
Block(found) == IF found THEN BlockLength ELSE 0

\* before_prompt_build puts what the search found before the prompt; a search
\* that fails finds nothing.
Prompt(own, found) == own > 0 /\ Says("user", own, Block(found))

\* The agent answers or calls a tool, of which there is no text.
Work(own) == Says("assistant", own, 0)

-----------------------------------------------------------------------------
\* Fault: what the plugin added itself is left in.
AsItIs(m) == m
\* stripOmemContext
Stripped(m) == [m EXCEPT !.block = 0]

\* The positions of the last messages, at most MaxCapture of them.
Recent == {i \in DOMAIN messages : i + MaxCapture > Len(messages)}

\* One round of the loop over them: what is empty is passed over, the first is
\* sent whatever its weight, and the loop ends where the budget does.
Round(loop, i) ==
  LET size == Stripped(messages[i]).own + Stripped(messages[i]).block
  IN  IF i \notin Recent \/ size = 0 \/ loop.ended THEN loop
      ELSE IF loop.bytes + size > CaptureBytes /\ loop.sent # {} THEN [loop EXCEPT !.ended = TRUE]
      ELSE [loop EXCEPT !.sent = @ \cup {i}, !.bytes = @ + size]

\* The positions of the messages that agent_end sends, the older first as long
\* as the budget lasts.
Budgeted ==
  LET loop[i \in 0 .. Len(messages)] ==
        IF i = 0 THEN [sent |-> {}, bytes |-> 0, ended |-> FALSE] ELSE Round(loop[i - 1], i)
  IN  loop[Len(messages)].sent

\* What the last messages up to the i-th weigh in what was said.
Load(i) ==
  LET load[j \in 0 .. Len(messages)] ==
        IF j = 0 THEN 0
        ELSE load[j - 1] + (IF j + MaxCapture > Len(messages) THEN messages[j].own ELSE 0)
  IN  load[i]

\* The i-th message is one of the last, and these weigh no more than the
\* budget up to it.
Reached(i) == i + MaxCapture > Len(messages) /\ Load(i) <= CaptureBytes

\* agent_end of a turn that succeeded; of another it does nothing.
AgentEnd(arrives) ==
  LET sent == IF arrives THEN Budgeted ELSE {}
  IN  /\ messages # <<>> /\ Budgeted # {}
      /\ captured' = captured \cup IdsAt(sent)
      /\ echoed' = echoed \cup IdsAt({i \in sent : Stripped(messages[i]).block > 0})
      /\ ended' = ended \cup IdsAt({i \in DOMAIN messages : messages[i].own > 0})
      /\ missed' = missed \cup IdsAt({i \in DOMAIN messages : ~arrives \/ ~Reached(i)})
      /\ UNCHANGED <<messages, wiped>>

-----------------------------------------------------------------------------
\* What before_reset sends: the last of the user's texts that are long enough,
\* the memories before each one included, cut at ResetLength.
KeyTexts ==
  LET long == {i \in DOMAIN messages : /\ messages[i].role = "user"
                                        /\ messages[i].own + messages[i].block > TooShort}
  IN  {i \in long : Cardinality({j \in long : j > i}) < ResetTexts}

\* before_reset, and OpenClaw forgets the session.
BeforeReset(arrives) ==
  LET sent == IF arrives THEN KeyTexts ELSE {}
      whole == {i \in sent : messages[i].own + messages[i].block <= ResetLength}
  IN  /\ messages # <<>> /\ messages' = <<>>
      /\ captured' = captured \cup IdsAt(whole)
      /\ echoed' = echoed \cup IdsAt({i \in sent : messages[i].block > 0})
      /\ wiped' = wiped \cup IdsAt(DOMAIN messages)
      /\ UNCHANGED <<ended, missed>>

ClNext ==
  \/ \E own \in Weights, found \in BOOLEAN : Prompt(own, found)
  \/ \E own \in Weights : Work(own)
  \/ \E arrives \in BOOLEAN : AgentEnd(arrives) \/ BeforeReset(arrives)

ClSpec == ClInit /\ [][ClNext]_clvars

-----------------------------------------------------------------------------
\* What was said up to the end of a turn that succeeded is captured, but for
\* requests that failed, for what more than MaxCapture messages followed, and
\* for what the older ones of the last messages left no budget for.
CapturedUnlessCut == ended \subseteq captured \cup missed

\* Memories come back to the server as if they had been said only by a reset,
\* which does not strip them.
EchoOnlyByReset == echoed \subseteq wiped

\* What the hooks capture is all that was said, and not what they said themselves,
\* but for these causes.
CapturesHonest == CapturedUnlessCut /\ EchoOnlyByReset
=============================================================================
