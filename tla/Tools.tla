--------------------------------- MODULE Tools ---------------------------------
(***************************************************************************)
(* The tools an agent calls, of the four plugins that offer them: the MCP  *)
(* server (plugins/mcp), OpenClaw, opencode and ZCode.  Each makes a       *)
(* request of a call and tells the agent in a sentence what came of it.    *)
(* Several calls are in flight at once; a request may be cut off before or *)
(* after the server served it, and times out at the latest.                *)
(***************************************************************************)
EXTENDS Naturals, Sequences, FiniteSets, SequencesExt

CONSTANTS
  Agents,         \* names of agents, sequences of letters
  StaticAgent,    \* the name before any other is known
  Policies,       \* agentMemoryPolicy, a sequence of [name, policy]
  DefaultPolicy,
  MaxToolCalls    \* bound: calls of a run; after them no agent changes

ASSUME ToolsAssumption ==
  /\ StaticAgent \in Agents
  /\ \A i \in DOMAIN Policies : Policies[i].policy \in {"none", "readonly", "readwrite"}

Reads == {"search", "get", "list", "profile", "stats", "spaces"}
Writes == {"store", "ingest", "update", "delete", "create", "add", "share", "pull", "reshare"}
ToolNames == Reads \cup Writes

VARIABLES
  surface,          \* "mcp", "openclaw", "opencode" or "zcode"
  disabled,         \* mcp: STORE_DISABLED
  there,            \* server: which of "memory", "copy" and "space" there are
  agentName,        \* opencode: the agent that talks
  cachedAgentName,  \* opencode: the agent of the last capture
  stdin,            \* zcode: "open" or "closed"
  pending,          \* calls under way; got is "" before the server served one
  applied,          \* server: numbers of the calls it changed something for
  accepted,         \* server: numbers of the ingests whose messages it took
  extracting,       \* server: those of them it has yet to extract memories from
  stores,           \* server: number of memories the tool memory_store made
  adrift,           \* calls given up before the server served them
  answers,          \* the answered calls, with what was said and whether
                    \* the answer of the server was lost
  excusedStores     \* stores the agent could not know of

ingests == <<accepted, extracting>>
tvars == <<surface, disabled, there, agentName, cachedAgentName, stdin, pending, adrift, applied, ingests, stores, answers,
           excusedStores>>

TInit ==
  /\ surface \in {"mcp", "openclaw", "opencode", "zcode"}
  /\ disabled \in BOOLEAN /\ (disabled => surface = "mcp")
  /\ there \in SUBSET {"memory", "copy", "space"}
  /\ agentName \in Agents /\ (surface # "opencode" => agentName = StaticAgent)
  /\ cachedAgentName = StaticAgent /\ stdin = "open"
  /\ accepted = {} /\ extracting = {}
  /\ pending = {} /\ adrift = {} /\ applied = {} /\ stores = 0 /\ answers = {} /\ excusedStores = 0

-----------------------------------------------------------------------------
(* What each tool says of what its request brought: "value", "empty" (a     *)
(* list of none), "null" or "error".                                        *)

\* The clients of the four: OpenClaw's knows no errors.
\* Fault: neither do the others.
Swallowed(got) == IF got = "error" THEN "null" ELSE got
Thrown(got) == got
Received(got) == IF surface = "openclaw" THEN Swallowed(got) ELSE Thrown(got)

Listed0(got) == IF got = "value" THEN "shown" ELSE "nothing"
Unless(failure, said) == IF failure THEN "failed" ELSE said

McpStoring(got) == Unless(got # "value", "done")
McpSearching(got) == Unless(got = "error", Listed0(got))
McpOne(t, got) ==
  CASE t = "delete" -> Unless(got = "error", "done")
    [] t = "get"    -> Unless(got = "error", IF got = "null" THEN "nothing" ELSE "shown")
    [] t = "update" -> Unless(got # "value", "done")
McpReading(t, got) == Unless(got = "error", IF t = "list" THEN Listed0(got) ELSE "shown")
McpIngesting(t, got) == Unless(got = "error", IF t = "ingest" THEN "done" ELSE "shown")
McpSpaces(t, got) == IF t = "spaces" THEN Unless(got = "error", Listed0(got)) ELSE Unless(got # "value", "done")
McpShares(got) == Unless(got # "value", "done")
Mcp(t, got) ==
  CASE t = "store"                          -> McpStoring(got)
    [] t = "search"                         -> McpSearching(got)
    [] t \in {"delete", "get", "update"}    -> McpOne(t, got)
    [] t \in {"profile", "list"}            -> McpReading(t, got)
    [] t \in {"ingest", "stats"}            -> McpIngesting(t, got)
    [] t \in {"create", "spaces", "add"}    -> McpSpaces(t, got)
    [] t \in {"share", "pull", "reshare"}   -> McpShares(got)

ClawStoring(got) == Unless(got # "value", "done")
ClawReading(t, got) == IF t = "search" THEN Listed0(got) ELSE Unless(got # "value", "shown")
ClawChanging(t, got) == IF t = "delete" THEN "done" ELSE Unless(got # "value", "done")
ClawSpaces(t, got) == IF t = "spaces" THEN Listed0(got) ELSE Unless(got # "value", "done")
ClawShares(got) == Unless(got # "value", "done")
Claw(t, got) ==
  CASE t = "store"                          -> ClawStoring(got)
    [] t \in {"search", "get"}              -> ClawReading(t, got)
    [] t \in {"update", "delete"}           -> ClawChanging(t, got)
    [] t \in {"create", "spaces", "add"}    -> ClawSpaces(t, got)
    [] t \in {"share", "pull", "reshare"}   -> ClawShares(got)

\* Fault: the answer is not looked at.
NoMatter(got) == "failed"
OcStoring(got) == Unless(got # "value", "done")
OcReading(t, got) == IF t = "search" THEN Unless(got = "error", Listed0(got)) ELSE Unless(got # "value", "shown")
OcListing(t, got) == Unless(got = "error", IF t = "list" THEN Listed0(got) ELSE "shown")
OcUpdating(got) == Unless(got # "value", "done")
OcIngesting(got) == Unless(got # "value", "done")
OcStats(got) == Unless(got # "value", "shown")
OcDeleting(got) == Unless(got = "error", "done")
OcSpaces(t, got) == IF t = "spaces" THEN Unless(got = "error", Listed0(got)) ELSE Unless(got # "value", "done")
OcShares(got) == Unless(got # "value", "done")
Oc(t, got) ==
  CASE t = "store"                          -> OcStoring(got)
    [] t \in {"search", "get"}              -> OcReading(t, got)
    [] t \in {"profile", "list"}            -> OcListing(t, got)
    [] t = "update"                         -> OcUpdating(got)
    [] t = "ingest"                         -> OcIngesting(got)
    [] t = "stats"                          -> OcStats(got)
    [] t = "delete"                         -> OcDeleting(got)
    [] t \in {"create", "spaces", "add"}    -> OcSpaces(t, got)
    [] t \in {"share", "pull", "reshare"}   -> OcShares(got)

ZStoring(got) == Unless(got # "value", "done")
ZSearching(got) == Unless(got = "error", Listed0(got))
ZOne(t, got) == Unless(got = "error", IF t # "get" THEN "done" ELSE IF got = "null" THEN "nothing" ELSE "shown")
ZReading(t, got) == Unless(got = "error", IF t = "list" THEN Listed0(got) ELSE "shown")
ZIngesting(t, got) == Unless(got = "error", IF t = "ingest" THEN "done" ELSE "shown")
ZSpaces(t, got) == Unless(got = "error", IF t = "spaces" THEN Listed0(got) ELSE "done")
ZShares(got) == Unless(got = "error", "done")
Z(t, got) ==
  CASE t = "store"                          -> ZStoring(got)
    [] t = "search"                         -> ZSearching(got)
    [] t \in {"get", "update", "delete"}    -> ZOne(t, got)
    [] t \in {"list", "profile"}            -> ZReading(t, got)
    [] t \in {"ingest", "stats"}            -> ZIngesting(t, got)
    [] t \in {"create", "spaces", "add"}    -> ZSpaces(t, got)
    [] t \in {"share", "pull", "reshare"}   -> ZShares(got)

Said(t, got) ==
  CASE surface = "mcp"      -> Mcp(t, Received(got))
    [] surface = "openclaw" -> Claw(t, Received(got))
    [] surface = "opencode" -> Oc(t, Received(got))
    [] surface = "zcode"    -> Z(t, Received(got))

Offered == IF surface = "openclaw" THEN ToolNames \ {"ingest", "list", "profile", "stats"} ELSE ToolNames

-----------------------------------------------------------------------------
(* Policies of opencode *)

\* resolveAgentPolicy: the entry of the name, else the first whose name
\* begins the agent's or the other way round.
Policy(a) ==
  LET exact == {i \in DOMAIN Policies : Policies[i].name = a}
      close == {i \in DOMAIN Policies : IsPrefix(Policies[i].name, a) \/ IsPrefix(a, Policies[i].name)}
      fits == IF exact # {} THEN exact ELSE close
  IN  IF fits = {} THEN DefaultPolicy ELSE Policies[CHOOSE i \in fits : \A j \in fits : i <= j].policy

\* Fault: an agent that may read may write.
AllButNone(t) == Policy(cachedAgentName) # "none"
\* checkPermission, by the name that is cached; index.ts gives it a name and
\* a config at all times.
Permitted(t) ==
  \/ Policy(cachedAgentName) = "readwrite"
  \/ Policy(cachedAgentName) = "readonly" /\ t \in Reads

Called == Cardinality(pending) + Cardinality(answers)

\* The user talks to another agent; its name is learnt when a capture runs.
SwitchAgent(a) ==
  /\ surface = "opencode" /\ Called < MaxToolCalls /\ a # agentName /\ agentName' = a
  /\ UNCHANGED <<surface, disabled, ingests, there, cachedAgentName, stdin, pending, adrift, applied, stores, answers, excusedStores>>
AgentLearnt ==
  /\ surface = "opencode" /\ Called < MaxToolCalls /\ cachedAgentName # agentName /\ cachedAgentName' = agentName
  /\ UNCHANGED <<surface, disabled, ingests, there, agentName, stdin, pending, adrift, applied, stores, answers, excusedStores>>

-----------------------------------------------------------------------------
ToolCall(t, good) ==
  [n |-> Called + 1, tool |-> t, good |-> good, by |-> agentName, seen |-> cachedAgentName, got |-> "", said |-> "", lost |-> FALSE]
Reply(c, said, lost) == [c EXCEPT !.said = said, !.lost = lost]

\* An agent stores something again as long as it was not told that it is done.
Wanted(t) ==
  t = "store" => /\ \A c \in pending : c.tool # "store"
                 /\ \A r \in answers : r.tool = "store" => r.said \notin {"done", "switched off"}

\* What is answered without a request: opencode's policy, a memory_store that
\* is switched off, and bad arguments where they are looked at.
AtHand(t, good) ==
  CASE surface = "opencode" /\ ~Permitted(t)          -> "denied"
    [] surface = "mcp" /\ disabled /\ t = "store"     -> "switched off"
    [] surface # "openclaw" /\ ~good                  -> "refused"
    [] OTHER                                          -> ""

CallTool(t, good) ==
  LET c == ToolCall(t, good)
  IN  /\ stdin = "open" /\ Called < MaxToolCalls /\ t \in Offered /\ Wanted(t)
      /\ IF AtHand(t, good) = "" THEN pending' = pending \cup {c} /\ UNCHANGED answers
         ELSE answers' = answers \cup {Reply(c, AtHand(t, good), FALSE)} /\ UNCHANGED pending
      /\ UNCHANGED <<surface, disabled, ingests, there, agentName, cachedAgentName, stdin, adrift, applied, stores, excusedStores>>

\* What the clients' requests name, and the server has to find: a memory by
\* its id, or the space it is shared with or taken from, or a member's.
MemoryRequest(t) == IF t \in {"get", "update", "delete"} THEN {"memory"} ELSE {}
SpaceRequest(t) ==
  CASE t = "add"     -> {"space"}
    [] t = "share"   -> {"memory", "space"}
    [] t = "pull"    -> {"copy"}
    [] t = "reshare" -> {"copy"}
    [] OTHER         -> {}
Needs(t) == MemoryRequest(t) \cup SpaceRequest(t)
\* What a request leaves.  An ingest is accepted when its messages are in the
\* store of the sessions, and answered; memories are made of them later.
After(t) ==
  CASE t = "store"  -> there \cup {"memory"}
    [] t = "delete" -> there \ {"memory"}
    [] t = "share"  -> there \cup {"copy"}
    [] t = "create" -> there \cup {"space"}
    [] OTHER        -> there

ServeTool(c) ==
  LET ok == c.good /\ Needs(c.tool) \subseteq there
      got == IF ~ok THEN "error" ELSE IF c.tool \in {"search", "list"} /\ "memory" \notin there THEN "empty" ELSE "value"
      stored == ok /\ c.tool = "store"
  IN  /\ c.got = ""
      /\ pending' = IF c \in pending THEN (pending \ {c}) \cup {[c EXCEPT !.got = got]} ELSE pending
      /\ adrift' = adrift \ {c}
      /\ there' = IF ok THEN After(c.tool) ELSE there
      /\ applied' = IF ok /\ c.tool \in Writes \ {"ingest"} THEN applied \cup {c.n} ELSE applied
      /\ accepted' = IF ok /\ c.tool = "ingest" THEN accepted \cup {c.n} ELSE accepted
      /\ extracting' = extracting \cup (accepted' \ accepted)
      /\ stores' = IF stored THEN stores + 1 ELSE stores
      /\ excusedStores' = IF stored /\ c \in adrift THEN excusedStores + 1 ELSE excusedStores
      /\ UNCHANGED <<surface, disabled, agentName, cachedAgentName, stdin, answers>>

\* The spawned task of an ingest ends: there may be nothing to extract, or the
\* extraction or the reconciliation fails.
Extracted(n, found) ==
  /\ n \in extracting /\ extracting' = extracting \ {n}
  /\ there' = IF found THEN there \cup {"memory"} ELSE there
  /\ applied' = IF found THEN applied \cup {n} ELSE applied
  /\ UNCHANGED <<surface, disabled, agentName, cachedAgentName, stdin, pending, adrift, accepted, stores, answers, excusedStores>>

Answered(c) ==
  /\ c.got # "" /\ pending' = pending \ {c}
  /\ answers' = answers \cup {Reply(c, Said(c.tool, c.got), FALSE)}
  /\ UNCHANGED <<surface, disabled, ingests, there, agentName, cachedAgentName, stdin, adrift, applied, stores, excusedStores>>

\* The request is cut off; the server may serve it all the same.
CutOff(c) ==
  /\ pending' = pending \ {c}
  /\ adrift' = IF c.got = "" THEN adrift \cup {c} ELSE adrift
  /\ answers' = answers \cup {Reply(c, Said(c.tool, "error"), TRUE)}
  /\ excusedStores' = IF c.tool = "store" /\ c.got = "value" THEN excusedStores + 1 ELSE excusedStores
  /\ UNCHANGED <<surface, disabled, ingests, there, agentName, cachedAgentName, stdin, applied, stores>>

\* Fault: the requests have no timers.
NoTimer(c) == FALSE
\* The timer of the request is still to ring.
Timer(c) == c \in pending
TimesOut(c) == Timer(c) /\ CutOff(c)

\* ZCode's server exits with its calls when its input is closed.
CloseStdin ==
  /\ surface = "zcode" /\ stdin = "open" /\ stdin' = "closed" /\ pending' = {}
  /\ adrift' = adrift \cup {c \in pending : c.got = ""}
  /\ UNCHANGED <<surface, disabled, ingests, there, agentName, cachedAgentName, applied, stores, answers, excusedStores>>

TNext ==
  \/ \E t \in ToolNames, good \in BOOLEAN : CallTool(t, good)
  \/ \E a \in Agents : SwitchAgent(a)
  \/ AgentLearnt \/ CloseStdin
  \/ \E c \in pending : Answered(c) \/ CutOff(c)
  \/ \E c \in pending \cup adrift : ServeTool(c)
  \/ \E n \in extracting, found \in BOOLEAN : Extracted(n, found)

TSpec == TInit /\ [][TNext]_tvars

\* A timer that is set rings.
TFairness == \A n \in 1..MaxToolCalls : WF_tvars(\E c \in pending : c.n = n /\ TimesOut(c))

-----------------------------------------------------------------------------
Served(r) == r.n \in applied \cup accepted

\* What the agent is told is so: "done" only of a change that was made, or of
\* an ingest that was accepted (the exception is a deletion of OpenClaw, whose
\* client hides the failure), "failed" of one that was made or accepted only
\* when the answer was lost, and "nothing found" only when there was nothing
\* (again but for OpenClaw).
ToldTruly ==
  \A r \in answers :
    /\ r.said = "done" =>
         \/ r.n \in IF r.tool = "ingest" THEN accepted ELSE applied
         \/ surface = "openclaw" /\ r.tool = "delete"
    /\ r.said = "failed" /\ Served(r) => r.lost
    /\ r.said = "nothing" => r.got = "empty" \/ surface = "openclaw"

\* What an agent of opencode changed, or had accepted, its own policy allows,
\* unless the plugin took it for another at the time of the call.
PolicyKept ==
  \A c \in pending \cup answers :
    surface = "opencode" /\ Served(c) /\ c.by = c.seen => Policy(c.by) = "readwrite"

\* An agent that stores something until it is told that it is done makes no
\* second memory of it, but for the answers that it never got.
StoredOnceUnlessMisled == stores <= 1 + excusedStores

\* Every call is answered, unless ZCode closes its server's input.
EveryoneAnswered ==
  \A n \in 1..MaxToolCalls :
    (\E c \in pending : c.n = n) ~> (\E r \in answers : r.n = n) \/ stdin = "closed"
=============================================================================
