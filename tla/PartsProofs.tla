------------------------------ MODULE PartsProofs ------------------------------
(***************************************************************************)
(* Proofs about parts of the system that share neither state nor names:    *)
(* the spaces and the reconciler of the server, and the parts of the       *)
(* plugins that live on the user's machine beside the hooks, for any       *)
(* number of sessions, windows, processes, files, calls and losses: the    *)
(* archive of turns of ZCode, the web server, the updater, the tools that  *)
(* an agent calls and the hooks of OpenClaw.                               *)
(***************************************************************************)
EXTENDS ZCode, WebServer, Updater, Tools, OpenClaw, Spaces, Reconciler, SequenceTheorems,
        FiniteSetTheorems, WellFoundedInduction, TLAPS

(***************************************************************************)
(* ZCode.  What a hook reads between two turns is what it sends, and what  *)
(* it may send follows the length it recorded, or was never counted since  *)
(* the last cause for sending it again.                                    *)
(***************************************************************************)

ZType ==
  /\ talk \in [ZSessions -> Seq(Nat)] /\ written \in [ZSessions -> 0 .. MaxTalk]
  /\ rollout \in [ZSessions -> Seq(Seq(Nat))]
  /\ turnIds \in [ZSessions -> SUBSET Nat] /\ lastMsgCount \in [ZSessions -> Nat]
  /\ stop \in [ZSessions -> [pc : {"off", "due", "post"}, turns : SUBSET Nat,
                             upto : Nat, batch : SUBSET Nat]]
  /\ zgot \in [ZSessions -> [TalkBound -> Nat]]
  /\ compactions \in [ZSessions -> Nat] /\ unheard \in [ZSessions -> Nat]

\* The messages of a conversation are written, and only those were sent.
Written(s) ==
  /\ \A i \in 1 .. Len(talk[s]) : talk[s][i] \in 1 .. written[s]
  /\ \A m \in TalkBound : m > written[s] => zgot[s][m] = 0

\* A hook runs between a turn and the next, on the conversation as it is; its
\* request carries what it would read again now.
CountedRead(s) ==
  /\ turnIds[s] \subseteq 1 .. Len(rollout[s])
  /\ stop[s].pc # "off" => Len(rollout[s]) > 0 /\ Latest(s) = talk[s]
  /\ stop[s].pc = "post" =>
       /\ stop[s].turns = NewTurns(s) /\ NewTurns(s) # {}
       /\ stop[s].upto = Len(talk[s]) /\ stop[s].batch = Cleaned(ToSet(Delta(s)))

\* Until its first compaction every snapshot of a session is a prefix of the
\* conversation, and the server has what lastMsgCount and the turns recorded
\* stand for.
Archived(s) ==
  compactions[s] = 0 =>
    /\ lastMsgCount[s] <= Len(talk[s])
    /\ \A t \in 1 .. Len(rollout[s]) :
         /\ Len(rollout[s][t]) <= Len(talk[s])
         /\ \A i \in 1 .. Len(rollout[s][t]) : rollout[s][t][i] = talk[s][i]
    /\ \A i \in 1 .. lastMsgCount[s] : talk[s][i] \notin Missing(s)
    /\ \A t \in turnIds[s] : Len(rollout[s][t]) <= lastMsgCount[s]

\* What may be sent without a new cause: all messages, or those that follow
\* lastMsgCount, and then a turn to be read is longer than that.
Unsent(s, m) == zgot[s][m] <= unheard[s] + compactions[s]
Counted(s) ==
  /\ \A m \in TalkBound : zgot[s][m] <= 1 + unheard[s] + compactions[s]
  /\ \/ \A m \in TalkBound : Unsent(s, m)
     \/ /\ lastMsgCount[s] <= Len(talk[s])
        /\ \A i \in lastMsgCount[s] + 1 .. Len(talk[s]) : Unsent(s, talk[s][i])
        /\ NewTurns(s) # {} => lastMsgCount[s] < Len(talk[s])

ZGood(s) == Written(s) /\ CountedRead(s) /\ Archived(s) /\ Counted(s)
ZIInv == ZType /\ \A s \in ZSessions : ZGood(s)

\* What a session has in the other states of a step that is not about it.
Untouched(s) ==
  /\ talk'[s] = talk[s] /\ written'[s] = written[s] /\ rollout'[s] = rollout[s]
  /\ turnIds'[s] = turnIds[s] /\ lastMsgCount'[s] = lastMsgCount[s] /\ stop'[s] = stop[s]
  /\ zgot'[s] = zgot[s] /\ compactions'[s] = compactions[s] /\ unheard'[s] = unheard[s]

\* Such a session keeps its part of the invariant.
LEMMA UntouchedGood ==
  ASSUME NEW s \in ZSessions, ZGood(s), Untouched(s)
  PROVE  ZGood(s)'
<1>1. Written(s)'  BY DEF ZGood, Untouched, Written
<1>2. CountedRead(s)'
  BY DEF ZGood, Untouched, CountedRead, NewTurns, Latest, Delta
<1>3. Archived(s)'
  BY DEF ZGood, Untouched, Archived, Missing, Cleaned
<1>4. Counted(s)'
  BY DEF ZGood, Untouched, Counted, Unsent, NewTurns
<1>5. QED  BY <1>1, <1>2, <1>3, <1>4 DEF ZGood

\* The elements of two sequences put together.
LEMMA Joined ==
  ASSUME NEW a \in Seq(Nat), NEW b \in Seq(Nat)
  PROVE  /\ a \o b \in Seq(Nat) /\ Len(a \o b) = Len(a) + Len(b)
         /\ \A i \in 1 .. Len(a) : (a \o b)[i] = a[i]
         /\ \A i \in Len(a) + 1 .. Len(a) + Len(b) : (a \o b)[i] = b[i - Len(a)]
BY ConcatProperties

\* The elements of the rest of a sequence.
LEMMA RestElements ==
  ASSUME NEW q \in Seq(Nat), NEW n \in Nat, n < Len(q), NEW m
  PROVE  m \in ToSet(SubSeq(q, n + 1, Len(q))) <=> \E i \in n + 1 .. Len(q) : m = q[i]
<1> DEFINE t == SubSeq(q, n + 1, Len(q))
<1>1. Len(q) \in Nat /\ DOMAIN q = 1 .. Len(q)
  OBVIOUS
<1>2. t \in Seq(Nat) /\ Len(t) = Len(q) - n /\ \A i \in 1 .. Len(q) - n : t[i] = q[n + i]
  <2>1. n + 1 \in Int /\ Len(q) \in Int /\ \A i \in n + 1 .. Len(q) : q[i] \in Nat
    BY <1>1
  <2>2. /\ t \in Seq(Nat)
        /\ Len(t) = IF n + 1 <= Len(q) THEN Len(q) - (n + 1) + 1 ELSE 0
        /\ \A i \in 1 .. Len(q) - (n + 1) + 1 : t[i] = q[(n + 1) + i - 1]
    BY <2>1, SubSeqProperties
  <2>3. Len(q) - (n + 1) + 1 = Len(q) - n /\ n + 1 <= Len(q)
    BY <1>1
  <2>4. \A i \in 1 .. Len(q) - n : (n + 1) + i - 1 = n + i
    BY <1>1
  <2> HIDE DEF t
  <2>5. t \in Seq(Nat) /\ Len(t) = Len(q) - n
    BY <2>2, <2>3
  <2>6. ASSUME NEW i \in 1 .. Len(q) - n  PROVE t[i] = q[n + i]
    BY <2>2, <2>3, <2>4
  <2> QED  BY <2>5, <2>6
<1> HIDE DEF t
<1>3. DOMAIN t = 1 .. Len(t)
  BY <1>2
<1>4. m \in ToSet(t) <=> \E i \in 1 .. Len(q) - n : m = q[n + i]
  BY <1>2, <1>3 DEF ToSet
<1>5. ASSUME NEW i \in 1 .. Len(q) - n, m = q[n + i]  PROVE \E j \in n + 1 .. Len(q) : m = q[j]
  <2>1. n + i \in n + 1 .. Len(q)  BY <1>1
  <2>2. QED  BY <1>5, <2>1
<1>6. ASSUME NEW i \in n + 1 .. Len(q), m = q[i]  PROVE \E j \in 1 .. Len(q) - n : m = q[n + j]
  <2>1. i - n \in 1 .. Len(q) - n /\ n + (i - n) = i  BY <1>1
  <2>2. QED  BY <1>6, <2>1
<1>7. QED  BY <1>4, <1>5, <1>6 DEF t

\* What a hook reads: all that follows lastMsgCount, and nothing else if the
\* conversation is longer than that.
LEMMA DeltaReads ==
  ASSUME ZType, NEW s \in ZSessions, Latest(s) = talk[s]
  PROVE  /\ \A m \in ToSet(Delta(s)) : \E i \in 1 .. Len(talk[s]) :
              m = talk[s][i] /\ (lastMsgCount[s] < Len(talk[s]) => i > lastMsgCount[s])
         /\ \A i \in 1 .. Len(talk[s]) : i > lastMsgCount[s] => talk[s][i] \in ToSet(Delta(s))
<1> DEFINE q == talk[s]
           n == lastMsgCount[s]
<1>1. q \in Seq(Nat) /\ n \in Nat /\ Len(q) \in Nat /\ DOMAIN q = 1 .. Len(q)
  BY DEF ZType
<1>2. CASE n < Len(q)
  <2>1. Delta(s) = SubSeq(q, n + 1, Len(q))
    <3>1. ~(Len(Latest(s)) <= lastMsgCount[s])  BY <1>1, <1>2
    <3>2. Delta(s) = SubSeq(Latest(s), lastMsgCount[s] + 1, Len(Latest(s)))
      BY ONLY <3>1 DEF Delta
    <3>3. QED  BY <3>2
  <2>2. \A m : m \in ToSet(Delta(s)) <=> \E i \in n + 1 .. Len(q) : m = q[i]
    <3> HIDE DEF q, n
    <3>1. QED  BY <1>1, <1>2, <2>1, RestElements
  <2>3. ASSUME NEW m \in ToSet(Delta(s))
        PROVE  \E i \in 1 .. Len(q) : m = q[i] /\ (n < Len(q) => i > n)
    <3>1. PICK i \in n + 1 .. Len(q) : m = q[i]  BY <2>2
    <3>2. i \in 1 .. Len(q) /\ i > n  BY <1>1
    <3>3. QED  BY <3>1, <3>2
  <2>4. ASSUME NEW i \in 1 .. Len(q), i > n  PROVE q[i] \in ToSet(Delta(s))
    <3>1. i \in n + 1 .. Len(q)  BY <1>1, <2>4
    <3>2. QED  BY <2>2, <3>1
  <2>5. QED  BY <2>3, <2>4
<1>3. CASE ~(n < Len(q))
  <2>1. Delta(s) = q  BY <1>1, <1>3 DEF Delta
  <2>2. QED  BY <1>1, <1>3, <2>1 DEF ToSet
<1>4. QED  BY <1>2, <1>3

\* A hook that has something to read reads only what may be sent.
LEMMA DeltaUnsent ==
  ASSUME ZType, NEW s \in ZSessions, ZGood(s), Latest(s) = talk[s], NewTurns(s) # {},
         NEW m \in ToSet(Delta(s))
  PROVE  m \in TalkBound /\ Unsent(s, m)
<1>1. PICK i \in 1 .. Len(talk[s]) :
        m = talk[s][i] /\ (lastMsgCount[s] < Len(talk[s]) => i > lastMsgCount[s])
  BY DeltaReads
<1>2. m \in TalkBound
  BY <1>1, ZCodeAssumption DEF ZGood, Written, ZType, TalkBound
<1>3. CASE \A k \in TalkBound : Unsent(s, k)  BY <1>2, <1>3
<1>4. CASE /\ lastMsgCount[s] <= Len(talk[s])
           /\ \A k \in lastMsgCount[s] + 1 .. Len(talk[s]) : Unsent(s, talk[s][k])
           /\ NewTurns(s) # {} => lastMsgCount[s] < Len(talk[s])
  <2>1. i \in lastMsgCount[s] + 1 .. Len(talk[s])
    BY <1>1, <1>4 DEF ZType
  <2>2. QED  BY <1>1, <1>2, <1>4, <2>1
<1>5. QED  BY <1>3, <1>4 DEF ZGood, Counted

\* What the hook records, when the server has what it read.
LEMMA SaveGood ==
  ASSUME ZType, ZType', NEW s \in ZSessions, ZGood(s), stop[s].pc # "off",
         SaveState(s, NewTurns(s), Len(talk[s])), stop'[s] = Idling,
         UNCHANGED <<talk, written, rollout, compactions, unheard>>,
         \A m \in TalkBound : zgot[s][m] <= zgot'[s][m],
         \A m \in TalkBound : m > written[s] => zgot'[s][m] = 0,
         \A m \in TalkBound : zgot'[s][m] <= 1 + unheard[s] + compactions[s],
         \A m \in Cleaned(ToSet(Delta(s))) : zgot'[s][m] > 0
  PROVE  ZGood(s)'
<1>1. /\ turnIds'[s] = turnIds[s] \cup NewTurns(s) /\ lastMsgCount'[s] = Len(talk[s])
      /\ turnIds[s] \subseteq 1 .. Len(rollout[s]) /\ Latest(s) = talk[s]
  BY DEF SaveState, ZType, ZGood, CountedRead
<1>2. turnIds'[s] = 1 .. Len(rollout[s]) /\ NewTurns(s)' = {}
  BY <1>1 DEF NewTurns
<1>3. Written(s)'  BY DEF ZGood, Written
<1>4. CountedRead(s)'
  BY <1>2 DEF CountedRead, Idling
<1>5. Archived(s)'
  <2>0. Len(talk[s]) \in Nat /\ talk' = talk /\ rollout' = rollout /\ compactions' = compactions
    BY DEF ZType
  <2> SUFFICES ASSUME compactions[s] = 0
               PROVE  /\ \A t \in 1 .. Len(rollout[s]) :
                           /\ Len(rollout[s][t]) <= Len(talk[s])
                           /\ \A i \in 1 .. Len(rollout[s][t]) : rollout[s][t][i] = talk[s][i]
                      /\ \A i \in 1 .. Len(talk[s]) : talk[s][i] \notin Missing(s)'
    BY <2>0, <1>1, <1>2 DEF Archived
  <2>1. ASSUME NEW i \in 1 .. Len(talk[s]), talk[s][i] \in Missing(s)'  PROVE FALSE
    <3> DEFINE m == talk[s][i]
    <3>1. m \in TalkBound /\ m \notin Fragments /\ zgot'[s][m] = 0
      BY <2>1 DEF Missing, Cleaned
    <3>2. zgot[s][m] = 0
      BY <3>1 DEF ZType
    <3>3. m \in Missing(s)  BY <3>1, <3>2 DEF Missing, Cleaned
    <3>4. i > lastMsgCount[s]
      <4>1. \A k \in 1 .. lastMsgCount[s] : talk[s][k] \notin Missing(s)
        BY DEF ZGood, Archived
      <4>2. i \in Nat /\ i >= 1 /\ lastMsgCount[s] \in Nat
        BY <2>0, <2>1 DEF ZType
      <4>3. i \notin 1 .. lastMsgCount[s]
        BY <3>3, <4>1
      <4>4. QED  BY <4>2, <4>3
    <3>5. m \in Cleaned(ToSet(Delta(s)))
      BY <1>1, <3>1, <3>4, DeltaReads DEF Cleaned
    <3>6. QED  BY <3>1, <3>5
  <2>2. QED  BY <2>1 DEF ZGood, Archived
<1>6. Counted(s)'
  <2>1. lastMsgCount'[s] <= Len(talk'[s]) /\ lastMsgCount'[s] + 1 .. Len(talk'[s]) = {}
    BY <1>1 DEF ZType
  <2>2. QED  BY <1>2, <2>1 DEF Counted
<1>7. QED  BY <1>3, <1>4, <1>5, <1>6 DEF ZGood

\* A message more or less of a session, and one cause more.
LEMMA CountedAnew ==
  ASSUME ZType, ZType', NEW s \in ZSessions, Counted(s),
         unheard'[s] + compactions'[s] = unheard[s] + compactions[s] + 1,
         \A m \in TalkBound : \/ zgot'[s][m] = zgot[s][m]
                              \/ zgot'[s][m] = zgot[s][m] + 1 /\ Unsent(s, m)
  PROVE  Counted(s)'
<1>1. ASSUME NEW m \in TalkBound  PROVE zgot'[s][m] <= unheard'[s] + compactions'[s]
  <2>1. /\ zgot[s][m] \in Nat /\ zgot'[s][m] \in Nat /\ unheard[s] \in Nat
        /\ compactions[s] \in Nat /\ unheard'[s] \in Nat /\ compactions'[s] \in Nat
    BY DEF ZType
  <2>2. zgot[s][m] <= 1 + unheard[s] + compactions[s]  BY DEF Counted
  <2>3. QED  BY <2>1, <2>2 DEF Unsent
<1>2. unheard'[s] \in Nat /\ compactions'[s] \in Nat /\ \A m \in TalkBound : zgot'[s][m] \in Nat
  BY DEF ZType
<1>3. \A m \in TalkBound : zgot'[s][m] <= 1 + unheard'[s] + compactions'[s]
  BY <1>1, <1>2
<1>4. QED  BY <1>1, <1>3 DEF Counted, Unsent

\* A step of one session leaves the others as they are.
LEMMA OneSession ==
  ASSUME ZIInv, ZType', NEW s \in ZSessions, ZGood(s)',
         \A r \in ZSessions \ {s} : Untouched(r)
  PROVE  ZIInv'
<1>1. \A r \in ZSessions : ZGood(r)'
  BY UntouchedGood DEF ZIInv
<1>2. QED  BY <1>1 DEF ZIInv

\* A turn appends to the conversation and leaves a snapshot of it.
LEMMA TurnStep ==
  ASSUME ZIInv, NEW s \in ZSessions, NEW n \in 1 .. Growth, Turn(s, n)
  PROVE  ZIInv'
<1> DEFINE new == [i \in 1 .. n |-> written[s] + i]
           longer == talk[s] \o new
<1>1. /\ ZType /\ ZGood(s) /\ n \in Nat /\ n > 0 /\ written[s] \in Nat
      /\ talk[s] \in Seq(Nat) /\ rollout[s] \in Seq(Seq(Nat)) /\ zgot[s] \in [TalkBound -> Nat]
      /\ lastMsgCount[s] \in Nat /\ unheard[s] \in Nat /\ compactions[s] \in Nat
  BY ZCodeAssumption DEF ZIInv, ZType
<1>2. new \in Seq(Nat) /\ Len(new) = n /\ \A i \in 1 .. n : new[i] = written[s] + i
  <2>1. \A i \in 1 .. n : new[i] = written[s] + i /\ new[i] \in Nat  BY <1>1
  <2>2. new \in [1 .. n -> Nat]  BY <2>1
  <2>3. new \in Seq(Nat) /\ Len(new) = n  BY <1>1, <2>2, SeqDef, LenProperties
  <2>4. QED  BY <2>1, <2>3
<1>14. Len(talk[s]) \in Nat  BY <1>1
<1>3. /\ longer \in Seq(Nat) /\ Len(longer) = Len(talk[s]) + n
      /\ \A i \in 1 .. Len(talk[s]) : longer[i] = talk[s][i]
      /\ \A i \in Len(talk[s]) + 1 .. Len(talk[s]) + n : longer[i] = written[s] + (i - Len(talk[s]))
  <2>1. /\ longer \in Seq(Nat) /\ Len(longer) = Len(talk[s]) + Len(new)
        /\ \A i \in 1 .. Len(talk[s]) : longer[i] = talk[s][i]
        /\ \A i \in Len(talk[s]) + 1 .. Len(talk[s]) + Len(new) :
             longer[i] = new[i - Len(talk[s])]
    <3> HIDE DEF new
    <3>1. QED  BY <1>1, <1>2, Joined
  <2>2. Len(talk[s]) \in Nat /\ Len(new) = n  BY <1>1, <1>2
  <2>3. ASSUME NEW i \in Len(talk[s]) + 1 .. Len(talk[s]) + n
        PROVE  longer[i] = written[s] + (i - Len(talk[s]))
    <3> HIDE DEF new, longer
    <3>1. i - Len(talk[s]) \in 1 .. n  BY <1>1, <2>2
    <3>2. QED  BY <1>2, <2>1, <2>2, <3>1
  <2> HIDE DEF new, longer
  <2>4. QED  BY <2>1, <2>2, <2>3
<1>4. /\ talk' = [talk EXCEPT ![s] = longer]
      /\ written' = [written EXCEPT ![s] = @ + n] /\ written[s] + n <= MaxTalk
      /\ stop' = [stop EXCEPT ![s].pc = "due"] /\ stop[s].pc = "off"
      /\ UNCHANGED <<turnIds, lastMsgCount, zgot, compactions, unheard>>
  BY DEF Turn, zarchive
<1> HIDE DEF longer
<1>5. /\ talk'[s] = longer /\ written'[s] = written[s] + n /\ stop'[s].pc = "due"
      /\ rollout' = [rollout EXCEPT ![s] = Append(rollout[s], longer)]
  <2>1. talk'[s] = longer /\ written'[s] = written[s] + n /\ stop'[s].pc = "due"
    BY <1>1, <1>4 DEF ZType
  <2>2. rollout' = [rollout EXCEPT ![s] = Append(@, talk'[s])]  BY DEF Turn
  <2>3. QED  BY <2>1, <2>2
<1>6. /\ rollout'[s] = Append(rollout[s], longer) /\ rollout'[s] \in Seq(Seq(Nat))
      /\ Len(rollout'[s]) = Len(rollout[s]) + 1 /\ Len(rollout[s]) \in Nat
      /\ rollout'[s][Len(rollout'[s])] = longer
      /\ \A t \in 1 .. Len(rollout[s]) : rollout'[s][t] = rollout[s][t]
  BY <1>1, <1>3, <1>5 DEF ZType
<1>7. ZType'
  <2>1. talk' \in [ZSessions -> Seq(Nat)] /\ rollout' \in [ZSessions -> Seq(Seq(Nat))]
    BY <1>1, <1>3, <1>4, <1>5, <1>6 DEF ZType
  <2>2. written' \in [ZSessions -> 0 .. MaxTalk]
    BY <1>1, <1>4, ZCodeAssumption DEF ZType
  <2>3. stop' \in [ZSessions -> [pc : {"off", "due", "post"}, turns : SUBSET Nat,
                                 upto : Nat, batch : SUBSET Nat]]
    <3>1. stop[s] \in [pc : {"off", "due", "post"}, turns : SUBSET Nat,
                       upto : Nat, batch : SUBSET Nat]
      BY <1>1 DEF ZType
    <3>2. [stop[s] EXCEPT !.pc = "due"] \in [pc : {"off", "due", "post"}, turns : SUBSET Nat,
                                             upto : Nat, batch : SUBSET Nat]
      BY <3>1
    <3>3. stop' = [stop EXCEPT ![s] = [stop[s] EXCEPT !.pc = "due"]]
      BY <1>1, <1>4 DEF ZType
    <3>4. QED  BY <1>1, <3>2, <3>3 DEF ZType
  <2>4. QED  BY <1>1, <1>4, <2>1, <2>2, <2>3 DEF ZType
<1>8. Written(s)'
  <2>1. ASSUME NEW i \in 1 .. Len(longer)  PROVE longer[i] \in 1 .. written[s] + n
    <3>1. CASE i <= Len(talk[s])
      <4>1. i \in 1 .. Len(talk[s]) /\ longer[i] = talk[s][i]  BY <1>3, <1>14, <3>1
      <4>2. talk[s][i] \in 1 .. written[s]  BY <1>1, <4>1 DEF ZGood, Written
      <4>3. QED  BY <1>1, <4>1, <4>2
    <3>2. CASE i > Len(talk[s])
      <4>1. longer[i] = written[s] + (i - Len(talk[s]))  BY <1>1, <1>3, <1>14, <3>2
      <4>2. i - Len(talk[s]) \in 1 .. n  BY <1>1, <1>3, <1>14, <3>2
      <4>3. QED  BY <1>1, <4>1, <4>2
    <3>3. QED  BY <1>1, <1>3, <1>14, <3>1, <3>2
  <2>2. ASSUME NEW m \in TalkBound, m > written[s] + n  PROVE zgot'[s][m] = 0
    BY <1>1, <1>4, <2>2, ZCodeAssumption DEF ZGood, Written, TalkBound
  <2>3. QED  BY <1>5, <2>1, <2>2 DEF Written
<1>9. CountedRead(s)'
  <2>1. turnIds'[s] \subseteq 1 .. Len(rollout'[s])
    BY <1>1, <1>4, <1>6 DEF ZGood, CountedRead
  <2>2. Len(rollout'[s]) > 0 /\ Latest(s)' = talk'[s]
    BY <1>5, <1>6 DEF Latest
  <2>3. QED  BY <1>5, <2>1, <2>2 DEF CountedRead
<1>10. Archived(s)'
  <2> SUFFICES ASSUME compactions[s] = 0
               PROVE  /\ lastMsgCount[s] <= Len(longer)
                      /\ \A t \in 1 .. Len(rollout'[s]) :
                           /\ Len(rollout'[s][t]) <= Len(longer)
                           /\ \A i \in 1 .. Len(rollout'[s][t]) : rollout'[s][t][i] = longer[i]
                      /\ \A i \in 1 .. lastMsgCount[s] : longer[i] \notin Missing(s)'
                      /\ \A t \in turnIds[s] : Len(rollout'[s][t]) <= lastMsgCount[s]
    <3>1. talk'[s] = longer /\ compactions'[s] = compactions[s]
          /\ lastMsgCount'[s] = lastMsgCount[s] /\ turnIds'[s] = turnIds[s]
      BY <1>4, <1>5
    <3>2. QED  BY <3>1 DEF Archived
  <2>1. Missing(s)' = Missing(s)  BY <1>4 DEF Missing, Cleaned
  <2>2. /\ lastMsgCount[s] <= Len(talk[s])
        /\ \A t \in 1 .. Len(rollout[s]) :
             /\ Len(rollout[s][t]) <= Len(talk[s])
             /\ \A i \in 1 .. Len(rollout[s][t]) : rollout[s][t][i] = talk[s][i]
        /\ \A i \in 1 .. lastMsgCount[s] : talk[s][i] \notin Missing(s)
        /\ \A t \in turnIds[s] : Len(rollout[s][t]) <= lastMsgCount[s]
        /\ turnIds[s] \subseteq 1 .. Len(rollout[s])
    BY <1>1 DEF ZGood, Archived, CountedRead
  <2>3. ASSUME NEW t \in 1 .. Len(rollout'[s])
        PROVE  /\ Len(rollout'[s][t]) <= Len(longer)
               /\ \A i \in 1 .. Len(rollout'[s][t]) : rollout'[s][t][i] = longer[i]
    <3>1. CASE t = Len(rollout'[s])  BY <1>3, <1>6, <3>1
    <3>2. CASE t # Len(rollout'[s])
      <4>1. t \in 1 .. Len(rollout[s]) /\ rollout'[s][t] = rollout[s][t]  BY <1>6, <3>2
      <4>2. rollout[s][t] \in Seq(Nat) /\ Len(rollout[s][t]) \in Nat /\ Len(talk[s]) \in Nat
        BY <1>1, <4>1
      <4>3. Len(rollout[s][t]) <= Len(talk[s])  BY <2>2, <4>1
      <4>4. Len(rollout'[s][t]) <= Len(longer)  BY <1>1, <1>3, <4>1, <4>2, <4>3
      <4>5. ASSUME NEW i \in 1 .. Len(rollout[s][t])  PROVE rollout[s][t][i] = longer[i]
        <5>1. i \in 1 .. Len(talk[s])  BY <4>2, <4>3
        <5>2. rollout[s][t][i] = talk[s][i]  BY <2>2, <4>1
        <5>3. QED  BY <1>3, <5>1, <5>2
      <4>6. QED  BY <4>1, <4>4, <4>5
    <3>3. QED  BY <3>1, <3>2
  <2>4. lastMsgCount[s] <= Len(longer) /\ \A i \in 1 .. lastMsgCount[s] : longer[i] = talk[s][i]
    BY <1>1, <1>3, <2>2
  <2>5. QED  BY <1>6, <2>1, <2>2, <2>3, <2>4
<1>11. Counted(s)'
  <2>1. /\ \A m \in TalkBound : zgot[s][m] <= 1 + unheard[s] + compactions[s]
        /\ \/ \A m \in TalkBound : Unsent(s, m)
           \/ /\ lastMsgCount[s] <= Len(talk[s])
              /\ \A i \in lastMsgCount[s] + 1 .. Len(talk[s]) : Unsent(s, talk[s][i])
    BY <1>1 DEF ZGood, Counted
  <2>2. \A m : Unsent(s, m)' <=> Unsent(s, m)  BY <1>4 DEF Unsent
  <2>3. CASE \A m \in TalkBound : Unsent(s, m)
    BY <1>4, <2>1, <2>2, <2>3 DEF Counted
  <2>4. CASE /\ lastMsgCount[s] <= Len(talk[s])
             /\ \A i \in lastMsgCount[s] + 1 .. Len(talk[s]) : Unsent(s, talk[s][i])
    <3>1. lastMsgCount[s] < Len(longer) /\ Len(longer) \in Nat  BY <1>1, <1>3, <2>4
    <3>2. ASSUME NEW i \in lastMsgCount[s] + 1 .. Len(longer)  PROVE Unsent(s, longer[i])
      <4>1. CASE i <= Len(talk[s])
        <5>1. i \in lastMsgCount[s] + 1 .. Len(talk[s]) /\ i \in 1 .. Len(talk[s])
          BY <1>1, <4>1
        <5>2. QED  BY <1>3, <2>4, <5>1
      <4>2. CASE i > Len(talk[s])
        <5>1. longer[i] \in written[s] + 1 .. written[s] + n
          <6>1. Len(longer) = Len(talk[s]) + n /\ lastMsgCount[s] \in Nat /\ n \in Nat
            BY <1>1, <1>3
          <6>2. i \in Len(talk[s]) + 1 .. Len(talk[s]) + n /\ i - Len(talk[s]) \in 1 .. n
            BY <1>14, <4>2, <6>1
          <6>3. longer[i] = written[s] + (i - Len(talk[s]))  BY <1>3, <6>2
          <6>4. written[s] \in Nat  BY <1>1
          <6>5. QED  BY <6>1, <6>2, <6>3, <6>4
        <5>2. longer[i] \in TalkBound /\ longer[i] > written[s]
          BY <1>1, <1>4, <5>1, ZCodeAssumption DEF TalkBound
        <5>3. zgot[s][longer[i]] = 0  BY <1>1, <5>2 DEF ZGood, Written
        <5>4. QED  BY <1>1, <5>3 DEF Unsent
      <4>3. QED  BY <1>1, <1>3, <4>1, <4>2
    <3>3. talk'[s] = longer /\ UNCHANGED <<lastMsgCount, zgot, unheard, compactions>>
      BY <1>4, <1>5
    <3>4. ASSUME NEW i \in lastMsgCount'[s] + 1 .. Len(talk'[s])
          PROVE  zgot'[s][talk'[s][i]] <= unheard'[s] + compactions'[s]
      <4>1. i \in lastMsgCount[s] + 1 .. Len(longer)  BY <3>3
      <4>2. zgot[s][longer[i]] <= unheard[s] + compactions[s]  BY <3>2, <4>1 DEF Unsent
      <4>3. QED  BY <3>3, <4>2
    <3>5. \A m \in TalkBound : zgot'[s][m] <= 1 + unheard'[s] + compactions'[s]
      BY <2>1, <3>3
    <3>6. lastMsgCount'[s] < Len(talk'[s]) /\ lastMsgCount'[s] \in Nat /\ Len(talk'[s]) \in Nat
      BY <1>1, <3>1, <3>3
    <3>7. QED  BY <3>4, <3>5, <3>6 DEF Counted, Unsent
  <2>5. QED  BY <2>1, <2>3, <2>4
<1>12. \A r \in ZSessions \ {s} : Untouched(r)
  BY <1>1, <1>4, <1>5 DEF Untouched, ZType
<1>13. QED  BY <1>7, <1>8, <1>9, <1>10, <1>11, <1>12, OneSession DEF ZGood

\* A compaction shortens the conversation, which the hook is not told.
LEMMA CompactStep ==
  ASSUME ZIInv, NEW s \in ZSessions, CompactTalk(s)
  PROVE  ZIInv'
<1> DEFINE short == <<written[s] + 1, Last(talk[s])>>
<1>1. /\ ZType /\ ZGood(s) /\ written[s] \in Nat /\ talk[s] \in Seq(Nat) /\ Len(talk[s]) > 2
      /\ written[s] < MaxTalk /\ stop[s].pc = "off" /\ Last(talk[s]) = talk[s][Len(talk[s])]
  <2>1. /\ ZType /\ ZGood(s) /\ Len(talk[s]) > 2
        /\ written[s] < MaxTalk /\ stop[s].pc = "off"
    BY DEF ZIInv, CompactTalk
  <2>2. talk[s] \in Seq(Nat) /\ written[s] \in Nat
    BY <2>1, ZCodeAssumption DEF ZType
  <2>3. QED  BY <2>1, <2>2 DEF Last
<1>2. /\ talk' = [talk EXCEPT ![s] = short]
      /\ written' = [written EXCEPT ![s] = @ + 1]
      /\ compactions' = [compactions EXCEPT ![s] = @ + 1]
      /\ UNCHANGED <<rollout, turnIds, lastMsgCount, stop, zgot, unheard>>
  BY DEF CompactTalk, zarchive
<1>3. Last(talk[s]) \in 1 .. written[s]
  BY <1>1 DEF ZGood, Written
<1>4. short \in Seq(Nat) /\ Len(short) = 2 /\ \A i \in 1 .. 2 : short[i] \in 1 .. written[s] + 1
  BY <1>1, <1>3
<1> HIDE DEF short
<1>5. ZType'
  <2>1. written' \in [ZSessions -> 0 .. MaxTalk]
    BY <1>1, <1>2, ZCodeAssumption DEF ZType
  <2>2. talk' \in [ZSessions -> Seq(Nat)]
    BY <1>1, <1>2, <1>4 DEF ZType
  <2>3. compactions' \in [ZSessions -> Nat]
    BY <1>1, <1>2 DEF ZType
  <2>4. QED  BY <1>1, <1>2, <2>1, <2>2, <2>3 DEF ZType
<1>6. talk'[s] = short /\ written'[s] = written[s] + 1 /\ compactions'[s] = compactions[s] + 1
      /\ compactions[s] \in Nat /\ unheard[s] \in Nat /\ unheard'[s] = unheard[s]
  BY <1>1, <1>2 DEF ZType
<1>7. Written(s)'
  <2>1. ASSUME NEW m \in TalkBound, m > written[s] + 1  PROVE zgot[s][m] = 0
    BY <1>1, <2>1, ZCodeAssumption DEF ZGood, Written, TalkBound
  <2>2. QED  BY <1>2, <1>4, <1>6, <2>1 DEF Written
<1>8. CountedRead(s)'  BY <1>1, <1>2 DEF ZGood, CountedRead
<1>9. Archived(s)'  BY <1>6 DEF Archived
<1>10. Counted(s)'
  <2>1. unheard'[s] + compactions'[s] = unheard[s] + compactions[s] + 1  BY <1>6
  <2>2. QED  BY <1>1, <1>2, <1>5, <2>1, CountedAnew DEF ZGood
<1>11. \A r \in ZSessions \ {s} : Untouched(r)
  BY <1>1, <1>2 DEF Untouched, ZType
<1>12. QED  BY <1>5, <1>7, <1>8, <1>9, <1>10, <1>11, OneSession DEF ZGood

\* The hook returns before its request.
LEMMA ReturnStep ==
  ASSUME ZIInv, NEW s \in ZSessions, StopReturns(s)
  PROVE  ZIInv'
<1>1. /\ ZType /\ ZGood(s) /\ stop' = [stop EXCEPT ![s] = Idling]
      /\ UNCHANGED <<talk, written, rollout, turnIds, lastMsgCount, zgot, compactions, unheard>>
  BY DEF ZIInv, StopReturns, zarchive
<1>2. ZType'  BY <1>1 DEF ZType, Idling
<1>3. stop'[s] = Idling  BY <1>1 DEF ZType
<1>4. CountedRead(s)'  BY <1>1, <1>3 DEF ZGood, CountedRead, Idling
<1>5. Written(s)'  BY <1>1 DEF ZGood, Written
<1>6. Archived(s)'  BY <1>1 DEF ZGood, Archived, Missing, Cleaned
<1>7. Counted(s)'  BY <1>1 DEF ZGood, Counted, Unsent, NewTurns
<1>8. \A r \in ZSessions \ {s} : Untouched(r)
  BY <1>1 DEF Untouched, ZType
<1>9. QED  BY <1>2, <1>4, <1>5, <1>6, <1>7, <1>8, OneSession DEF ZGood

\* The hook finds only fragments, which it records as processed.
LEMMA FragmentsStep ==
  ASSUME ZIInv, NEW s \in ZSessions, StopFragments(s)
  PROVE  ZIInv'
<1>1. /\ ZType /\ ZGood(s) /\ stop' = [stop EXCEPT ![s] = Idling] /\ stop[s].pc = "due"
      /\ Latest(s) = talk[s] /\ SaveState(s, NewTurns(s), Len(talk[s]))
      /\ UNCHANGED <<talk, written, rollout, zgot, compactions, unheard>>
      /\ Cleaned(ToSet(Delta(s))) = {}
  BY DEF ZIInv, StopFragments, ZGood, CountedRead
<1>2. ZType'
  <2>1. Len(talk[s]) \in Nat /\ NewTurns(s) \subseteq Nat
    BY <1>1 DEF ZType, NewTurns
  <2>2. turnIds' \in [ZSessions -> SUBSET Nat] /\ lastMsgCount' \in [ZSessions -> Nat]
    BY <1>1, <2>1 DEF SaveState, ZType
  <2>3. stop' \in [ZSessions -> [pc : {"off", "due", "post"}, turns : SUBSET Nat,
                                 upto : Nat, batch : SUBSET Nat]]
    BY <1>1 DEF ZType, Idling
  <2>4. QED  BY <1>1, <2>2, <2>3 DEF ZType
<1>3. stop'[s] = Idling  BY <1>1 DEF ZType
<1>4. /\ \A m \in TalkBound : zgot[s][m] <= zgot'[s][m]
      /\ \A m \in TalkBound : m > written[s] => zgot'[s][m] = 0
      /\ \A m \in TalkBound : zgot'[s][m] <= 1 + unheard[s] + compactions[s]
  BY <1>1 DEF ZType, ZGood, Written, Counted
<1>5. ZGood(s)'  BY <1>1, <1>2, <1>3, <1>4, SaveGood
<1>6. \A r \in ZSessions \ {s} : Untouched(r)
  BY <1>1 DEF Untouched, ZType, SaveState
<1>7. QED  BY <1>2, <1>5, <1>6, OneSession

\* The hook prepares its request from the conversation as it is.
LEMMA ReadForSending ==
  ASSUME ZIInv, NEW s \in ZSessions, StopRead(s)
  PROVE  ZIInv'
<1>1. /\ ZType /\ ZGood(s) /\ stop[s].pc = "due" /\ Latest(s) = talk[s] /\ NewTurns(s) # {}
      /\ stop' = [stop EXCEPT ![s] = [pc |-> "post", turns |-> NewTurns(s),
                    upto |-> Len(talk[s]), batch |-> Cleaned(ToSet(Delta(s)))]]
      /\ UNCHANGED <<talk, written, rollout, turnIds, lastMsgCount, zgot, compactions, unheard>>
  BY DEF ZIInv, StopRead, ZGood, CountedRead, Ready, zarchive
<1>2. Cleaned(ToSet(Delta(s))) \subseteq Nat
  BY <1>1, DeltaUnsent DEF Cleaned, TalkBound
<1>3. ZType'
  <2>1. Len(talk[s]) \in Nat /\ NewTurns(s) \subseteq Nat
    BY <1>1 DEF ZType, NewTurns
  <2> DEFINE rec == [pc |-> "post", turns |-> NewTurns(s), upto |-> Len(talk[s]),
                     batch |-> Cleaned(ToSet(Delta(s)))]
  <2>2. rec \in [pc : {"off", "due", "post"}, turns : SUBSET Nat,
                 upto : Nat, batch : SUBSET Nat]
    BY <1>2, <2>1
  <2>3. stop' = [stop EXCEPT ![s] = rec]  BY <1>1
  <2> HIDE DEF rec
  <2>4. QED  BY <1>1, <2>2, <2>3 DEF ZType
<1>4. stop'[s] = [pc |-> "post", turns |-> NewTurns(s),
                  upto |-> Len(talk[s]), batch |-> Cleaned(ToSet(Delta(s)))]
  BY <1>1 DEF ZType
<1>5. NewTurns(s)' = NewTurns(s) /\ Delta(s)' = Delta(s) /\ Latest(s)' = Latest(s)
  BY <1>1 DEF NewTurns, Delta, Latest
<1>6. CountedRead(s)'
  BY <1>1, <1>4, <1>5 DEF ZGood, CountedRead
<1>7. Written(s)'  BY <1>1 DEF ZGood, Written
<1>8. Archived(s)'  BY <1>1 DEF ZGood, Archived, Missing, Cleaned
<1>9. Counted(s)'  BY <1>1 DEF ZGood, Counted, Unsent, NewTurns
<1>10. \A r \in ZSessions \ {s} : Untouched(r)
  BY <1>1 DEF Untouched, ZType
<1>11. QED  BY <1>3, <1>6, <1>7, <1>8, <1>9, <1>10, OneSession DEF ZGood

\* The request: it arrived or not, and its answer too.
LEMMA PostRequest ==
  ASSUME ZIInv, NEW s \in ZSessions, NEW reached \in BOOLEAN, NEW ok \in BOOLEAN,
         StopPost(s, reached, ok)
  PROVE  ZIInv'
<1>1. /\ ZType /\ ZGood(s) /\ stop[s].pc = "post" /\ (ok => reached)
      /\ stop' = [stop EXCEPT ![s] = Idling]
      /\ UNCHANGED <<talk, written, rollout, compactions>>
  BY DEF ZIInv, StopPost
<1>2. /\ Latest(s) = talk[s] /\ NewTurns(s) # {} /\ stop[s].turns = NewTurns(s)
      /\ stop[s].upto = Len(talk[s]) /\ stop[s].batch = Cleaned(ToSet(Delta(s)))
  BY <1>1 DEF ZGood, CountedRead
<1>3. /\ zgot' = IF reached THEN [zgot EXCEPT ![s] = [m \in TalkBound |->
                    IF m \in Cleaned(ToSet(Delta(s))) THEN zgot[s][m] + 1 ELSE zgot[s][m]]]
                 ELSE zgot
      /\ unheard' = IF reached /\ ~ok THEN [unheard EXCEPT ![s] = @ + 1] ELSE unheard
      /\ IF ok THEN SaveState(s, NewTurns(s), Len(talk[s])) ELSE UNCHANGED <<turnIds, lastMsgCount>>
  BY <1>2 DEF StopPost, Saved, zarchive
<1>4. ZType'
  <2>1. Len(talk[s]) \in Nat /\ NewTurns(s) \subseteq Nat
    BY <1>1 DEF ZType, NewTurns
  <2>2. turnIds' \in [ZSessions -> SUBSET Nat] /\ lastMsgCount' \in [ZSessions -> Nat]
    <3>1. CASE ok
      <4>1. SaveState(s, NewTurns(s), Len(talk[s]))  BY <1>3, <3>1
      <4>2. QED  BY <1>1, <2>1, <4>1 DEF SaveState, ZType
    <3>2. CASE ~ok  BY <1>1, <1>3, <3>2 DEF ZType
    <3>3. QED  BY <3>1, <3>2
  <2>3. stop' \in [ZSessions -> [pc : {"off", "due", "post"}, turns : SUBSET Nat,
                                 upto : Nat, batch : SUBSET Nat]]
    BY <1>1 DEF ZType, Idling
  <2>4. zgot' \in [ZSessions -> [TalkBound -> Nat]] /\ unheard' \in [ZSessions -> Nat]
    BY <1>1, <1>3 DEF ZType
  <2>5. QED  BY <1>1, <2>2, <2>3, <2>4 DEF ZType
<1>5. stop'[s] = Idling  BY <1>1 DEF ZType
<1>6. \A m \in Cleaned(ToSet(Delta(s))) : m \in TalkBound /\ Unsent(s, m)
  BY <1>1, <1>2, DeltaUnsent DEF Cleaned
<1>7. \A m \in TalkBound :
        zgot'[s][m] = IF reached /\ m \in Cleaned(ToSet(Delta(s)))
                      THEN zgot[s][m] + 1 ELSE zgot[s][m]
  BY <1>1, <1>3 DEF ZType
<1>8. \A m \in TalkBound : m > written[s] => zgot'[s][m] = 0
  <2>1. ASSUME NEW m \in Cleaned(ToSet(Delta(s)))  PROVE ~(m > written[s])
    <3>1. PICK i \in 1 .. Len(talk[s]) : m = talk[s][i]
      BY <1>1, <1>2, DeltaReads DEF Cleaned
    <3>2. QED  BY <1>1, <3>1 DEF ZGood, Written, ZType
  <2>2. QED  BY <1>1, <1>7, <2>1 DEF ZGood, Written
<1>9. CASE ok
  <2>1. unheard' = unheard /\ SaveState(s, NewTurns(s), Len(talk[s]))  BY <1>3, <1>9
  <2>2. ASSUME NEW m \in TalkBound
        PROVE  /\ zgot[s][m] <= zgot'[s][m]
               /\ zgot'[s][m] <= 1 + unheard[s] + compactions[s]
    <3>1. zgot[s][m] \in Nat /\ unheard[s] \in Nat /\ compactions[s] \in Nat
      BY <1>1 DEF ZType
    <3>2. zgot[s][m] <= 1 + unheard[s] + compactions[s]
      BY <1>1 DEF ZGood, Counted
    <3>3. m \in Cleaned(ToSet(Delta(s))) => zgot[s][m] <= unheard[s] + compactions[s]
      BY <1>6 DEF Unsent
    <3>4. QED  BY <1>7, <3>1, <3>2, <3>3
  <2>3. ASSUME NEW m \in Cleaned(ToSet(Delta(s)))  PROVE zgot'[s][m] > 0
    BY <1>1, <1>6, <1>7, <1>9 DEF ZType
  <2>4. ZGood(s)'
    BY <1>1, <1>4, <1>5, <1>8, <2>1, <2>2, <2>3, SaveGood
  <2>5. \A r \in ZSessions \ {s} : Untouched(r)
    BY <1>1, <1>3, <2>1 DEF Untouched, ZType, SaveState
  <2>6. QED  BY <1>4, <2>4, <2>5, OneSession
<1>10. CASE ~ok
  <2>1. UNCHANGED <<turnIds, lastMsgCount>>  BY <1>3, <1>10
  <2>2. Written(s)'  BY <1>1, <1>8 DEF ZGood, Written
  <2>3. CountedRead(s)'  BY <1>1, <1>5, <2>1 DEF ZGood, CountedRead, Idling
  <2>4. Archived(s)'
    <3>1. \A m \in TalkBound : zgot[s][m] \in Nat  BY <1>1 DEF ZType
    <3>2. Missing(s)' \subseteq Missing(s)  BY <1>7, <3>1 DEF Missing, Cleaned
    <3>3. QED  BY <1>1, <2>1, <3>2 DEF ZGood, Archived
  <2>5. Counted(s)'
    <3>1. CASE reached
      <4>1. unheard'[s] + compactions'[s] = unheard[s] + compactions[s] + 1
        BY <1>1, <1>3, <1>10, <3>1 DEF ZType
      <4>2. QED  BY <1>1, <1>4, <1>6, <1>7, <4>1, CountedAnew DEF ZGood
    <3>2. CASE ~reached
      <4>1. UNCHANGED <<zgot, unheard>>  BY <1>3, <3>2
      <4>2. QED  BY <1>1, <2>1, <4>1 DEF ZGood, Counted, Unsent, NewTurns
    <3>3. QED  BY <3>1, <3>2
  <2>6. \A r \in ZSessions \ {s} : Untouched(r)
    BY <1>1, <1>3, <2>1 DEF Untouched, ZType
  <2>7. QED  BY <1>4, <2>2, <2>3, <2>4, <2>5, <2>6, OneSession DEF ZGood
<1>11. QED  BY <1>9, <1>10

\* The invariant holds in every reachable state.
LEMMA ZInvariance == ZSpec => []ZIInv
<1>1. ZInit => ZIInv
  <2> SUFFICES ASSUME ZInit  PROVE ZIInv
    OBVIOUS
  <2>1. ZType
    BY ZCodeAssumption DEF ZInit, ZType, Idling, TalkBound
  <2>2. ASSUME NEW s \in ZSessions  PROVE ZGood(s)
    <3>1. /\ talk[s] = <<>> /\ rollout[s] = <<>> /\ turnIds[s] = {} /\ lastMsgCount[s] = 0
          /\ stop[s].pc = "off" /\ compactions[s] = 0 /\ unheard[s] = 0
          /\ \A m \in TalkBound : zgot[s][m] = 0
      BY DEF ZInit, Idling
    <3>2. Written(s) /\ CountedRead(s)  BY <3>1 DEF Written, CountedRead
    <3>3. Archived(s)  BY <3>1 DEF Archived
    <3>4. Counted(s)  BY <3>1 DEF Counted, Unsent
    <3>5. QED  BY <3>2, <3>3, <3>4 DEF ZGood
  <2>3. QED  BY <2>1, <2>2 DEF ZIInv
<1>2. ZIInv /\ [ZNext]_zvars => ZIInv'
  <2> SUFFICES ASSUME ZIInv, [ZNext]_zvars  PROVE ZIInv'
    OBVIOUS
  <2>1. ASSUME UNCHANGED <<talk, written, rollout, turnIds, lastMsgCount, stop, zgot,
                           compactions, unheard>>
        PROVE  ZIInv'
    <3>1. ZType'  BY <2>1 DEF ZIInv, ZType
    <3>2. \A s \in ZSessions : Untouched(s)  BY <2>1 DEF Untouched
    <3>3. QED  BY <3>1, <3>2, UntouchedGood DEF ZIInv
  <2>2. CASE UNCHANGED zvars  BY <2>1, <2>2 DEF zvars, zarchive
  <2>3. ASSUME NEW s, NEW on, MemoryToggle(s, on)  PROVE ZIInv'
    BY <2>1, <2>3 DEF MemoryToggle, zarchive
  <2>4. CASE ZNext
    BY <2>3, <2>4, TurnStep, CompactStep, ReturnStep, FragmentsStep, ReadForSending, PostRequest
       DEF ZNext
  <2>5. QED  BY <2>2, <2>4
<1>3. QED  BY <1>1, <1>2, PTL DEF ZSpec

\* However many requests and answers are lost, whatever is switched off in
\* between, a turn that the hook of ZCode recorded as processed is at the
\* server with all its messages, in a session that was not compacted.
THEOREM TurnsArchived == ZSpec => []ProcessedIsArchived
<1>1. ZIInv => ProcessedIsArchived
  <2> SUFFICES ASSUME ZIInv, NEW s \in ZSessions, compactions[s] = 0, NEW t \in turnIds[s],
                      NEW m \in ToSet(rollout[s][t])
               PROVE  m \notin Missing(s)
    BY DEF ProcessedIsArchived
  <2>1. ZType /\ CountedRead(s) /\ Archived(s)  BY DEF ZIInv, ZGood
  <2>2. t \in 1 .. Len(rollout[s]) /\ rollout[s][t] \in Seq(Nat)
    BY <2>1 DEF CountedRead, ZType
  <2>3. PICK i \in 1 .. Len(rollout[s][t]) : m = rollout[s][t][i]
    BY <2>2 DEF ToSet
  <2>4. m = talk[s][i] /\ i \in 1 .. lastMsgCount[s]
    BY <2>1, <2>2, <2>3 DEF Archived, ZType
  <2>5. QED  BY <2>1, <2>4 DEF Archived
<1>2. QED  BY <1>1, ZInvariance, PTL

\* A message of ZCode reaches the server once more at most for every
\* compaction of its session and every answer that was lost.
THEOREM ArchivedTwiceNeedsCause == ZSpec => []SentAgainNeedsCause
<1>1. ZIInv => SentAgainNeedsCause
  <2>1. ASSUME ZIInv, NEW s \in ZSessions, NEW m \in TalkBound
        PROVE  zgot[s][m] <= 1 + compactions[s] + unheard[s]
    <3>1. /\ zgot[s][m] \in Nat /\ unheard[s] \in Nat /\ compactions[s] \in Nat
          /\ zgot[s][m] <= 1 + unheard[s] + compactions[s]
      BY <2>1 DEF ZIInv, ZType, ZGood, Counted
    <3>2. QED  BY <3>1
  <2>2. QED  BY <2>1 DEF SentAgainNeedsCause
<1>2. QED  BY <1>1, ZInvariance, PTL

-----------------------------------------------------------------------------
(***************************************************************************)
(* The web server.  A daemon that is killed has the port, and a window     *)
(* that waits to start the next one.                                       *)
(***************************************************************************)

Daemonic == [kind : {"none", "cc", "zc"}, pc : {"none", "starting", "serving", "closing"},
             idle : BOOLEAN, zero : BOOLEAN, by : SUBSET Windows]

WType ==
  /\ daemon \in [Daemons -> Daemonic]
  /\ open \subseteq Windows /\ hook \in [Windows -> {"off", "wait"}]
  /\ sidOf \in [Windows -> Sids] /\ live \in [Sids -> Windows \cup {Nobody}]
  /\ excused \in BOOLEAN

\* Only the daemon that has the port serves, or is being ended.
PortOfOne == \A d \in Daemons : daemon[d].pc \in {"serving", "closing"} => port = d

\* Somebody waits for a daemon that is being ended in order to start another.
KilledFor ==
  \A d \in Daemons : daemon[d].pc = "closing" =>
    excused \/ \E w \in daemon[d].by : w \in open /\ hook[w] = "wait"

\* The .live file of a window's session names the window.
Listed == \A w \in open : hook[w] = "off" => w \in unlisted \/ live[sidOf[w]] = w

WInv == WType /\ PortOfOne /\ KilledFor /\ Listed /\ WindowsServed

\* What a request does to the daemons.
LEMMA AskedDaemons ==
  ASSUME WType
  PROVE  /\ Asked \in [Daemons -> Daemonic]
         /\ \A d \in Daemons : Asked[d].pc = daemon[d].pc /\ Asked[d].by = daemon[d].by
BY DEF WType, Asked, Daemonic

\* A new daemon takes a free slot.
LEMMA FreeDaemons ==
  ASSUME WType, NEW d \in Daemons, NEW kind \in {"cc", "zc"}, Free(d, kind)
  PROVE  /\ daemon' \in [Daemons -> Daemonic]
         /\ daemon[d].pc = "none" /\ daemon'[d].pc = "starting"
         /\ \A e \in Daemons \ {d} : daemon'[e] = daemon[e]
<1> DEFINE new == [[NoDaemon EXCEPT !.kind = kind] EXCEPT !.pc = "starting"]
<1>1. daemon[d] = NoDaemon /\ daemon' = [daemon EXCEPT ![d] = new]
  BY DEF Free, WType
<1>2. new \in Daemonic /\ new.pc = "starting"
  BY DEF NoDaemon, Daemonic
<1> HIDE DEF new
<1>3. QED  BY <1>1, <1>2 DEF WType, NoDaemon

\* A step in which no daemon comes to serve, is killed or leaves, and that
\* leaves the windows alone; the port is taken, or given up by another program.
LEMMA PlainStep ==
  ASSUME WInv, UNCHANGED windows, excused' \in BOOLEAN, excused => excused',
         daemon' \in [Daemons -> Daemonic],
         \A d \in Daemons :
           \/ daemon'[d].pc = daemon[d].pc /\ daemon'[d].by = daemon[d].by
           \/ daemon[d].pc = "none" /\ daemon'[d].pc = "starting",
         \/ port' = port
         \/ port = Nobody /\ port' # Nobody
         \/ port \notin Daemons /\ excused'
  PROVE  WInv'
<1>1. UNCHANGED <<open, hook, sidOf, live, unlisted>>
  BY DEF windows
<1>2. WType'  BY <1>1 DEF WInv, WType
<1>3. PortOfOne'  BY WebAssumption DEF WInv, PortOfOne
<1>4. KilledFor'  BY <1>1 DEF WInv, KilledFor
<1>5. Listed'  BY <1>1 DEF WInv, Listed
<1>6. WindowsServed'
  <2>1. \A d \in Daemons : daemon[d].pc = "starting" => daemon'[d].pc = "starting"
    OBVIOUS
  <2>2. port # Nobody => port' # Nobody \/ excused'
    OBVIOUS
  <2>3. QED  BY <1>1, <2>1, <2>2 DEF WInv, WindowsServed
<1>7. QED  BY <1>2, <1>3, <1>4, <1>5, <1>6 DEF WInv

\* The daemon that has the port leaves; the files of dead windows may be swept.
LEMMA LeaveStep ==
  ASSUME WInv, NEW d \in Daemons, NEW unlinks, Leave(d, unlinks),
         daemon[d].pc \in {"serving", "closing"},
         UNCHANGED <<open, hook, sidOf, unlisted>>,
         live' \in [Sids -> Windows \cup {Nobody}],
         \A s \in Sids : live[s] \in open => live'[s] = live[s],
         excused' \in BOOLEAN,
         (\E w \in open : hook[w] = "off") => excused' \/ \E w \in open : hook[w] # "off"
  PROVE  WInv'
<1>1. NoDaemon \in Daemonic /\ NoDaemon.pc = "none"
  BY DEF NoDaemon, Daemonic
<1>2. daemon' \in [Daemons -> Daemonic] /\ daemon'[d].pc = "none"
      /\ \A e \in Daemons \ {d} : daemon'[e] = daemon[e]
  BY <1>1 DEF WInv, WType, Leave
<1>3. \A e \in Daemons \ {d} : daemon[e].pc \notin {"serving", "closing"}
  BY DEF WInv, PortOfOne
<1>4. PortOfOne' /\ KilledFor'
  BY <1>2, <1>3 DEF PortOfOne, KilledFor
<1>5. WType'  BY <1>2 DEF WInv, WType
<1>6. Listed'
  <2> SUFFICES ASSUME NEW w \in open, hook[w] = "off", w \notin unlisted
               PROVE  live'[sidOf[w]] = w
    BY DEF Listed
  <2>1. live[sidOf[w]] = w /\ sidOf[w] \in Sids
    BY DEF WInv, Listed, WType
  <2>2. QED  BY <2>1
<1>7. WindowsServed'  BY DEF WindowsServed
<1>8. QED  BY <1>4, <1>5, <1>6, <1>7 DEF WInv

\* A daemon that starts gets the port or ends.
LEMMA ListenStep ==
  ASSUME WInv, NEW d \in Daemons, Listen(d)
  PROVE  WInv'
<1>1. UNCHANGED <<open, hook, sidOf, live, unlisted>> /\ d # Nobody
  BY WebAssumption DEF Listen, windows
<1>2. CASE port = Nobody
  <2>1. port' = d /\ daemon' = [daemon EXCEPT ![d].pc = "serving"] /\ excused' = FALSE
    BY <1>2 DEF Listen
  <2>2. \A e \in Daemons : daemon[e].pc \notin {"serving", "closing"}
    BY <1>2, WebAssumption DEF WInv, PortOfOne
  <2>3. daemon' \in [Daemons -> Daemonic] /\ daemon'[d].pc = "serving"
        /\ \A e \in Daemons \ {d} : daemon'[e] = daemon[e]
    <3> DEFINE new == [daemon[d] EXCEPT !.pc = "serving"]
    <3>1. new \in Daemonic /\ new.pc = "serving"  BY DEF WInv, WType, Daemonic
    <3>2. daemon' = [daemon EXCEPT ![d] = new]  BY <2>1
    <3> HIDE DEF new
    <3>3. QED  BY <3>1, <3>2 DEF WInv, WType
  <2>4. PortOfOne' /\ KilledFor'  BY <2>1, <2>2, <2>3 DEF PortOfOne, KilledFor
  <2>5. WType' /\ Listed'  BY <1>1, <2>1, <2>3 DEF WInv, WType, Listed
  <2>6. WindowsServed'  BY <1>1, <2>1 DEF WindowsServed
  <2>7. QED  BY <2>4, <2>5, <2>6 DEF WInv
<1>3. CASE port # Nobody
  <2>1. daemon' = [daemon EXCEPT ![d] = NoDaemon] /\ UNCHANGED <<port, excused>>
    BY <1>3 DEF Listen
  <2>2. daemon' \in [Daemons -> Daemonic] /\ daemon'[d].pc = "none"
        /\ \A e \in Daemons \ {d} : daemon'[e] = daemon[e]
    <3>1. NoDaemon \in Daemonic /\ NoDaemon.pc = "none"  BY DEF NoDaemon, Daemonic
    <3>2. QED  BY <2>1, <3>1 DEF WInv, WType
  <2>3. PortOfOne' /\ KilledFor'  BY <1>1, <2>1, <2>2 DEF WInv, PortOfOne, KilledFor
  <2>4. WType' /\ Listed'  BY <1>1, <2>1, <2>2 DEF WInv, WType, Listed
  <2>5. WindowsServed'  BY <1>3, <2>1 DEF WindowsServed
  <2>6. QED  BY <2>3, <2>4, <2>5 DEF WInv
<1>4. QED  BY <1>2, <1>3

\* The watchdog of Claude Code's daemon counts whom a .live file names: with
\* a window that should have one it stays.
LEMMA WatchdogStep ==
  ASSUME WInv, NEW d \in Daemons, Watchdog(d)
  PROVE  WInv'
<1>1. /\ UNCHANGED <<open, hook, sidOf, unlisted>> /\ daemon[d].pc = "serving"
      /\ live' = [s \in Sids |-> IF s \in Alive THEN live[s] ELSE Nobody]
  BY DEF Watchdog
<1>2. /\ live' \in [Sids -> Windows \cup {Nobody}]
      /\ \A s \in Sids : live[s] \in open => live'[s] = live[s]
  BY <1>1 DEF WInv, WType, Alive
<1>3. ASSUME Leave(d, TRUE), Alive = {},
             excused' = \A w \in open : w \in unlisted \/ hook[w] # "off"
      PROVE  WInv'
  <2>1. ASSUME NEW w \in open, w \notin unlisted, hook[w] = "off"  PROVE FALSE
    <3>1. live[sidOf[w]] = w /\ sidOf[w] \in Sids
      BY <2>1 DEF WInv, Listed, WType
    <3>2. QED  BY <1>3, <3>1 DEF Alive
  <2>2. excused' = TRUE  BY <1>3, <2>1
  <2>3. QED  BY <1>1, <1>2, <1>3, <2>2, LeaveStep
<1>4. ASSUME NEW z \in BOOLEAN, daemon' = [daemon EXCEPT ![d].zero = z],
             UNCHANGED <<port, excused>>
      PROVE  WInv'
  <2>1. daemon' \in [Daemons -> Daemonic]
        /\ \A e \in Daemons : daemon'[e].pc = daemon[e].pc /\ daemon'[e].by = daemon[e].by
    BY <1>4 DEF WInv, WType, Daemonic
  <2>2. WType'  BY <1>1, <1>2, <1>4, <2>1 DEF WInv, WType
  <2>3. PortOfOne' /\ KilledFor'
    BY <1>1, <1>4, <2>1 DEF WInv, PortOfOne, KilledFor
  <2>4. Listed'
    <3> SUFFICES ASSUME NEW w \in open, hook[w] = "off", w \notin unlisted
                 PROVE  live'[sidOf[w]] = w
      BY <1>1 DEF Listed
    <3>1. live[sidOf[w]] = w /\ sidOf[w] \in Sids
      BY DEF WInv, Listed, WType
    <3>2. QED  BY <1>2, <3>1
  <2>5. WindowsServed'  BY <1>1, <1>4, <2>1 DEF WInv, WindowsServed
  <2>6. QED  BY <2>2, <2>3, <2>4, <2>5 DEF WInv
<1>5. CASE Alive # {} \/ ~daemon[d].idle  BY <1>4, <1>5 DEF Watchdog
<1>6. CASE ~(Alive # {} \/ ~daemon[d].idle) /\ ~daemon[d].zero  BY <1>4, <1>6 DEF Watchdog
<1>7. CASE ~(Alive # {} \/ ~daemon[d].idle) /\ daemon[d].zero  BY <1>3, <1>7 DEF Watchdog
<1>8. QED  BY <1>5, <1>6, <1>7

\* A killed daemon ends while somebody waits for that.
LEMMA GoneStep ==
  ASSUME WInv, NEW d \in Daemons, NEW inOrder \in BOOLEAN, Gone(d, inOrder)
  PROVE  WInv'
<1>1. /\ UNCHANGED <<open, hook, sidOf, live, unlisted, excused>> /\ daemon[d].pc = "closing"
      /\ Leave(d, inOrder /\ daemon[d].kind = "cc")
  BY DEF Gone, windows
<1>2. excused \/ \E w \in open : hook[w] # "off"
  BY <1>1 DEF WInv, KilledFor
<1>3. live' \in [Sids -> Windows \cup {Nobody}] /\ excused' \in BOOLEAN
  BY <1>1 DEF WInv, WType
<1>4. QED  BY <1>1, <1>2, <1>3, LeaveStep

\* An idle daemon of ZCode ends by itself, which is an excuse.
LEMMA IdleExitStep ==
  ASSUME WInv, NEW d \in Daemons, IdleExit(d)
  PROVE  WInv'
<1>1. /\ UNCHANGED <<open, hook, sidOf, live, unlisted>> /\ daemon[d].pc = "serving"
      /\ Leave(d, FALSE) /\ excused' = TRUE
  BY DEF IdleExit, windows
<1>2. live' \in [Sids -> Windows \cup {Nobody}]
  BY <1>1 DEF WInv, WType
<1>3. QED  BY <1>1, <1>2, LeaveStep

-----------------------------------------------------------------------------
\* The file of a session changes hands: who had it is unlisted from then on.
LEMMA HandsOver ==
  ASSUME WType, Listed, NEW w \in Windows, NEW x \in {w, Nobody},
         live' = [live EXCEPT ![sidOf[w]] = x],
         unlisted' = (unlisted \cup ({live[sidOf[w]]} \cap open)) \ {w},
         NEW v \in open, v # w, hook[v] = "off", sidOf'[v] = sidOf[v]
  PROVE  v \in unlisted' \/ live'[sidOf'[v]] = v
<1>1. v \in unlisted \/ live[sidOf[v]] = v  BY DEF Listed
<1>2. sidOf[v] \in Sids /\ sidOf[w] \in Sids  BY DEF WType
<1>3. CASE sidOf[v] = sidOf[w]  BY <1>1, <1>3
<1>4. CASE sidOf[v] # sidOf[w]  BY <1>1, <1>2, <1>4 DEF WType
<1>5. QED  BY <1>3, <1>4

\* What SessionStart kills first is killed for its window.
LEMMA KillStaleDaemons ==
  ASSUME WType, PortOfOne, KilledFor, NEW w \in Windows, KillStale(w), w \in open',
         open \subseteq open', port' = port, excused' = excused
  PROVE  /\ daemon' \in [Daemons -> Daemonic] /\ PortOfOne' /\ KilledFor'
         /\ hook' \in [Windows -> {"off", "wait"}]
         /\ \A d \in Daemons : daemon[d].pc = "starting" => daemon'[d].pc = "starting"
<1>1. hook' = [hook EXCEPT ![w] = "wait"]
      /\ daemon' = [d \in Daemons |->
           IF d \in {port, pidFile} /\ daemon[d].pc \in {"serving", "closing"}
           THEN [daemon[d] EXCEPT !.pc = "closing", !.by = @ \cup {w}] ELSE daemon[d]]
  BY DEF KillStale
<1>2. ASSUME NEW d \in Daemons
      PROVE  /\ daemon'[d] \in Daemonic
             /\ \/ daemon'[d] = daemon[d]
                \/ /\ daemon[d].pc \in {"serving", "closing"} /\ daemon'[d].pc = "closing"
                   /\ w \in daemon'[d].by
  <2> DEFINE new == [daemon[d] EXCEPT !.pc = "closing", !.by = @ \cup {w}]
  <2>1. daemon[d] \in Daemonic  BY DEF WType
  <2>2. new \in Daemonic /\ new.pc = "closing" /\ w \in new.by
    BY <2>1 DEF Daemonic
  <2>3. daemon'[d] = IF d \in {port, pidFile} /\ daemon[d].pc \in {"serving", "closing"}
                     THEN new ELSE daemon[d]
    BY <1>1
  <2> HIDE DEF new
  <2>4. QED  BY <2>1, <2>2, <2>3
<1>3. daemon' \in [Daemons -> Daemonic]
  BY <1>1, <1>2
<1>4. PortOfOne'  BY <1>2 DEF PortOfOne
<1>5. hook' \in [Windows -> {"off", "wait"}] /\ hook'[w] = "wait"
      /\ \A v \in Windows : hook[v] = "wait" => hook'[v] = "wait"
  BY <1>1 DEF WType
<1>6. KilledFor'
  <2> SUFFICES ASSUME NEW d \in Daemons, daemon'[d].pc = "closing", ~excused
               PROVE  \E v \in daemon'[d].by : v \in open' /\ hook'[v] = "wait"
    BY DEF KilledFor
  <2>1. CASE daemon'[d] = daemon[d]
    <3>1. PICK v \in daemon[d].by : v \in open /\ hook[v] = "wait"
      BY <2>1 DEF KilledFor
    <3>2. v \in Windows  BY <3>1 DEF WType
    <3>3. QED  BY <1>5, <2>1, <3>1, <3>2
  <2>2. CASE w \in daemon'[d].by  BY <1>5, <2>2
  <2>3. QED  BY <1>2, <2>1, <2>2
<1>7. QED  BY <1>2, <1>3, <1>4, <1>5, <1>6

\* A new window waits for what it has killed.
LEMMA OpenStep ==
  ASSUME WInv, NEW w \in Windows, NEW s \in SidsOf[w], OpenWindow(w, s)
  PROVE  WInv'
<1>1. /\ open' = open \cup {w} /\ sidOf' = [sidOf EXCEPT ![w] = s] /\ KillStale(w)
      /\ UNCHANGED <<port, live, unlisted, excused>>
  BY DEF OpenWindow
<1>2. /\ daemon' \in [Daemons -> Daemonic] /\ PortOfOne' /\ KilledFor'
      /\ hook' \in [Windows -> {"off", "wait"}]
  BY <1>1, KillStaleDaemons DEF WInv
<1>3. hook' = [hook EXCEPT ![w] = "wait"] /\ hook'[w] = "wait"
  BY <1>1 DEF KillStale, WInv, WType
<1>4. s \in Sids  BY WebAssumption
<1>5. WType'  BY <1>1, <1>2, <1>4 DEF WInv, WType
<1>6. Listed'
  <2> SUFFICES ASSUME NEW v \in open', hook'[v] = "off"
               PROVE  v \in unlisted \/ live[sidOf'[v]] = v
    BY <1>1 DEF Listed
  <2>1. v # w /\ v \in open /\ hook[v] = "off" /\ sidOf'[v] = sidOf[v]
    BY <1>1, <1>3 DEF WInv, WType
  <2>2. QED  BY <2>1 DEF WInv, Listed
<1>7. WindowsServed'  BY <1>1, <1>3 DEF WindowsServed
<1>8. QED  BY <1>2, <1>5, <1>6, <1>7 DEF WInv

\* A session that starts again leaves its .live file until it is through.
LEMMA RestartStep ==
  ASSUME WInv, NEW w \in Windows, NEW s \in SidsOf[w], Restart(w, s)
  PROVE  WInv'
<1>1. /\ w \in open /\ hook[w] = "off" /\ KillStale(w)
      /\ IF s = sidOf[w] THEN UNCHANGED <<live, unlisted>> ELSE RemoveLive(w)
      /\ sidOf' = [sidOf EXCEPT ![w] = s]
      /\ UNCHANGED <<port, open, excused>>
  BY DEF Restart
<1>2. /\ daemon' \in [Daemons -> Daemonic] /\ PortOfOne' /\ KilledFor'
      /\ hook' \in [Windows -> {"off", "wait"}]
  BY <1>1, KillStaleDaemons DEF WInv
<1>3. hook' = [hook EXCEPT ![w] = "wait"] /\ hook'[w] = "wait"
  BY <1>1 DEF KillStale, WInv, WType
<1>4. s \in Sids  BY WebAssumption
<1>5. live' \in [Sids -> Windows \cup {Nobody}]
  BY <1>1 DEF WInv, WType, RemoveLive
<1>6. WType'  BY <1>1, <1>2, <1>4, <1>5 DEF WInv, WType
<1>7. Listed'
  <2> SUFFICES ASSUME NEW v \in open, hook'[v] = "off"
               PROVE  v \in unlisted' \/ live'[sidOf'[v]] = v
    BY <1>1 DEF Listed
  <2>1. v # w /\ hook[v] = "off" /\ sidOf'[v] = sidOf[v]
    BY <1>1, <1>3 DEF WInv, WType
  <2>2. CASE UNCHANGED <<live, unlisted>>  BY <2>1, <2>2 DEF WInv, Listed
  <2>3. CASE RemoveLive(w)
    BY <2>1, <2>3, HandsOver DEF WInv, RemoveLive
  <2>4. QED  BY <1>1, <2>2, <2>3
<1>8. WindowsServed'  BY <1>1, <1>3 DEF WindowsServed
<1>9. QED  BY <1>2, <1>6, <1>7, <1>8 DEF WInv

\* A window that is closed while it waits is an excuse.
LEMMA CloseStep ==
  ASSUME WInv, NEW w \in Windows, NEW inOrder \in BOOLEAN, CloseWindow(w, inOrder)
  PROVE  WInv'
<1>1. /\ w \in open /\ open' = open \ {w} /\ hook' = [hook EXCEPT ![w] = "off"]
      /\ IF inOrder THEN RemoveLive(w) ELSE unlisted' = unlisted \ {w} /\ UNCHANGED live
      /\ sidOf' = [sidOf EXCEPT ![w] = FirstSid(w)]
      /\ excused' = (excused \/ hook[w] # "off")
      /\ UNCHANGED <<port, daemon>>
  BY DEF CloseWindow, daemons
<1>2. FirstSid(w) \in Sids
  <2>1. FirstSid(w) \in SidsOf[w]  BY WebAssumption DEF FirstSid
  <2>2. QED  BY <2>1, WebAssumption
<1>3. live' \in [Sids -> Windows \cup {Nobody}]
  BY <1>1 DEF WInv, WType, RemoveLive
<1>4. WType'  BY <1>1, <1>2, <1>3 DEF WInv, WType
<1>5. PortOfOne'  BY <1>1 DEF WInv, PortOfOne
<1>6. KilledFor'
  <2> SUFFICES ASSUME NEW d \in Daemons, daemon[d].pc = "closing", ~excused'
               PROVE  \E v \in daemon[d].by : v \in open' /\ hook'[v] = "wait"
    BY <1>1 DEF KilledFor
  <2>1. PICK v \in daemon[d].by : v \in open /\ hook[v] = "wait"
    BY <1>1 DEF WInv, KilledFor
  <2>2. v # w /\ v \in Windows  BY <1>1, <2>1 DEF WInv, WType
  <2>3. QED  BY <1>1, <2>1, <2>2 DEF WInv, WType
<1>7. Listed'
  <2> SUFFICES ASSUME NEW v \in open', hook'[v] = "off"
               PROVE  v \in unlisted' \/ live'[sidOf'[v]] = v
    BY DEF Listed
  <2>1. v # w /\ v \in open /\ hook[v] = "off" /\ sidOf'[v] = sidOf[v]
    BY <1>1 DEF WInv, WType
  <2>2. CASE inOrder
    BY <1>1, <2>1, <2>2, HandsOver DEF WInv, RemoveLive
  <2>3. CASE ~inOrder  BY <1>1, <2>1, <2>3 DEF WInv, Listed
  <2>4. QED  BY <2>2, <2>3
<1>8. WindowsServed'
  <2> SUFFICES ASSUME NEW v \in open', hook'[v] = "off", port = Nobody, ~excused',
                      \A d \in Daemons : daemon[d].pc # "starting",
                      \A u \in open' : hook'[u] = "off"
               PROVE  FALSE
    BY <1>1 DEF WindowsServed
  <2>1. v \in open /\ hook[v] = "off" /\ hook[w] = "off" /\ ~excused
    BY <1>1 DEF WInv, WType
  <2>2. PICK u \in open : hook[u] # "off"  BY <1>1, <2>1 DEF WInv, WindowsServed
  <2>3. QED  BY <1>1, <2>1, <2>2 DEF WInv, WType
<1>9. QED  BY <1>4, <1>5, <1>6, <1>7, <1>8 DEF WInv

\* A hook that dies leaves its window unlisted, which is an excuse.
LEMMA HookDiesStep ==
  ASSUME WInv, NEW w \in Windows, HookDies(w)
  PROVE  WInv'
<1>1. /\ hook' = [hook EXCEPT ![w] = "off"] /\ unlisted' = unlisted \cup {w} /\ excused' = TRUE
      /\ UNCHANGED <<port, daemon, open, sidOf, live>>
  BY DEF HookDies, daemons
<1>2. WType'  BY <1>1 DEF WInv, WType
<1>3. PortOfOne' /\ KilledFor' /\ WindowsServed'
  BY <1>1 DEF WInv, PortOfOne, KilledFor, WindowsServed
<1>4. Listed'  BY <1>1 DEF WInv, WType, Listed
<1>5. QED  BY <1>2, <1>3, <1>4 DEF WInv

\* A window that waits for no killed daemon starts its own.
LEMMA SpawnStep ==
  ASSUME WInv, NEW w \in Windows, Spawn(w)
  PROVE  WInv'
<1>1. /\ hook[w] = "wait" /\ Waited(w) /\ hook' = [hook EXCEPT ![w] = "off"] /\ WriteLive(w)
      /\ UNCHANGED <<port, open, sidOf, excused>>
  BY DEF Spawn
<1>2. PICK d \in Daemons : Free(d, "cc")  BY DEF Spawn
<1>3. /\ daemon' \in [Daemons -> Daemonic]
      /\ daemon[d].pc = "none" /\ daemon'[d].pc = "starting"
      /\ \A e \in Daemons \ {d} : daemon'[e] = daemon[e]
  BY <1>2, FreeDaemons DEF WInv
<1>4. live' \in [Sids -> Windows \cup {Nobody}]
  BY <1>1 DEF WInv, WType, WriteLive
<1>5. WType'  BY <1>1, <1>3, <1>4 DEF WInv, WType
<1>6. PortOfOne'  BY <1>1, <1>3 DEF WInv, PortOfOne
<1>7. KilledFor'
  <2> SUFFICES ASSUME NEW e \in Daemons, daemon'[e].pc = "closing", ~excused
               PROVE  \E v \in daemon'[e].by : v \in open /\ hook'[v] = "wait"
    BY <1>1 DEF KilledFor
  <2>1. daemon'[e] = daemon[e]  BY <1>3
  <2>2. PICK v \in daemon[e].by : v \in open /\ hook[v] = "wait"
    BY <2>1 DEF WInv, KilledFor
  <2>3. v # w /\ v \in Windows  BY <1>1, <2>2 DEF Waited, WInv, WType
  <2>4. QED  BY <1>1, <2>1, <2>2, <2>3 DEF WInv, WType
<1>8. Listed'
  <2> SUFFICES ASSUME NEW v \in open, hook'[v] = "off"
               PROVE  v \in unlisted' \/ live'[sidOf[v]] = v
    BY <1>1 DEF Listed
  <2>1. CASE v = w  BY <1>1, <2>1 DEF WriteLive, WInv, WType
  <2>2. CASE v # w
    <3>1. hook[v] = "off"  BY <1>1, <2>2 DEF WInv, WType
    <3>2. QED  BY <1>1, <2>2, <3>1, HandsOver DEF WInv, WriteLive
  <2>3. QED  BY <2>1, <2>2
<1>9. WindowsServed'  BY <1>3 DEF WindowsServed
<1>10. QED  BY <1>5, <1>6, <1>7, <1>8, <1>9 DEF WInv

-----------------------------------------------------------------------------
\* The steps of opencode, of ZCode and of the browser.
LEMMA OtherSteps ==
  ASSUME WInv,
         \/ \E o \in OCs : OcStart(o) \/ OcStep(o) \/ OcExit(o)
         \/ \E d \in Daemons : FallIdle(d)
         \/ ZcodeTurn \/ Browse \/ ForeignLeaves
  PROVE  WInv'
<1>0. WType /\ excused \in BOOLEAN /\ daemon \in [Daemons -> Daemonic]  BY DEF WInv, WType
<1>1. ASSUME daemon' = Asked, UNCHANGED <<port, windows, excused>>  PROVE WInv'
  BY <1>0, <1>1, AskedDaemons, PlainStep
<1>2. ASSUME NEW o \in OCs, OcStart(o) \/ Tick(o) \/ Jitter(o)  PROVE WInv'
  BY <1>1, <1>2 DEF OcStart, Tick, Jitter
<1>3. ASSUME NEW o \in OCs, Bind(o)  PROVE WInv'
  <2>1. UNCHANGED <<daemon, windows, excused>>  BY <1>3 DEF Bind, daemons
  <2>2. port' = port \/ (port = Nobody /\ port' = o)  BY <1>3 DEF Bind
  <2>3. QED  BY <1>0, <2>1, <2>2, PlainStep, WebAssumption
<1>4. ASSUME NEW o \in OCs, OcExit(o)  PROVE WInv'
  <2>1. UNCHANGED <<daemon, windows>>  BY <1>4 DEF OcExit, daemons
  <2>2. \/ port' = port /\ excused' = excused
        \/ port = o /\ excused' = TRUE
    BY <1>4 DEF OcExit
  <2>3. QED  BY <1>0, <2>1, <2>2, PlainStep, WebAssumption
<1>5. ASSUME NEW d \in Daemons, FallIdle(d)  PROVE WInv'
  <2>1. UNCHANGED <<port, windows, excused>> /\ daemon' = [daemon EXCEPT ![d].idle = TRUE]
    BY <1>5 DEF FallIdle
  <2>2. daemon' \in [Daemons -> Daemonic]
        /\ \A e \in Daemons : daemon'[e].pc = daemon[e].pc /\ daemon'[e].by = daemon[e].by
    BY <1>0, <2>1 DEF Daemonic
  <2>3. QED  BY <1>0, <2>1, <2>2, PlainStep
<1>6. CASE ZcodeTurn
  <2>1. UNCHANGED <<port, windows, excused>>  BY <1>6 DEF ZcodeTurn
  <2>2. CASE daemon' = Asked  BY <1>1, <2>1, <2>2
  <2>3. ASSUME NEW d \in Daemons, Free(d, "zc")  PROVE WInv'
    <3>1. /\ daemon' \in [Daemons -> Daemonic]
          /\ daemon[d].pc = "none" /\ daemon'[d].pc = "starting"
          /\ \A e \in Daemons \ {d} : daemon'[e] = daemon[e]
      BY <1>0, <2>3, FreeDaemons
    <3>2. QED  BY <1>0, <2>1, <3>1, PlainStep
  <2>4. QED  BY <1>6, <2>2, <2>3 DEF ZcodeTurn
<1>7. CASE Browse  BY <1>1, <1>7 DEF Browse
<1>8. CASE ForeignLeaves
  <2>1. UNCHANGED <<daemon, windows>> /\ port = Foreign /\ excused' = TRUE
    BY <1>8 DEF ForeignLeaves, daemons
  <2>2. QED  BY <1>0, <2>1, PlainStep, WebAssumption
<1>9. QED  BY <1>2, <1>3, <1>4, <1>5, <1>6, <1>7, <1>8 DEF OcStep

\* Whatever is killed, started, cleared, closed or left alone, and however
\* many processes and windows there are, a window of Claude Code whose
\* SessionStart is over is served, is about to be, or the last to serve left
\* of its own accord while no .live file should have stood for a window.
THEOREM ServedWindows == WSpec => []WindowsServed
<1>1. WInit => WInv
  <2> SUFFICES ASSUME WInit  PROVE WInv
    OBVIOUS
  <2>1. \A w \in Windows : FirstSid(w) \in Sids
    <3>1. \A w \in Windows : FirstSid(w) \in SidsOf[w]  BY WebAssumption DEF FirstSid
    <3>2. QED  BY <3>1, WebAssumption
  <2>2. NoDaemon \in Daemonic /\ NoDaemon.pc = "none"  BY DEF NoDaemon, Daemonic
  <2>3. WType  BY <2>1, <2>2 DEF WInit, WType
  <2>4. PortOfOne /\ KilledFor  BY <2>2 DEF WInit, PortOfOne, KilledFor
  <2>5. Listed /\ WindowsServed  BY DEF WInit, Listed, WindowsServed
  <2>6. QED  BY <2>3, <2>4, <2>5 DEF WInv
<1>2. WInv /\ [WNext]_wvars => WInv'
  <2> SUFFICES ASSUME WInv, [WNext]_wvars  PROVE WInv'
    OBVIOUS
  <2>1. CASE UNCHANGED wvars
    BY <2>1, PlainStep DEF wvars, daemons, WInv, WType
  <2>2. ASSUME NEW d \in Daemons, DaemonStep(d)  PROVE WInv'
    BY <2>2, ListenStep, WatchdogStep, IdleExitStep, GoneStep DEF DaemonStep
  <2>3. CASE WNext
    BY <2>2, <2>3, OpenStep, RestartStep, CloseStep, HookDiesStep, SpawnStep, OtherSteps DEF WNext
  <2>4. QED  BY <2>1, <2>3
<1>3. WInv => WindowsServed  BY DEF WInv
<1>4. QED  BY <1>1, <1>2, <1>3, PTL DEF WSpec

-----------------------------------------------------------------------------
(***************************************************************************)
(* The updater: the lock file keeps two installations apart until a lock   *)
(* is taken from a process that is installing.                             *)
(***************************************************************************)

UType ==
  /\ installed \in [Files -> Nat] /\ published \in Nat
  /\ lock \in [by : Updaters \cup {NoLock}, old : BOOLEAN]
  /\ updater \in [Updaters -> [pc : {"off", "stat", "unlink", "open"} \cup Installing,
                               got : Nat, left : SUBSET Files]]
  /\ breaks \in Nat /\ halved \in BOOLEAN /\ robbed \in BOOLEAN

\* The lock is of who installs.
LockHeld == ~robbed => \A u \in Updaters : updater[u].pc \in Installing => lock.by = u

\* What an installation has unpacked is of the version it fetched.
Unpacked ==
  ~robbed =>
    \A u \in Updaters : updater[u].pc = "unpack" =>
      \A f \in Files \ updater[u].left : installed[f] = updater[u].got

UInv == UType /\ LockHeld /\ Unpacked /\ OneVersion

-----------------------------------------------------------------------------
\* What To and Unpack make of the record of a process.
LEMMA ToRecord ==
  ASSUME UType, NEW u \in Updaters, NEW at, To(u, at)
  PROVE  updater' = [updater EXCEPT ![u] =
                       [pc |-> at, got |-> updater[u].got, left |-> updater[u].left]]
<1>1. [updater[u] EXCEPT !.pc = at] = [pc |-> at, got |-> updater[u].got, left |-> updater[u].left]
  BY DEF UType
<1>2. updater' = [updater EXCEPT ![u] = [updater[u] EXCEPT !.pc = at]]
  BY DEF UType, To
<1>3. QED  BY <1>1, <1>2

\* What unpacking a file makes of the record of its process.
LEMMA UnpackRecord ==
  ASSUME UType, NEW u \in Updaters, NEW f \in Files, Unpack(u, f)
  PROVE  updater' = [updater EXCEPT ![u] =
                       [pc   |-> IF updater[u].left = {f} THEN "release" ELSE "unpack",
                        got  |-> updater[u].got,
                        left |-> updater[u].left \ {f}]]
<1> DEFINE at   == IF updater[u].left = {f} THEN "release" ELSE "unpack"
           left == updater[u].left \ {f}
<1>1. [[updater[u] EXCEPT !.left = left] EXCEPT !.pc = at]
        = [pc |-> at, got |-> updater[u].got, left |-> left]
  <2>1. PICK a, b, c : updater[u] = [pc |-> a, got |-> b, left |-> c]
    BY DEF UType
  <2>2. [updater[u] EXCEPT !.left = left] = [pc |-> a, got |-> b, left |-> left]
    BY <2>1
  <2>3. \A x, y : [[pc |-> a, got |-> b, left |-> x] EXCEPT !.pc = y]
                    = [pc |-> y, got |-> b, left |-> x]
    OBVIOUS
  <2>4. updater[u].got = b
    BY <2>1
  <2> HIDE DEF at, left
  <2>5. QED
    BY <2>2, <2>3, <2>4
<1>2. updater' = [updater EXCEPT ![u] = [[updater[u] EXCEPT !.left = left] EXCEPT !.pc = at]]
  <2>1. updater' = [[updater EXCEPT ![u].left = left] EXCEPT ![u].pc = at]
    BY DEF Unpack
  <2>2. QED
    BY <2>1 DEF UType
<1>3. QED  BY <1>1, <1>2

\* Types of a process's step.
LEMMA StepType ==
  ASSUME UType, NEW u \in Updaters,
         \/ CheckVersion(u) \/ StatLock(u) \/ UnlinkLock(u) \/ OpenLock(u) \/ Pack(u)
         \/ \E f \in Files : Unpack(u, f)
         \/ InstallFails(u) \/ ReleaseLock(u) \/ DieUpdating(u)
  PROVE  UType'
<1>1. ASSUME CheckVersion(u) \/ StatLock(u) \/ UnlinkLock(u) \/ OpenLock(u)  PROVE UType'
  <2>1. \E at \in {"off", "stat", "unlink", "open", "pack"} : To(u, at)
    BY <1>1 DEF CheckVersion, StatLock, UnlinkLock, OpenLock
  <2>2. updater' \in [Updaters -> [pc : {"off", "stat", "unlink", "open"} \cup Installing,
                                   got : Nat, left : SUBSET Files]]
    BY <2>1, ToRecord DEF UType, Installing
  <2>3. UNCHANGED <<installed, published, breaks, halved>> /\ robbed' \in BOOLEAN
    BY <1>1 DEF trouble, UType, CheckVersion, StatLock, UnlinkLock, OpenLock
  <2>4. lock' \in {lock, [by |-> NoLock, old |-> FALSE], [by |-> u, old |-> FALSE]}
    BY <1>1 DEF CheckVersion, StatLock, UnlinkLock, OpenLock
  <2>5. lock' \in [by : Updaters \cup {NoLock}, old : BOOLEAN]
    <3>1. [by |-> u, old |-> FALSE] \in [by : Updaters \cup {NoLock}, old : BOOLEAN]
      OBVIOUS
    <3>2. [by |-> NoLock, old |-> FALSE] \in [by : Updaters \cup {NoLock}, old : BOOLEAN]
      OBVIOUS
    <3>3. QED  BY <2>4, <3>1, <3>2 DEF UType
  <2>6. QED  BY <2>2, <2>3, <2>5 DEF UType
<1>2. ASSUME Pack(u)  PROVE UType'
  BY <1>2 DEF UType, Installing, Pack, trouble
<1>3. ASSUME NEW f \in Files, Unpack(u, f)  PROVE UType'
  <2>1. updater[u] \in [pc : {"off", "stat", "unlink", "open"} \cup Installing,
                        got : Nat, left : SUBSET Files]
    BY DEF UType
  <2>2. updater' \in [Updaters -> [pc : {"off", "stat", "unlink", "open"} \cup Installing,
                                   got : Nat, left : SUBSET Files]]
    BY <1>3, <2>1, UnpackRecord DEF UType, Installing
  <2>3. QED
    BY <1>3, <2>1, <2>2 DEF UType, Unpack
<1>4. ASSUME InstallFails(u) \/ DieUpdating(u)  PROVE UType'
  <2>1. halved' \in BOOLEAN /\ robbed' = robbed
    BY <1>4 DEF InstallFails, DieUpdating, Break
  <2>2. /\ updater' \in [Updaters -> [pc : {"off", "stat", "unlink", "open"} \cup Installing,
                                       got : Nat, left : SUBSET Files]]
        /\ breaks' \in Nat
    BY <1>4 DEF UType, Installing, InstallFails, DieUpdating, Break, To, Rest
  <2>3. QED  BY <1>4, <2>1, <2>2 DEF UType, InstallFails, DieUpdating
<1>5. ASSUME ReleaseLock(u)  PROVE UType'
  BY <1>5 DEF UType, Installing, ReleaseLock, Rest, NoLock, trouble
<1>6. QED  BY <1>1, <1>2, <1>3, <1>4, <1>5

\* Two processes are never installing at once.
LEMMA InstallsAlone ==
  ASSUME UInv, ~robbed, NEW u \in Updaters, NEW v \in Updaters,
         updater[u].pc \in Installing, updater[v].pc \in Installing
  PROVE  u = v
BY DEF UInv, LockHeld

\* A death or a failed installation leaves the files as they are: halved, if it
\* was unpacking.
LEMMA BreakStep ==
  ASSUME UInv, UType', NEW u \in Updaters, InstallFails(u) \/ DieUpdating(u)
  PROVE  UInv'
<1> SUFFICES ASSUME ~robbed'  PROVE LockHeld' /\ Unpacked' /\ OneVersion'
  BY DEF UInv, LockHeld, Unpacked, OneVersion
<1>1. /\ ~robbed /\ UNCHANGED <<installed, lock>>
      /\ halved' = (halved \/ updater[u].pc = "unpack")
  BY DEF InstallFails, DieUpdating, Break
<1>2. /\ \A v \in Updaters \ {u} : updater'[v] = updater[v]
      /\ updater'[u].pc \in Installing => updater[u].pc \in Installing
      /\ updater'[u].pc # "unpack"
  <2>1. CASE InstallFails(u)
    BY <2>1 DEF InstallFails, To, UInv, UType, Installing
  <2>2. CASE DieUpdating(u)
    BY <2>2 DEF DieUpdating, Rest, UInv, UType, Installing
  <2>3. QED  BY <2>1, <2>2
<1>3. LockHeld' /\ Unpacked'
  BY <1>1, <1>2 DEF UInv, LockHeld, Unpacked
<1>4. OneVersion'
  <2> SUFFICES ASSUME ~halved', \A v \in Updaters : updater'[v].pc # "unpack"
               PROVE  \A f, g \in Files : installed[f] = installed[g]
    BY <1>1 DEF OneVersion
  <2>1. ~halved /\ \A v \in Updaters : updater[v].pc # "unpack"
    BY <1>1, <1>2
  <2>2. QED  BY <1>1, <2>1 DEF UInv, OneVersion
<1>5. QED  BY <1>3, <1>4

\* Before the lock is taken nothing is installed; the lock is taken alone.
LEMMA LockStep ==
  ASSUME UInv, UType', NEW u \in Updaters,
         CheckVersion(u) \/ StatLock(u) \/ UnlinkLock(u) \/ OpenLock(u) \/ ReleaseLock(u)
  PROVE  UInv'
<1> SUFFICES ASSUME ~robbed'  PROVE LockHeld' /\ Unpacked' /\ OneVersion'
  BY DEF UInv, LockHeld, Unpacked, OneVersion
<1>1. ~robbed /\ UNCHANGED <<installed, halved>>
  <2>1. CASE UnlinkLock(u)
    BY <2>1 DEF UnlinkLock
  <2>2. CASE CheckVersion(u) \/ StatLock(u) \/ OpenLock(u) \/ ReleaseLock(u)
    <3>1. UNCHANGED <<installed, trouble>>
      BY <2>2 DEF CheckVersion, StatLock, OpenLock, ReleaseLock
    <3>2. QED  BY <3>1 DEF trouble
  <2>3. QED  BY <2>1, <2>2
<1>2. /\ \A v \in Updaters \ {u} : updater'[v] = updater[v]
      /\ updater'[u].pc # "unpack" /\ updater[u].pc # "unpack"
  BY DEF UInv, UType, CheckVersion, StatLock, UnlinkLock, OpenLock, ReleaseLock, Rest, To
<1>3. LockHeld'
  <2>1. CASE CheckVersion(u) \/ StatLock(u)
    <3>1. lock' = lock /\ updater'[u].pc \notin Installing
      BY <2>1 DEF UInv, UType, CheckVersion, StatLock, To, Installing
    <3>2. QED  BY <1>1, <1>2, <3>1 DEF UInv, LockHeld
  <2>2. CASE UnlinkLock(u)
    <3>1. /\ updater'[u].pc \notin Installing
          /\ \A v \in Updaters : lock.by = v => updater[v].pc \notin Installing
      BY <2>2 DEF UInv, UType, UnlinkLock, To, Installing
    <3>2. \A v \in Updaters : updater[v].pc \notin Installing
      BY <1>1, <3>1 DEF UInv, LockHeld
    <3>3. QED  BY <1>2, <3>1, <3>2 DEF LockHeld
  <2>3. CASE OpenLock(u) /\ Exclusive(u)
    <3>1. lock'.by = u /\ \A v \in Updaters : updater[v].pc \notin Installing
      BY <1>1, <2>3, UpdaterAssumption DEF UInv, LockHeld, OpenLock, Exclusive
    <3>2. QED  BY <1>2, <3>1 DEF LockHeld
  <2>4. CASE OpenLock(u) /\ ~Exclusive(u)
    <3>1. lock' = lock /\ updater'[u].pc \notin Installing
      BY <2>4 DEF UInv, UType, OpenLock, To, Installing
    <3>2. QED  BY <1>1, <1>2, <3>1 DEF UInv, LockHeld
  <2>5. CASE ReleaseLock(u)
    <3>1. updater[u].pc \in Installing /\ updater'[u].pc \notin Installing
      BY <2>5 DEF UInv, UType, ReleaseLock, Rest, Installing
    <3>2. \A v \in Updaters \ {u} : updater[v].pc \notin Installing
      BY <1>1, <3>1, InstallsAlone
    <3>3. QED  BY <1>2, <3>1, <3>2 DEF LockHeld
  <2>6. QED  BY <2>1, <2>2, <2>3, <2>4, <2>5
<1>4. QED
  BY <1>1, <1>2, <1>3 DEF UInv, Unpacked, OneVersion

\* Who installs is alone: the last file makes all of them one version.
LEMMA UnpackStep ==
  ASSUME UInv, UType', NEW u \in Updaters, Pack(u) \/ \E f \in Files : Unpack(u, f)
  PROVE  UInv'
<1> SUFFICES ASSUME ~robbed'  PROVE LockHeld' /\ Unpacked' /\ OneVersion'
  BY DEF UInv, LockHeld, Unpacked, OneVersion
<1>1. ~robbed /\ UNCHANGED lock
  <2>1. UNCHANGED <<robbed, lock>>
    BY DEF trouble, Pack, Unpack
  <2>2. QED  BY <2>1
<1>2. /\ updater[u].pc \in Installing /\ updater'[u].pc \in Installing
      /\ \A v \in Updaters \ {u} : updater'[v] = updater[v]
  <2>1. CASE Pack(u)
    BY <2>1 DEF UInv, UType, Pack, Installing
  <2>2. ASSUME NEW f \in Files, Unpack(u, f)
        PROVE  /\ updater[u].pc \in Installing /\ updater'[u].pc \in Installing
               /\ \A v \in Updaters \ {u} : updater'[v] = updater[v]
    <3>1. updater[u].pc = "unpack"
      BY <2>2 DEF Unpack
    <3>2. QED
      BY <2>2, <3>1, UnpackRecord DEF UInv, UType, Installing
  <2>3. QED  BY <2>1, <2>2
<1>3. LockHeld' /\ \A v \in Updaters \ {u} : updater[v].pc # "unpack" /\ updater'[v] = updater[v]
  BY <1>1, <1>2 DEF UInv, LockHeld, Installing
<1>4. CASE Pack(u)
  BY <1>3, <1>4 DEF UInv, UType, Pack, Unpacked, OneVersion
<1>5. ASSUME NEW f \in Files, Unpack(u, f)  PROVE Unpacked' /\ OneVersion'
  <2>1. \A g \in Files \ (updater[u].left \ {f}) : installed'[g] = updater[u].got
    BY <1>1, <1>5 DEF UInv, UType, Unpack, Unpacked
  <2>2. updater'[u].got = updater[u].got /\ updater'[u].left = updater[u].left \ {f}
    BY <1>5, UnpackRecord DEF UInv, UType
  <2>3. updater'[u].pc # "unpack" => updater[u].left = {f}
    BY <1>5, UnpackRecord DEF UInv, UType
  <2>4. QED
    BY <1>3, <2>1, <2>2, <2>3 DEF Unpacked, OneVersion
<1>6. QED  BY <1>3, <1>4, <1>5

-----------------------------------------------------------------------------
\* Processes that update one installation leave files of one version, however
\* they overlap, die and take over old locks, unless an update stopped halfway or
\* a lock was taken from a process that was installing (updater.ts:86-114).
THEOREM VersionWhole == USpec => []OneVersion
<1>1. UInit => UInv
  <2> SUFFICES ASSUME UInit  PROVE UInv
    OBVIOUS
  <2>1. halved \in BOOLEAN /\ robbed \in BOOLEAN
    BY DEF UInit
  <2>2. \A u \in Updaters : updater[u].pc = "off"
    BY DEF UInit, Rest
  <2>3. UType
    BY <2>1, UpdaterAssumption DEF UInit, UType, Rest, Installing
  <2>4. LockHeld /\ Unpacked
    BY <2>2 DEF LockHeld, Unpacked, Installing
  <2>5. OneVersion
    BY DEF UInit, OneVersion
  <2>6. QED  BY <2>3, <2>4, <2>5 DEF UInv
<1>2. UInv /\ [UNext]_uvars => UInv'
  <2> SUFFICES ASSUME UInv, [UNext]_uvars  PROVE UInv'
    OBVIOUS
  <2>1. CASE Publish
    BY <2>1 DEF Publish, trouble, UInv, UType, LockHeld, Unpacked, OneVersion
  <2>2. CASE LockAges
    <3>1. UType' /\ lock'.by = lock.by /\ UNCHANGED <<installed, updater, trouble>>
      BY <2>2 DEF LockAges, UInv, UType, trouble
    <3>2. QED
      BY <3>1 DEF trouble, UInv, LockHeld, Unpacked, OneVersion
  <2>3. ASSUME NEW u \in Updaters,
               \/ CheckVersion(u) \/ StatLock(u) \/ UnlinkLock(u) \/ OpenLock(u) \/ Pack(u)
               \/ \E f \in Files : Unpack(u, f)
               \/ InstallFails(u) \/ ReleaseLock(u) \/ DieUpdating(u)
        PROVE  UInv'
    <3>1. UType'
      BY <2>3, StepType DEF UInv
    <3>2. QED
      BY <2>3, <3>1, BreakStep, LockStep, UnpackStep
  <2>4. CASE UNCHANGED uvars
    BY <2>4 DEF uvars, trouble, UInv, UType, LockHeld, Unpacked, OneVersion
  <2>5. QED  BY <2>1, <2>2, <2>3, <2>4 DEF UNext
<1>3. UInv => OneVersion
  BY DEF UInv
<1>4. QED
  BY <1>1, <1>2, <1>3, PTL DEF USpec

-----------------------------------------------------------------------------
(* The tools: the inductive invariant.                                      *)

\* A call is a record with these fields; its answer too.
IsCall(c) ==
  /\ c = [n |-> c.n, tool |-> c.tool, good |-> c.good, by |-> c.by, seen |-> c.seen,
          got |-> c.got, said |-> c.said, lost |-> c.lost]
  /\ c.n \in Nat /\ c.tool \in Offered /\ c.got \in {"", "value", "empty", "error"}

Calls == pending \cup adrift \cup answers

\* The numbers of the calls whose change was made, or is going to be.
Made == applied \cup accepted

ToolTypes ==
  /\ surface \in {"mcp", "openclaw", "opencode", "zcode"} /\ stdin \in {"open", "closed"}
  /\ \A c \in Calls : IsCall(c)
  /\ Made \subseteq Nat /\ stores \in Nat /\ excusedStores \in Nat
  /\ IsFiniteSet(pending) /\ IsFiniteSet(answers)

\* Calls are counted, and every call has its own number.
Numbered ==
  /\ stdin = "open" => (\A c \in Calls : c.n <= Called) /\ (\A n \in Made : n <= Called)
  /\ stdin = "closed" => pending = {}
  /\ \A c, d \in pending \cup adrift : c.n = d.n => c = d
  /\ \A c \in pending : c \notin adrift /\ \A r \in answers : r.n # c.n

\* What a call under way was served is what the server did for it.
ServedRight ==
  /\ \A c \in adrift : c.got = ""
  /\ \A c \in pending \cup adrift : c.got = "" => c.n \notin Made
  /\ \A c \in pending : c.n \in Made <=> c.got = "value" /\ c.tool \in Writes
  /\ \A c \in pending : c.got = "empty" => c.tool \in {"search", "list"}

\* An ingest is accepted before its memories are extracted, and only an ingest.
Ingesting ==
  /\ extracting \subseteq accepted
  /\ \A c \in Calls : (c.n \in accepted => c.tool = "ingest") /\ (c.tool = "ingest" /\ c.n \in applied => c.n \in accepted)

\* The server's answer never came.
Lost(r) == r.lost

\* The answer of a call that was given up says so, and is of the same call.
GivenUp ==
  \A a \in adrift : \A r \in answers : r.n = a.n => Lost(r) /\ r.tool = a.tool /\ r.by = a.by /\ r.seen = a.seen

\* The policy of the agent that a call was taken to be of allows it.
MayDo(c) ==
  \/ Policy(c.seen) = "readwrite"
  \/ Policy(c.seen) = "readonly" /\ c.tool \in Reads

Granted ==
  /\ surface = "opencode" => \A c \in pending \cup adrift : MayDo(c)
  /\ \A r \in answers : r.n \in Made => r.tool \in Writes /\ (surface = "opencode" => MayDo(r))

\* One store is under way at most, and none once one was said to be done; a
\* store that nothing excuses is one that is not told yet, or that one.
Storing ==
  /\ \A c, d \in pending : c.tool = "store" /\ d.tool = "store" => c = d
  /\ \A c \in pending, r \in answers : c.tool = "store" /\ r.tool = "store" => r.said # "done"
  /\ stores <= excusedStores + 1
  /\ \/ stores <= excusedStores
     \/ stdin = "closed"
     \/ \E c \in pending : c.tool = "store" /\ c.got = "value"
     \/ \E r \in answers : r.tool = "store" /\ r.said = "done"

ToolInv == ToolTypes /\ Numbered /\ ServedRight /\ Ingesting /\ GivenUp /\ Granted /\ Storing /\ ToldTruly

-----------------------------------------------------------------------------
(* What is said. *)

\* "done" is said of a change that was made, "nothing" of an empty answer, and
\* a change that was made is not said to have failed: but for OpenClaw, to
\* which an error looks like nothing at all.
LEMMA SaidTruly ==
  ASSUME surface \in {"mcp", "openclaw", "opencode", "zcode"}, NEW t \in Offered,
         NEW got \in {"value", "empty", "error"}, got = "empty" => t \in {"search", "list"}
  PROVE  /\ Said(t, got) = "done" => (got = "value" /\ t \in Writes) \/ (surface = "openclaw" /\ t = "delete")
         /\ Said(t, got) = "failed" => got # "value"
         /\ Said(t, got) = "nothing" => got = "empty" \/ surface = "openclaw"
         /\ t = "store" => (Said(t, got) = "done" <=> got = "value")
<1>1. CASE surface = "mcp"
  BY <1>1 DEF Said, Received, Thrown, Mcp, McpStoring, McpSearching, McpOne, McpReading, McpIngesting, McpSpaces,
     McpShares, Unless, Listed0, Offered, ToolNames, Reads, Writes
<1>2. CASE surface = "openclaw"
  BY <1>2 DEF Said, Received, Swallowed, Claw, ClawStoring, ClawReading, ClawChanging, ClawSpaces, ClawShares,
     Unless, Listed0, Offered, ToolNames, Reads, Writes
<1>3. CASE surface = "opencode"
  BY <1>3 DEF Said, Received, Thrown, Oc, OcStoring, OcReading, OcListing, OcUpdating, OcIngesting, OcStats, OcDeleting,
     OcSpaces, OcShares, Unless, Listed0, Offered, ToolNames, Reads, Writes
<1>4. CASE surface = "zcode"
  BY <1>4 DEF Said, Received, Thrown, Z, ZStoring, ZSearching, ZOne, ZReading, ZIngesting, ZSpaces, ZShares, Unless,
     Listed0, Offered, ToolNames, Reads, Writes
<1>5. QED  BY <1>1, <1>2, <1>3, <1>4

\* What is permitted may be done.
LEMMA PermittedMayDo ==
  ASSUME NEW t, NEW c, c.seen = cachedAgentName, c.tool = t, Permitted(t)
  PROVE  MayDo(c)
BY DEF Permitted, MayDo

\* The answer of a call is the call with what was said of it.
LEMMA ReplyIsOfCall ==
  ASSUME NEW c, IsCall(c), NEW said, NEW lost
  PROVE  /\ IsCall(Reply(c, said, lost))
         /\ Reply(c, said, lost).n = c.n /\ Reply(c, said, lost).tool = c.tool
         /\ Reply(c, said, lost).by = c.by /\ Reply(c, said, lost).seen = c.seen
         /\ Reply(c, said, lost).got = c.got
         /\ Reply(c, said, lost).said = said /\ Reply(c, said, lost).lost = lost
<1>1. PICK n, t, g, b, s, got, u, l : c = [n |-> n, tool |-> t, good |-> g, by |-> b, seen |-> s,
                                           got |-> got, said |-> u, lost |-> l]
  BY DEF IsCall
<1>2. PICK d : d = [c EXCEPT !.said = said]
  OBVIOUS
<1>3. d = [n |-> n, tool |-> t, good |-> g, by |-> b, seen |-> s, got |-> got, said |-> said, lost |-> l]
  BY <1>1, <1>2
<1>4. Reply(c, said, lost) = [d EXCEPT !.lost = lost]
  BY <1>2 DEF Reply
<1>5. [d EXCEPT !.lost = lost] =
      [n |-> n, tool |-> t, good |-> g, by |-> b, seen |-> s, got |-> got, said |-> said, lost |-> lost]
  BY <1>3
<1>6. PICK r : r = Reply(c, said, lost)
  OBVIOUS
<1>7. r = [n |-> n, tool |-> t, good |-> g, by |-> b, seen |-> s, got |-> got, said |-> said, lost |-> lost]
  BY <1>4, <1>5, <1>6
<1>8. IsCall(r)
  BY <1>1, <1>7 DEF IsCall
<1>9. r.n = c.n /\ r.tool = c.tool /\ r.by = c.by /\ r.seen = c.seen /\ r.got = c.got /\ r.said = said /\ r.lost = lost
  BY <1>1, <1>7
<1>10. QED  BY <1>6, <1>8, <1>9

\* A call that is served knows what it got.
LEMMA ServedCall ==
  ASSUME NEW c, IsCall(c), NEW got \in {"value", "empty", "error"}
  PROVE  /\ IsCall([c EXCEPT !.got = got])
         /\ [c EXCEPT !.got = got].n = c.n /\ [c EXCEPT !.got = got].tool = c.tool
         /\ [c EXCEPT !.got = got].by = c.by /\ [c EXCEPT !.got = got].seen = c.seen
         /\ [c EXCEPT !.got = got].got = got
<1>1. PICK n, t, g, b, s, h, u, l : c = [n |-> n, tool |-> t, good |-> g, by |-> b, seen |-> s,
                                         got |-> h, said |-> u, lost |-> l]
  BY DEF IsCall
<1>2. [c EXCEPT !.got = got] = [n |-> n, tool |-> t, good |-> g, by |-> b, seen |-> s,
                                got |-> got, said |-> u, lost |-> l]
  BY <1>1
<1>3. QED  BY <1>1, <1>2 DEF IsCall

\* The tools start with no calls.
LEMMA ToolsStart == TInit => ToolInv
<1> SUFFICES ASSUME TInit  PROVE ToolInv
  OBVIOUS
<1>1. ToolTypes
  BY FS_EmptySet DEF TInit, ToolTypes, Calls, Made
<1>2. Numbered
  BY DEF TInit, Numbered, Calls, Made
<1>3. ServedRight /\ Ingesting /\ GivenUp /\ Granted /\ Storing /\ ToldTruly
  BY DEF TInit, ServedRight, Ingesting, Calls, Made, GivenUp, Granted, Storing, ToldTruly
<1>4. QED  BY <1>1, <1>2, <1>3 DEF ToolInv

\* How many calls there were is a number, while calls are made.
LEMMA CalledIsNat ==
  ASSUME ToolTypes
  PROVE  Called \in Nat /\ Cardinality(pending) \in Nat /\ Cardinality(answers) \in Nat
BY FS_CardinalityType DEF ToolTypes, Called

\* A call that is new, or of which only the answer is, leaves the ingests.
LEMMA IngestKept ==
  ASSUME ToolInv, NEW r, Calls' \subseteq Calls \cup {r}, r.n \notin Made \/ (\E c \in Calls : r.n = c.n /\ r.tool = c.tool),
         UNCHANGED <<applied, accepted, extracting>>
  PROVE  Ingesting'
BY DEF ToolInv, Ingesting, Made

\* A call is made.
LEMMA StepCall ==
  ASSUME ToolInv, NEW t \in ToolNames, NEW good \in BOOLEAN, CallTool(t, good)
  PROVE  ToolInv'
<1>0. PICK k, l, g : k = Called + 1 /\ l = FALSE /\ g = good
  OBVIOUS
<1>1. PICK c : c = ToolCall(t, good)
  OBVIOUS
<1>10. c = [n |-> k, tool |-> t, good |-> g, by |-> agentName, seen |-> cachedAgentName,
            got |-> "", said |-> "", lost |-> l]
  BY <1>0, <1>1 DEF ToolCall
<1>2. /\ stdin = "open" /\ t \in Offered /\ Wanted(t)
      /\ UNCHANGED <<surface, disabled, there, agentName, cachedAgentName, stdin, adrift, Made, applied, accepted, extracting, stores, excusedStores>>
  BY DEF CallTool, Made, ingests
<1>21. Called \in Nat
  BY CalledIsNat DEF ToolInv
<1>22. c.n = Called + 1
  BY <1>0, <1>10
<1>3. c.tool = t /\ c.by = agentName /\ c.seen = cachedAgentName /\ c.got = ""
  BY <1>10
<1>31. IsCall(c)
  <2>1. k \in Nat
    BY <1>0, <1>21
  <2>2. QED  BY <1>10, <1>2, <2>1 DEF IsCall
<1>4. /\ \A d \in Calls : d.n # c.n
      /\ \A n \in Made : n # c.n
      /\ \A d \in Calls : d.n <= Called + 1
      /\ \A n \in Made : n <= Called + 1
  <2>2. (\A d \in Calls : d.n \in Nat /\ d.n <= Called) /\ (\A n \in Made : n \in Nat /\ n <= Called)
    BY <1>2 DEF ToolInv, ToolTypes, Numbered, IsCall
  <2>3. QED  BY <1>21, <1>22, <2>2
<1>5. Offered' = Offered /\ (\A d : IsCall(d)' <=> IsCall(d)) /\ (\A d : MayDo(d)' <=> MayDo(d))
  BY <1>2 DEF Offered, IsCall, MayDo
<1>6. CASE AtHand(t, good) = ""
  <2>1. pending' = pending \cup {c} /\ answers' = answers
    BY <1>1, <1>6 DEF CallTool
  <2>2. Called' = Called + 1 /\ IsFiniteSet(pending')
    <3>1. c \notin pending
      BY <1>4 DEF Calls
    <3>2. Cardinality(pending') = Cardinality(pending) + 1 /\ IsFiniteSet(pending')
      BY <2>1, <3>1, FS_AddElement DEF ToolInv, ToolTypes
    <3>3. QED  BY <2>1, <3>2, CalledIsNat DEF Called, ToolInv
  <2>3. ToolTypes'
    BY <1>2, <1>31, <1>5, <2>1, <2>2 DEF ToolInv, ToolTypes, Calls
  <2>4. Numbered'
    <3>1. Calls' = Calls \cup {c}
      BY <1>2, <2>1 DEF Calls
    <3>2. (\A d \in Calls' : d.n <= Called') /\ (\A n \in Made : n <= Called')
      <4>1. Called' = Called + 1 /\ Called \in Nat
        BY <2>2, CalledIsNat DEF ToolInv
      <4>2. Made' = Made /\ c.n <= Called + 1
        BY <1>2, <1>21, <1>22
      <4>3. QED  BY <1>4, <3>1, <4>1, <4>2
    <3>3. QED  BY <1>2, <1>4, <2>1, <3>2 DEF ToolInv, Numbered, Calls
  <2>5. ServedRight' /\ GivenUp'
    BY <1>2, <1>3, <1>4, <2>1 DEF ToolInv, ServedRight, GivenUp, Calls
  <2>6. Granted'
    <3>1. surface = "opencode" => MayDo(c)
      BY <1>3, <1>6, PermittedMayDo DEF AtHand
    <3>2. QED  BY <1>2, <1>5, <2>1, <3>1 DEF ToolInv, Granted
  <2>7. Storing'
    <3>1. t = "store" => /\ \A d \in pending : d.tool # "store"
                         /\ \A r \in answers : r.tool = "store" => r.said # "done"
      BY <1>2 DEF Wanted
    <3>2. QED  BY <1>2, <1>3, <2>1, <3>1 DEF ToolInv, Storing
  <2>8. ToldTruly'
    BY <1>2, <2>1 DEF ToolInv, ToldTruly, Served, Made
  <2>81. Ingesting'
    <3>1. Calls' = Calls \cup {c} /\ c.n \notin Made
      BY <1>2, <1>4, <2>1 DEF Calls
    <3>2. QED  BY <1>2, <3>1, IngestKept
  <2>9. QED  BY <2>3, <2>4, <2>5, <2>6, <2>7, <2>8, <2>81 DEF ToolInv
<1>7. CASE AtHand(t, good) # ""
  <2>1. PICK r : r = Reply(c, AtHand(t, good), FALSE)
    OBVIOUS
  <2>2. pending' = pending /\ answers' = answers \cup {r}
    BY <1>1, <1>7, <2>1 DEF CallTool
  <2>3. /\ IsCall(r) /\ r.n = c.n /\ r.tool = t /\ r.said = AtHand(t, good)
    <3>1. PICK said, lost : said = AtHand(t, good) /\ lost = FALSE
      OBVIOUS
    <3>2. r = Reply(c, said, lost)
      BY <2>1, <3>1
    <3>3. IsCall(r) /\ r.n = c.n /\ r.tool = c.tool /\ r.said = said
      BY <1>31, <3>2, ReplyIsOfCall
    <3>4. QED  BY <1>3, <3>1, <3>3
  <2>4. r.said \notin {"done", "failed", "nothing"}
    BY <2>3 DEF AtHand
  <2>5. Called' = Called + 1 /\ IsFiniteSet(answers')
    <3>1. r \notin answers
      BY <1>4, <2>3 DEF Calls
    <3>2. Cardinality(answers') = Cardinality(answers) + 1 /\ IsFiniteSet(answers')
      BY <2>2, <3>1, FS_AddElement DEF ToolInv, ToolTypes
    <3>3. QED  BY <2>2, <3>2, CalledIsNat DEF Called, ToolInv
  <2>6. ToolTypes'
    BY <1>2, <1>5, <2>2, <2>3, <2>5 DEF ToolInv, ToolTypes, Calls
  <2>7. Numbered'
    <3>1. Calls' = Calls \cup {r}
      BY <1>2, <2>2 DEF Calls
    <3>2. (\A d \in Calls' : d.n <= Called') /\ (\A n \in Made : n <= Called')
      <4>1. Called' = Called + 1 /\ Called \in Nat
        BY <2>5, CalledIsNat DEF ToolInv
      <4>2. Made' = Made /\ r.n <= Called + 1
        BY <1>2, <1>21, <1>22, <2>3
      <4>3. QED  BY <1>4, <3>1, <4>1, <4>2
    <3>3. QED  BY <1>2, <1>4, <2>2, <2>3, <3>2 DEF ToolInv, Numbered, Calls
  <2>8. ServedRight'
    BY <1>2, <2>2 DEF ToolInv, ServedRight
  <2>9. GivenUp' /\ Granted'
    BY <1>2, <1>4, <1>5, <2>2, <2>3 DEF ToolInv, GivenUp, Granted, Calls
  <2>10. Storing'
    BY <1>2, <2>2, <2>3, <2>4 DEF ToolInv, Storing
  <2>11. ToldTruly'
    BY <1>2, <2>2, <2>4 DEF ToolInv, ToldTruly, Served, Made
  <2>111. Ingesting'
    <3>1. Calls' = Calls \cup {r} /\ r.n \notin Made
      BY <1>2, <1>4, <2>2, <2>3 DEF Calls
    <3>2. QED  BY <1>2, <3>1, IngestKept
  <2>12. QED  BY <2>6, <2>7, <2>8, <2>9, <2>10, <2>11, <2>111 DEF ToolInv
<1>8. QED  BY <1>6, <1>7

\* Nothing but the agents changes.
LEMMA AgentsChange ==
  ASSUME ToolInv, UNCHANGED <<surface, stdin, pending, adrift, Made, applied, accepted, extracting, stores, answers, excusedStores>>
  PROVE  ToolInv'
<1>1. ToolTypes' /\ Numbered'
  BY DEF ToolInv, ToolTypes, IsCall, Offered, Numbered, Calls, Called
<1>2. ServedRight' /\ GivenUp' /\ Granted' /\ Storing' /\ ToldTruly' /\ Ingesting'
  BY DEF ToolInv, ServedRight, GivenUp, Granted, MayDo, Storing, ToldTruly, Served, Ingesting, Calls
<1>3. QED  BY <1>1, <1>2 DEF ToolInv

\* One less under way and one more answered are as many.
LEMMA OneForOne ==
  ASSUME NEW m \in Nat, NEW n \in Nat
  PROVE  (m - 1) + (n + 1) = m + n
OBVIOUS

\* A call leaves those under way with an answer, and goes adrift if it was
\* given up before it was served: the numbers stay in order.
LEMMA Retired ==
  ASSUME ToolInv, NEW c \in pending, NEW r, IsCall(r), r.n = c.n, r.tool = c.tool, r.by = c.by, r.seen = c.seen,
         pending' = pending \ {c}, answers' = answers \cup {r}, adrift' \subseteq adrift \cup {c},
         c \in adrift' => c.got = "" /\ Lost(r),
         stores' = stores, excusedStores' \in Nat, UNCHANGED <<surface, stdin, Made, applied, accepted, extracting>>
  PROVE  ToolTypes' /\ Numbered' /\ ServedRight' /\ Ingesting' /\ GivenUp' /\ Granted'
<1>1. /\ IsCall(c) /\ \A d \in answers : d.n # c.n
  BY DEF ToolInv, ToolTypes, Calls, Numbered
<1>2. r \notin answers
  BY <1>1
<1>3. /\ IsFiniteSet(pending') /\ Cardinality(pending') = Cardinality(pending) - 1
      /\ IsFiniteSet(answers') /\ Cardinality(answers') = Cardinality(answers) + 1
  BY <1>2, FS_RemoveElement, FS_AddElement DEF ToolInv, ToolTypes
<1>4. Called' = Called
  <2>1. Cardinality(pending) \in Nat /\ Cardinality(answers) \in Nat
    BY CalledIsNat DEF ToolInv
  <2>2. PICK m, n \in Nat : m = Cardinality(pending) /\ n = Cardinality(answers)
    BY <2>1
  <2>3. Cardinality(pending') = m - 1 /\ Cardinality(answers') = n + 1
    BY <1>3, <2>2
  <2>4. Called = m + n
    BY <2>2 DEF Called
  <2>5. Called' = (m - 1) + (n + 1)
    BY <2>3 DEF Called
  <2>6. QED  BY <2>4, <2>5, OneForOne
<1>5. \A d : IsCall(d)' <=> IsCall(d)
  BY DEF IsCall, Offered
<1>6. Calls' \subseteq Calls \cup {r}
  BY DEF Calls
<1>7. ToolTypes'
  <2>1. \A d \in Calls' : IsCall(d)
    BY <1>6 DEF ToolInv, ToolTypes
  <2>2. QED  BY <1>3, <1>5, <2>1 DEF ToolInv, ToolTypes
<1>8. Numbered'
  <2>1. stdin = "open" => (\A d \in Calls' : d.n <= Called') /\ (\A n \in Made : n <= Called')
    <3>1. stdin = "open" => c.n <= Called
      BY DEF ToolInv, Numbered, Calls
    <3>2. QED  BY <1>4, <1>6, <3>1 DEF ToolInv, Numbered
  <2>2. \A d \in pending' : d.n # c.n
    BY DEF ToolInv, Numbered
  <2>3. QED  BY <2>1, <2>2 DEF ToolInv, Numbered
<1>9. ServedRight'
  BY DEF ToolInv, ServedRight
<1>10. GivenUp'
  <2>1. ASSUME NEW a \in adrift', NEW d \in answers', d.n = a.n
        PROVE  Lost(d) /\ d.tool = a.tool /\ d.by = a.by /\ d.seen = a.seen
    <3>1. CASE a = c
      <4>1. d = r
        BY <1>1, <2>1, <3>1
      <4>2. QED  BY <2>1, <3>1, <4>1
    <3>2. CASE a # c
      <4>1. a \in adrift /\ a.n # c.n
        BY <3>2 DEF ToolInv, Numbered
      <4>2. d \in answers
        BY <2>1, <4>1
      <4>3. QED  BY <2>1, <4>1, <4>2 DEF ToolInv, GivenUp
    <3>3. QED  BY <3>1, <3>2
  <2>2. QED  BY <2>1 DEF GivenUp
<1>11. Granted'
  <2>1. c.n \in Made => c.tool \in Writes
    BY DEF ToolInv, ServedRight
  <2>2. surface = "opencode" => MayDo(c)
    BY DEF ToolInv, Granted
  <2>3. MayDo(c) => MayDo(r)
    BY DEF MayDo
  <2>4. \A d : MayDo(d)' <=> MayDo(d)
    BY DEF MayDo
  <2>5. QED  BY <2>1, <2>2, <2>3, <2>4 DEF ToolInv, Granted
<1>12. Ingesting'
  BY <1>6, IngestKept DEF Calls
<1>13. QED  BY <1>7, <1>8, <1>9, <1>10, <1>11, <1>12

\* The server's answer arrives and is told to the agent.
LEMMA StepAnswered ==
  ASSUME ToolInv, NEW c \in pending, Answered(c)
  PROVE  ToolInv'
<1>1. PICK said, lost, r : said = Said(c.tool, c.got) /\ lost = FALSE /\ r = Reply(c, said, lost)
  OBVIOUS
<1>2. /\ c.got # "" /\ pending' = pending \ {c} /\ answers' = answers \cup {r}
      /\ UNCHANGED <<surface, stdin, adrift, Made, applied, accepted, extracting, stores, excusedStores>>
  BY <1>1 DEF Answered, Made, ingests
<1>3. IsCall(c)
  BY DEF ToolInv, ToolTypes, Calls
<1>4. /\ IsCall(r) /\ r.n = c.n /\ r.tool = c.tool /\ r.by = c.by /\ r.seen = c.seen
      /\ r.got = c.got /\ r.said = said
  BY <1>1, <1>3, ReplyIsOfCall
<1>5. c \notin adrift
  BY DEF ToolInv, Numbered
<1>6. ToolTypes' /\ Numbered' /\ ServedRight' /\ Ingesting' /\ GivenUp' /\ Granted'
  <2>1. excusedStores' \in Nat
    BY <1>2 DEF ToolInv, ToolTypes
  <2>2. QED  BY <1>2, <1>4, <1>5, <2>1, Retired
<1>7. /\ said = "done" => (c.got = "value" /\ c.tool \in Writes) \/ (surface = "openclaw" /\ c.tool = "delete")
      /\ said = "failed" => c.got # "value"
      /\ said = "nothing" => c.got = "empty" \/ surface = "openclaw"
      /\ c.tool = "store" => (said = "done" <=> c.got = "value")
  <2>1. c.got \in {"value", "empty", "error"} /\ c.tool \in Offered
    BY <1>2, <1>3 DEF IsCall
  <2>2. c.got = "empty" => c.tool \in {"search", "list"}
    BY DEF ToolInv, ServedRight
  <2>3. surface \in {"mcp", "openclaw", "opencode", "zcode"}
    BY DEF ToolInv, ToolTypes
  <2>4. QED  BY <1>1, <2>1, <2>2, <2>3, SaidTruly
<1>8. Storing'
  <2>1. c.tool = "store" => \A d \in pending' : d.tool # "store"
    BY <1>2 DEF ToolInv, Storing
  <2>2. \A d \in pending', e \in answers' : d.tool = "store" /\ e.tool = "store" => e.said # "done"
    BY <1>2, <1>4, <2>1 DEF ToolInv, Storing
  <2>3. c.tool = "store" /\ c.got = "value" => r \in answers' /\ r.tool = "store" /\ r.said = "done"
    BY <1>2, <1>4, <1>7
  <2>4. \/ stores <= excusedStores
        \/ stdin = "closed"
        \/ \E d \in pending' : d.tool = "store" /\ d.got = "value"
        \/ \E d \in answers' : d.tool = "store" /\ d.said = "done"
    <3>1. CASE \E d \in pending : d.tool = "store" /\ d.got = "value"
      BY <1>2, <2>3, <3>1
    <3>2. CASE ~ \E d \in pending : d.tool = "store" /\ d.got = "value"
      BY <1>2, <3>2 DEF ToolInv, Storing
    <3>3. QED  BY <3>1, <3>2
  <2>5. QED  BY <1>2, <2>2, <2>4 DEF ToolInv, Storing
<1>9. ToldTruly'
  <2>1. c.n \in Made <=> c.got = "value" /\ c.tool \in Writes
    BY DEF ToolInv, ServedRight
  <2>2. said = "done" => c.n \in (IF c.tool = "ingest" THEN accepted ELSE applied) \/ (surface = "openclaw" /\ c.tool = "delete")
    <3>1. (c.n \in accepted => c.tool = "ingest") /\ (c.tool = "ingest" /\ c.n \in applied => c.n \in accepted)
      BY DEF ToolInv, Ingesting, Calls
    <3>2. QED  BY <1>7, <2>1, <3>1 DEF Made
  <2>3. said = "failed" => c.n \notin Made
    BY <1>7, <2>1
  <2>4. QED  BY <1>2, <1>4, <1>7, <2>2, <2>3 DEF ToolInv, ToldTruly, Served, Made
<1>10. QED  BY <1>6, <1>8, <1>9 DEF ToolInv

\* A request is cut off.
LEMMA StepCutOff ==
  ASSUME ToolInv, NEW c \in pending, CutOff(c)
  PROVE  ToolInv'
<1>0. PICK lost : lost = TRUE
  OBVIOUS
<1>1. PICK said, r : said = Said(c.tool, "error") /\ r = Reply(c, said, lost)
  OBVIOUS
<1>2. /\ pending' = pending \ {c} /\ answers' = answers \cup {r}
      /\ adrift' = IF c.got = "" THEN adrift \cup {c} ELSE adrift
      /\ excusedStores' = IF c.tool = "store" /\ c.got = "value" THEN excusedStores + 1 ELSE excusedStores
      /\ UNCHANGED <<surface, stdin, Made, applied, accepted, extracting, stores>>
  BY <1>0, <1>1 DEF CutOff, Made, ingests
<1>3. IsCall(c)
  BY DEF ToolInv, ToolTypes, Calls
<1>4. /\ IsCall(r) /\ r.n = c.n /\ r.tool = c.tool /\ r.by = c.by /\ r.seen = c.seen
      /\ r.got = c.got /\ r.said = said /\ r.lost = lost
  BY <1>1, <1>3, ReplyIsOfCall
<1>5. Lost(r)
  BY <1>0, <1>4 DEF Lost
<1>6. excusedStores' \in Nat /\ excusedStores \in Nat /\ stores \in Nat
  <2>1. excusedStores \in Nat /\ stores \in Nat
    BY DEF ToolInv, ToolTypes
  <2>2. excusedStores' = excusedStores \/ excusedStores' = excusedStores + 1
    BY <1>2
  <2>3. QED  BY <2>1, <2>2
<1>7. ToolTypes' /\ Numbered' /\ ServedRight' /\ Ingesting' /\ GivenUp' /\ Granted'
  <2>1. c \notin adrift
    BY DEF ToolInv, Numbered
  <2>2. adrift' \subseteq adrift \cup {c} /\ (c \in adrift' => c.got = "" /\ Lost(r))
    BY <1>2, <1>5, <2>1
  <2>3. QED  BY <1>2, <1>4, <1>6, <2>2, Retired
<1>8. /\ said = "done" => surface = "openclaw" /\ c.tool = "delete"
      /\ said = "nothing" => surface = "openclaw"
      /\ c.tool = "store" => said # "done"
  <2>1. surface \in {"mcp", "openclaw", "opencode", "zcode"} /\ c.tool \in Offered
    BY <1>3 DEF ToolInv, ToolTypes, IsCall
  <2>2. QED  BY <1>1, <2>1, SaidTruly
<1>9. Storing'
  <2>1. \A d \in pending', e \in answers' : d.tool = "store" /\ e.tool = "store" => e.said # "done"
    BY <1>2, <1>4, <1>8 DEF ToolInv, Storing
  <2>2. /\ stores <= excusedStores' + 1
        /\ \/ stores <= excusedStores'
           \/ stdin = "closed"
           \/ \E d \in pending' : d.tool = "store" /\ d.got = "value"
           \/ \E d \in answers' : d.tool = "store" /\ d.said = "done"
    <3>1. CASE c.tool = "store" /\ c.got = "value"
      BY <1>2, <1>6, <3>1 DEF ToolInv, Storing
    <3>2. CASE ~(c.tool = "store" /\ c.got = "value")
      BY <1>2, <1>6, <3>2 DEF ToolInv, Storing
    <3>3. QED  BY <3>1, <3>2
  <2>3. QED  BY <1>2, <2>1, <2>2 DEF ToolInv, Storing
<1>10. ToldTruly'
  BY <1>2, <1>4, <1>5, <1>8 DEF ToolInv, ToldTruly, Served, Lost
<1>11. QED  BY <1>7, <1>9, <1>10 DEF ToolInv

\* ZCode closes the input of its server.
LEMMA StepClose ==
  ASSUME ToolInv, CloseStdin
  PROVE  ToolInv'
<1>1. /\ stdin' = "closed" /\ pending' = {} /\ adrift' = adrift \cup {c \in pending : c.got = ""}
      /\ UNCHANGED <<surface, Made, applied, accepted, extracting, stores, answers, excusedStores>>
  BY DEF CloseStdin, Made, ingests
<1>2. ToolTypes'
  <2>1. \A d : IsCall(d)' <=> IsCall(d)
    BY <1>1 DEF IsCall, Offered
  <2>2. Calls' \subseteq Calls
    BY <1>1 DEF Calls
  <2>3. QED  BY <1>1, <2>1, <2>2, FS_EmptySet DEF ToolInv, ToolTypes
<1>3. Numbered' /\ ServedRight'
  <2>1. /\ \A c, d \in pending \cup adrift : c.n = d.n => c = d
        /\ pending' \cup adrift' \subseteq pending \cup adrift
    BY <1>1 DEF ToolInv, Numbered
  <2>2. Numbered'
    BY <1>1, <2>1 DEF Numbered
  <2>3. ServedRight'
    BY <1>1, <2>1 DEF ToolInv, ServedRight
  <2>4. QED  BY <2>2, <2>3
<1>4. GivenUp'
  BY <1>1 DEF ToolInv, Numbered, GivenUp
<1>5. Granted'
  BY <1>1 DEF ToolInv, Granted, MayDo
<1>6. Storing' /\ ToldTruly'
  BY <1>1 DEF ToolInv, Storing, ToldTruly, Served, Made
<1>7. Ingesting'
  <2>1. Calls' \subseteq Calls
    BY <1>1 DEF Calls
  <2>2. QED  BY <1>1, <2>1 DEF ToolInv, Ingesting
<1>8. QED  BY <1>2, <1>3, <1>4, <1>5, <1>6, <1>7 DEF ToolInv

\* The server serves a call, perhaps after it was given up.
LEMMA StepServe ==
  ASSUME ToolInv, NEW c \in pending \cup adrift, ServeTool(c)
  PROVE  ToolInv'
<1>1. PICK ok : ok <=> c.good /\ Needs(c.tool) \subseteq there
  OBVIOUS
<1>2. PICK got \in {"value", "empty", "error"} :
        got = IF ~ok THEN "error" ELSE IF c.tool \in {"search", "list"} /\ "memory" \notin there THEN "empty" ELSE "value"
  OBVIOUS
<1>3. PICK d : d = [c EXCEPT !.got = got]
  OBVIOUS
<1>4. /\ c.got = ""
      /\ pending' = IF c \in pending THEN (pending \ {c}) \cup {d} ELSE pending
      /\ adrift' = adrift \ {c}
      /\ applied' = IF ok /\ c.tool \in Writes \ {"ingest"} THEN applied \cup {c.n} ELSE applied
      /\ accepted' = IF ok /\ c.tool = "ingest" THEN accepted \cup {c.n} ELSE accepted
      /\ extracting' = extracting \cup (accepted' \ accepted)
      /\ stores' = IF ok /\ c.tool = "store" THEN stores + 1 ELSE stores
      /\ excusedStores' = IF ok /\ c.tool = "store" /\ c \in adrift THEN excusedStores + 1 ELSE excusedStores
      /\ UNCHANGED <<surface, stdin, answers>>
  BY <1>1, <1>2, <1>3 DEF ServeTool
<1>41. Made' = IF ok /\ c.tool \in Writes THEN Made \cup {c.n} ELSE Made
  BY <1>4 DEF Made, Writes
<1>5. IsCall(c) /\ c.n \in Nat /\ c.n \notin Made
  BY <1>4, <1>41 DEF ToolInv, ToolTypes, Calls, ServedRight, IsCall
<1>6. IsCall(d) /\ d.n = c.n /\ d.tool = c.tool /\ d.by = c.by /\ d.seen = c.seen /\ d.got = got
  BY <1>3, <1>5, ServedCall
<1>7. /\ got = "value" => ok
      /\ got = "empty" => c.tool \in {"search", "list"}
      /\ ok /\ c.tool \in Writes => got = "value"
  BY <1>2 DEF Writes
<1>8. /\ \A e \in pending \cup adrift : e.n = c.n => e = c
      /\ c \in pending => c \notin adrift /\ \A r \in answers : r.n # c.n
      /\ \A e \in pending \ {c} : e.n # c.n
  BY DEF ToolInv, Numbered
<1>9. \A e : (IsCall(e)' <=> IsCall(e)) /\ (MayDo(e)' <=> MayDo(e))
  BY <1>4, <1>41 DEF IsCall, Offered, MayDo
<1>10. ToolTypes'
  <2>1. Calls' \subseteq Calls \cup {d}
    BY <1>4, <1>41 DEF Calls
  <2>2. \A e \in Calls' : IsCall(e)'
    BY <1>6, <1>9, <2>1 DEF ToolInv, ToolTypes
  <2>3. IsFiniteSet(pending')
    BY <1>4, <1>41, FS_RemoveElement, FS_AddElement DEF ToolInv, ToolTypes
  <2>4. Made' \subseteq Nat
    BY <1>4, <1>41, <1>5 DEF ToolInv, ToolTypes
  <2>5. stores' \in Nat /\ excusedStores' \in Nat
    <3>1. excusedStores \in Nat /\ stores \in Nat
      BY DEF ToolInv, ToolTypes
    <3>2. /\ excusedStores' = excusedStores \/ excusedStores' = excusedStores + 1
          /\ stores' = stores \/ stores' = stores + 1
      BY <1>4, <1>41
    <3>3. QED  BY <3>1, <3>2
  <2>6. QED  BY <1>4, <1>41, <2>2, <2>3, <2>4, <2>5 DEF ToolInv, ToolTypes
<1>11. Numbered'
  <2>1. Called' = Called
    <3>1. CASE c \in pending
      <4>1. d \notin pending \ {c}
        BY <1>6, <1>8
      <4>2. /\ IsFiniteSet(pending \ {c}) /\ Cardinality(pending \ {c}) = Cardinality(pending) - 1
        BY <3>1, FS_RemoveElement DEF ToolInv, ToolTypes
      <4>3. Cardinality(pending') = Cardinality(pending \ {c}) + 1
        BY <1>4, <1>41, <3>1, <4>1, <4>2, FS_AddElement
      <4>4. PICK n \in Nat : n = Cardinality(pending)
        BY CalledIsNat DEF ToolInv
      <4>5. Cardinality(pending') = n
        BY <4>2, <4>3, <4>4
      <4>6. answers' = answers
        BY <1>4, <1>41
      <4>7. QED  BY <4>4, <4>5, <4>6 DEF Called
    <3>2. CASE c \notin pending
      BY <1>4, <1>41, <3>2 DEF Called
    <3>3. QED  BY <3>1, <3>2
  <2>2. stdin = "open" => (\A e \in Calls' : e.n <= Called') /\ (\A n \in Made' : n <= Called')
    <3>1. stdin = "open" => c.n <= Called
      BY DEF ToolInv, Numbered, Calls
    <3>2. Calls' \subseteq Calls \cup {d} /\ Made' \subseteq Made \cup {c.n}
      BY <1>4, <1>41 DEF Calls
    <3>3. QED  BY <1>6, <2>1, <3>1, <3>2 DEF ToolInv, Numbered
  <2>3. stdin = "closed" => pending' = {}
    BY <1>4, <1>41 DEF ToolInv, Numbered
  <2>4. \A e, f \in pending' \cup adrift' : e.n = f.n => e = f
    <3>1. \A e, f \in pending \cup adrift : e.n = f.n => e = f
      BY DEF ToolInv, Numbered
    <3>2. \A e \in pending' \cup adrift' : e = d \/ (e \in pending \cup adrift /\ e.n # d.n)
      BY <1>4, <1>41, <1>6, <1>8
    <3>3. QED  BY <3>1, <3>2
  <2>5. \A e \in pending' : e \notin adrift' /\ \A r \in answers : r.n # e.n
    BY <1>4, <1>41, <1>6, <1>8 DEF ToolInv, Numbered
  <2>6. QED  BY <1>4, <1>41, <2>2, <2>3, <2>4, <2>5 DEF Numbered
<1>12. ServedRight'
  <2>1. \A e \in adrift' : e.got = "" /\ e.n # c.n
    BY <1>4, <1>41, <1>8 DEF ToolInv, ServedRight
  <2>2. \A e \in pending' : e # d => e \in pending /\ e.n # c.n
    BY <1>4, <1>41, <1>8
  <2>3. d.got # ""
    BY <1>6
  <2>4. \A e \in pending' \cup adrift' : e.got = "" => e.n \notin Made'
    BY <1>4, <1>41, <2>1, <2>2, <2>3 DEF ToolInv, ServedRight
  <2>5. d.n \in Made' <=> got = "value" /\ c.tool \in Writes
    BY <1>4, <1>41, <1>5, <1>6, <1>7
  <2>6. \A e \in pending' : e.n \in Made' <=> e.got = "value" /\ e.tool \in Writes
    BY <1>4, <1>41, <1>6, <2>2, <2>5 DEF ToolInv, ServedRight
  <2>7. \A e \in pending' : e.got = "empty" => e.tool \in {"search", "list"}
    BY <1>6, <1>7, <2>2 DEF ToolInv, ServedRight
  <2>8. QED  BY <2>1, <2>4, <2>6, <2>7 DEF ServedRight
<1>13. GivenUp'
  BY <1>4, <1>41 DEF ToolInv, GivenUp
<1>14. Granted'
  <2>1. surface = "opencode" => MayDo(c) /\ MayDo(d)
    BY <1>6 DEF ToolInv, Granted, MayDo
  <2>2. surface = "opencode" => \A e \in pending' \cup adrift' : MayDo(e)
    BY <1>4, <1>41, <2>1 DEF ToolInv, Granted
  <2>3. ASSUME NEW r \in answers, r.n \in Made'
        PROVE  r.tool \in Writes /\ (surface = "opencode" => MayDo(r))
    <3>1. CASE r.n \in Made
      BY <3>1 DEF ToolInv, Granted
    <3>2. CASE r.n \notin Made
      <4>1. r.n = c.n /\ c.tool \in Writes
        BY <1>4, <1>41, <2>3, <3>2
      <4>2. c \in adrift
        BY <1>8, <4>1
      <4>3. r.tool = c.tool /\ r.seen = c.seen
        BY <4>1, <4>2 DEF ToolInv, GivenUp
      <4>4. MayDo(c) => MayDo(r)
        BY <4>3 DEF MayDo
      <4>5. QED  BY <2>1, <4>1, <4>3, <4>4
    <3>3. QED  BY <3>1, <3>2
  <2>4. QED  BY <1>4, <1>41, <1>9, <2>2, <2>3 DEF Granted
<1>15. Storing'
  <2>1. \A e \in pending' : e # d => e \in pending /\ e # c
    BY <1>4, <1>41, <1>8
  <2>2. d \in pending' => c \in pending
    <3>1. d.got # ""
      BY <1>6
    <3>2. ASSUME d \in pending', c \notin pending  PROVE FALSE
      <4>1. d \in pending /\ c \in adrift
        BY <1>4, <1>41, <3>2
      <4>2. d = c
        BY <1>6, <1>8, <4>1
      <4>3. QED  BY <3>2, <4>1, <4>2
    <3>3. QED  BY <3>2
  <2>3. \A e, f \in pending' : e.tool = "store" /\ f.tool = "store" => e = f
    BY <1>6, <2>1, <2>2 DEF ToolInv, Storing
  <2>4. \A e \in pending', r \in answers : e.tool = "store" /\ r.tool = "store" => r.said # "done"
    BY <1>6, <2>1, <2>2 DEF ToolInv, Storing
  <2>5. stores \in Nat /\ excusedStores \in Nat
    BY DEF ToolInv, ToolTypes
  <2>6. /\ stores' <= excusedStores' + 1
        /\ \/ stores' <= excusedStores'
           \/ stdin = "closed"
           \/ \E e \in pending' : e.tool = "store" /\ e.got = "value"
           \/ \E r \in answers : r.tool = "store" /\ r.said = "done"
    <3>1. CASE ok /\ c.tool = "store" /\ c \in pending
      <4>1. /\ \A e \in pending : e.tool = "store" => e = c
            /\ \A r \in answers : r.tool = "store" => r.said # "done"
        BY <3>1 DEF ToolInv, Storing
      <4>2. stdin # "closed"
        BY <3>1 DEF ToolInv, Numbered
      <4>3. stores <= excusedStores
        BY <1>4, <1>41, <4>1, <4>2 DEF ToolInv, Storing
      <4>4. d \in pending' /\ d.tool = "store" /\ d.got = "value"
        BY <1>4, <1>41, <1>6, <1>7, <3>1 DEF Writes
      <4>5. stores' = stores + 1 /\ excusedStores' = excusedStores
        BY <1>4, <1>41, <1>8, <3>1
      <4>6. QED  BY <2>5, <4>3, <4>4, <4>5
    <3>2. CASE ~(ok /\ c.tool = "store" /\ c \in pending)
      <4>1. ~ \E e \in pending : e.tool = "store" /\ e.got = "value" /\ e \notin pending'
        BY <1>4, <1>41
      <4>2. \/ stores' = stores /\ excusedStores' = excusedStores
            \/ stores' = stores + 1 /\ excusedStores' = excusedStores + 1
        BY <1>4, <1>41, <3>2
      <4>3. QED  BY <2>5, <4>1, <4>2 DEF ToolInv, Storing
    <3>3. QED  BY <3>1, <3>2
  <2>7. QED  BY <1>4, <1>41, <2>3, <2>4, <2>6 DEF Storing
<1>16. ToldTruly'
  <2>1. ASSUME NEW r \in answers, r.said = "failed", r.n \in Made'
        PROVE  r.lost
    <3>1. CASE r.n \in Made
      BY <2>1, <3>1 DEF ToolInv, ToldTruly, Served, Made
    <3>2. CASE r.n \notin Made
      <4>1. r.n = c.n
        BY <1>4, <1>41, <2>1, <3>2
      <4>2. c \in adrift
        BY <1>8, <4>1
      <4>3. QED  BY <4>1, <4>2 DEF ToolInv, GivenUp, Lost
    <3>3. QED  BY <3>1, <3>2
  <2>2. Made \subseteq Made'
    BY <1>4, <1>41
  <2>3. QED  BY <1>4, <1>41, <2>1, <2>2 DEF ToolInv, ToldTruly, Served, Made
<1>17. Ingesting'
  <2>1. \A e \in Calls' : e \in Calls \/ (e.n = c.n /\ e.tool = c.tool)
    BY <1>4, <1>6 DEF Calls
  <2>2. \A e \in Calls : e.n = c.n => e.tool = c.tool
    <3>1. ASSUME NEW e \in answers, e.n = c.n  PROVE e.tool = c.tool
      <4>1. c \in adrift
        BY <1>8, <3>1
      <4>2. QED  BY <3>1, <4>1 DEF ToolInv, GivenUp
    <3>2. QED  BY <1>8, <3>1 DEF Calls
  <2>3. c \in Calls
    BY DEF Calls
  <2>4. \A e \in Calls' : (e.n \in accepted' => e.tool = "ingest") /\ (e.tool = "ingest" /\ e.n \in applied' => e.n \in accepted')
    <3> TAKE e \in Calls'
    <3>1. PICK f \in Calls : f.n = e.n /\ f.tool = e.tool
      BY <2>1, <2>3
    <3>2. (f.n \in accepted => f.tool = "ingest") /\ (f.tool = "ingest" /\ f.n \in applied => f.n \in accepted)
      BY DEF ToolInv, Ingesting
    <3>3. f.n = c.n => f.tool = c.tool
      BY <2>2
    <3>4. QED  BY <1>4, <3>1, <3>2, <3>3
  <2>5. extracting' \subseteq accepted'
    BY <1>4 DEF ToolInv, Ingesting
  <2>6. QED  BY <2>4, <2>5 DEF Ingesting
<1>18. QED  BY <1>10, <1>11, <1>12, <1>13, <1>14, <1>15, <1>16, <1>17 DEF ToolInv

\* The memories of an ingest are extracted, or are not.
LEMMA StepExtracted ==
  ASSUME ToolInv, NEW n \in extracting, NEW found \in BOOLEAN, Extracted(n, found)
  PROVE  ToolInv'
<1>1. /\ n \in accepted /\ extracting' = extracting \ {n} /\ applied \subseteq applied' /\ applied' \subseteq applied \cup {n}
      /\ UNCHANGED <<surface, stdin, pending, adrift, accepted, stores, answers, excusedStores>>
  BY DEF Extracted, ToolInv, Ingesting
<1>2. Made' = Made /\ Calls' = Calls
  BY <1>1 DEF Made, Calls
<1>3. ToolTypes' /\ Numbered'
  BY <1>1, <1>2 DEF ToolInv, ToolTypes, IsCall, Offered, Numbered, Called
<1>4. ServedRight' /\ GivenUp' /\ Granted' /\ Storing'
  BY <1>1, <1>2 DEF ToolInv, ServedRight, GivenUp, Granted, MayDo, Storing
<1>5. Ingesting'
  BY <1>1, <1>2 DEF ToolInv, Ingesting
<1>6. ToldTruly'
  <2>1. \A r : Served(r)' <=> Served(r)
    BY <1>2 DEF Served, Made
  <2>2. QED  BY <1>1, <2>1 DEF ToolInv, ToldTruly
<1>7. QED  BY <1>3, <1>4, <1>5, <1>6 DEF ToolInv

\* Every step of the tools keeps the invariant.
LEMMA ToolsStep == ToolInv /\ [TNext]_tvars => ToolInv'
<1> SUFFICES ASSUME ToolInv, [TNext]_tvars  PROVE ToolInv'
  OBVIOUS
<1>1. CASE \E t \in ToolNames, good \in BOOLEAN : CallTool(t, good)
  BY <1>1, StepCall
<1>2. CASE \E a \in Agents : SwitchAgent(a)
  BY <1>2, AgentsChange DEF SwitchAgent, Made, ingests
<1>3. CASE AgentLearnt
  BY <1>3, AgentsChange DEF AgentLearnt, Made, ingests
<1>4. CASE CloseStdin
  BY <1>4, StepClose
<1>5. CASE \E c \in pending : Answered(c) \/ CutOff(c)
  BY <1>5, StepAnswered, StepCutOff
<1>6. CASE \E c \in pending \cup adrift : ServeTool(c)
  BY <1>6, StepServe
<1>7. CASE UNCHANGED tvars
  BY <1>7, AgentsChange DEF tvars, Made, ingests
<1>8. CASE \E n \in extracting, found \in BOOLEAN : Extracted(n, found)
  BY <1>8, StepExtracted
<1>9. QED  BY <1>1, <1>2, <1>3, <1>4, <1>5, <1>6, <1>7, <1>8 DEF TNext

\* However many calls are under way, cut off, or served after they were given
\* up: what the agent is told came of a call is so (tools.ts, tools.js and
\* index.ts of the four plugins).
THEOREM AgentIsToldTruly == TSpec => []ToldTruly
<1>1. ToolInv => ToldTruly
  BY DEF ToolInv
<1>2. QED  BY <1>1, ToolsStart, ToolsStep, PTL DEF TSpec

\* What a call of opencode's changed, the agent's policy allows, whatever the
\* policies are and whoever talks in between (plugins/opencode/src/tools.ts).
THEOREM PolicyIsKept == TSpec => []PolicyKept
<1>1. ToolInv => PolicyKept
  <2> SUFFICES ASSUME ToolInv, NEW c \in pending \cup answers, surface = "opencode", Served(c), c.by = c.seen
               PROVE  Policy(c.by) = "readwrite"
    BY DEF PolicyKept
  <2>1. c.tool \in Writes /\ MayDo(c)
    BY DEF ToolInv, ServedRight, Granted, Served, Made
  <2>2. QED  BY <2>1 DEF MayDo, Reads, Writes
<1>2. QED  BY <1>1, ToolsStart, ToolsStep, PTL DEF TSpec

\* An agent that stores something until it is told that it is done makes no
\* second memory of it but for answers that it never got.
THEOREM StoredOnce == TSpec => []StoredOnceUnlessMisled
<1>1. ToolInv => StoredOnceUnlessMisled
  BY DEF ToolInv, ToolTypes, Storing, StoredOnceUnlessMisled
<1>2. QED  BY <1>1, ToolsStart, ToolsStep, PTL DEF TSpec

(***************************************************************************)
(* Spaces, for any users, space ids, rules, requests in flight, member     *)
(* lists and edits: no accepted edit is lost and no space disappears or    *)
(* comes back but for the causes that the properties name, and an owner    *)
(* stays a member of the space.                                            *)
(***************************************************************************)

-----------------------------------------------------------------------------
(* Member lists. *)

\* A set of numbers has a least one.
LEMMA LeastOf ==
  ASSUME NEW ns, ns \subseteq Nat, ns # {}
  PROVE  \E i \in ns : \A j \in ns : i <= j
<1> DEFINE R == OpToRel(<, Nat)
<1>1. IsWellFoundedOn(R, Nat)
  BY NatLessThanWellFounded
<1>2. \A p : p \in R <=> p \in Nat \X Nat /\ p[1] < p[2]
  BY DEF OpToRel
<1> HIDE DEF R
<1>3. PICK i \in ns : \A j \in ns : ~(<<j, i>> \in R)
  BY <1>1, WFMin
<1>4. ASSUME NEW j \in ns  PROVE i <= j
  <2>1. ~(<<j, i>> \in R)
    BY <1>3
  <2>2. ~(j < i)
    BY <1>2, <2>1
  <2>3. QED  BY <2>2
<1>5. QED  BY <1>4

\* f tells for each k what is kept of the first k entries.
KeptUpTo(f, members, u, n) ==
  f = [k \in 0 .. n |-> IF k = 0 THEN <<>>
                        ELSE IF members[k].user = u THEN f[k - 1] ELSE Append(f[k - 1], members[k])]

\* There is such a function: the definition of Without is sound.
LEMMA KeptExists ==
  ASSUME NEW members \in Seq(Member), NEW u
  PROVE  \E f : KeptUpTo(f, members, u, Len(members))
<1> DEFINE Bad == {n \in 0 .. Len(members) : ~ \E f : KeptUpTo(f, members, u, n)}
<1>1. SUFFICES ASSUME Bad # {}  PROVE FALSE
  <2>1. Len(members) \in 0 .. Len(members)
    OBVIOUS
  <2>2. QED  BY <2>1
<1>2. Bad \subseteq Nat
  OBVIOUS
<1> HIDE DEF Bad
<1>3. PICK n \in Bad : \A j \in Bad : n <= j
  BY <1>1, <1>2, LeastOf
<1>4. n \in 0 .. Len(members) /\ ~ \E f : KeptUpTo(f, members, u, n)
  BY <1>3 DEF Bad
<1>5. CASE n = 0
  <2>1. PICK f : f = [k \in 0 .. 0 |-> <<>>]
    OBVIOUS
  <2>2. KeptUpTo(f, members, u, 0)
    BY <2>1 DEF KeptUpTo
  <2>3. QED  BY <1>4, <1>5, <2>2
<1>6. CASE n # 0
  <2>1. n - 1 \in 0 .. Len(members) /\ n - 1 \notin Bad
    BY <1>2, <1>3, <1>4, <1>6
  <2>2. PICK g : KeptUpTo(g, members, u, n - 1)
    BY <2>1 DEF Bad
  <2>3. PICK f : f = [k \in 0 .. n |-> IF k # n THEN g[k] ELSE
                                       IF members[n].user = u THEN g[n - 1] ELSE Append(g[n - 1], members[n])]
    OBVIOUS
  <2>4. \A k \in 0 .. n : f[k] = IF k = 0 THEN <<>>
                                 ELSE IF members[k].user = u THEN f[k - 1] ELSE Append(f[k - 1], members[k])
    <3> SUFFICES ASSUME NEW k \in 0 .. n
                 PROVE f[k] = IF k = 0 THEN <<>>
                              ELSE IF members[k].user = u THEN f[k - 1] ELSE Append(f[k - 1], members[k])
      OBVIOUS
    <3>1. n \in Nat /\ k \in Nat /\ k <= n
      BY <1>4
    <3>2. CASE k = n
      BY <1>6, <2>3, <3>1, <3>2
    <3>3. CASE k # n
      <4>1. f[k] = g[k] /\ (k # 0 => f[k - 1] = g[k - 1])
        BY <2>3, <3>1, <3>3
      <4>2. k \in 0 .. n - 1
        BY <3>1, <3>3
      <4>3. g[k] = IF k = 0 THEN <<>>
                   ELSE IF members[k].user = u THEN g[k - 1] ELSE Append(g[k - 1], members[k])
        BY <2>2, <4>2 DEF KeptUpTo
      <4>4. QED  BY <4>1, <4>3
    <3>4. QED  BY <3>2, <3>3
  <2>5. KeptUpTo(f, members, u, n)
    <3>1. f = [k \in 0 .. n |-> f[k]]
      BY <2>3
    <3>2. [k \in 0 .. n |-> f[k]] =
          [k \in 0 .. n |-> IF k = 0 THEN <<>>
                            ELSE IF members[k].user = u THEN f[k - 1] ELSE Append(f[k - 1], members[k])]
      BY <2>4
    <3>3. QED  BY <3>1, <3>2 DEF KeptUpTo
  <2>6. QED  BY <1>4, <2>5
<1>7. QED  BY <1>5, <1>6

\* What retain keeps are the entries that name somebody else.
LEMMA WithoutKeeps ==
  ASSUME NEW members \in Seq(Member), NEW u
  PROVE  /\ Without(members, u) \in Seq(Member)
         /\ RangeOf(Without(members, u)) = {m \in RangeOf(members) : m.user # u}
<1>1. PICK f : f = CHOOSE g : KeptUpTo(g, members, u, Len(members))
  OBVIOUS
<1>2. KeptUpTo(f, members, u, Len(members))
  BY <1>1, KeptExists
<1>3. Without(members, u) = f[Len(members)]
  BY <1>1 DEF Without, KeptUpTo
<1> DEFINE Good(k) == /\ f[k] \in Seq(Member)
                      /\ RangeOf(f[k]) = {m \in {members[j] : j \in 1 .. k} : m.user # u}
           Bad == {n \in 0 .. Len(members) : ~Good(n)}
<1>4. Bad = {}
  <2>1. SUFFICES ASSUME Bad # {}  PROVE FALSE
    OBVIOUS
  <2>2. Bad \subseteq Nat
    OBVIOUS
  <2> HIDE DEF Bad
  <2>3. PICK n \in Bad : \A j \in Bad : n <= j
    BY <2>1, <2>2, LeastOf
  <2>4. n \in 0 .. Len(members) /\ ~Good(n)
    BY <2>3 DEF Bad
  <2>5. f[n] = IF n = 0 THEN <<>>
               ELSE IF members[n].user = u THEN f[n - 1] ELSE Append(f[n - 1], members[n])
    BY <1>2, <2>4 DEF KeptUpTo
  <2>6. CASE n = 0
    <3>1. f[0] = <<>>
      BY <2>5, <2>6
    <3>2. <<>> \in Seq(Member) /\ RangeOf(<<>>) = {}
      BY DEF RangeOf
    <3>3. {m \in {members[j] : j \in 1 .. 0} : m.user # u} = {}
      OBVIOUS
    <3>4. QED  BY <2>4, <2>6, <3>1, <3>2, <3>3
  <2>7. CASE n # 0
    <3>1. n - 1 \in 0 .. Len(members) /\ n - 1 \notin Bad
      BY <2>2, <2>3, <2>4, <2>7
    <3>2. Good(n - 1)
      BY <3>1 DEF Bad
    <3>3. members[n] \in Member /\ 1 .. n = (1 .. n - 1) \cup {n}
      BY <2>4, <2>7
    <3>4. CASE members[n].user = u
      BY <2>4, <2>5, <2>7, <3>2, <3>3, <3>4
    <3>5. CASE members[n].user # u
      <4>1. f[n] = Append(f[n - 1], members[n])
        BY <2>5, <2>7, <3>5
      <4>2. f[n] \in Seq(Member)
        BY <3>2, <3>3, <4>1
      <4>3. RangeOf(f[n]) = RangeOf(f[n - 1]) \cup {members[n]}
        <5>1. PICK s \in Seq(Member) : s = f[n - 1]
          BY <3>2
        <5>2. PICK m \in Member : m = members[n]
          BY <3>3
        <5>3. /\ DOMAIN Append(s, m) = DOMAIN s \cup {Len(s) + 1}
              /\ \A k \in DOMAIN s : Append(s, m)[k] = s[k]
              /\ Append(s, m)[Len(s) + 1] = m
          OBVIOUS
        <5>4. RangeOf(Append(s, m)) = RangeOf(s) \cup {m}
          BY <5>3 DEF RangeOf
        <5>5. QED  BY <4>1, <5>1, <5>2, <5>4
      <4>4. {m \in {members[j] : j \in 1 .. n} : m.user # u} =
            {m \in {members[j] : j \in 1 .. n - 1} : m.user # u} \cup {members[n]}
        BY <3>3, <3>5
      <4>5. QED  BY <2>4, <3>2, <4>2, <4>3, <4>4
    <3>6. QED  BY <3>4, <3>5
  <2>8. QED  BY <2>6, <2>7
<1>5. Good(Len(members))
  <2>1. Len(members) \in 0 .. Len(members) /\ Len(members) \notin Bad
    BY <1>4
  <2>2. QED  BY <2>1
<1>6. RangeOf(members) = {members[j] : j \in 1 .. Len(members)}
  BY DEF RangeOf
<1>7. QED  BY <1>3, <1>5, <1>6

-----------------------------------------------------------------------------
(* Documents. *)

\* Some entry of a member that is listed is the first one.
LEMMA FirstEntryThere ==
  ASSUME NEW d \in Space, NEW u, IsMember(d, u)
  PROVE  /\ FirstEntry(d, u) \in DOMAIN d.members
         /\ d.members[FirstEntry(d, u)].user = u
<1> DEFINE ks == {k \in DOMAIN d.members : d.members[k].user = u}
<1>1. ks \subseteq Nat /\ DOMAIN d.members = 1 .. Len(d.members)
  BY DEF Space
<1>2. ks # {}
  BY DEF IsMember, RangeOf
<1>3. PICK k \in ks : \A j \in ks : k <= j
  BY <1>1, <1>2, LeastOf
<1>4. \A l \in 1 .. k - 1 : d.members[l].user # u
  <2>1. SUFFICES ASSUME NEW l \in 1 .. k - 1, d.members[l].user = u  PROVE FALSE
    OBVIOUS
  <2>2. k \in 1 .. Len(d.members) /\ Len(d.members) \in Nat
    BY <1>1 DEF Space
  <2>3. l \in ks /\ l < k
    BY <1>1, <2>1, <2>2
  <2>4. QED  BY <1>1, <1>3, <2>3
<1>5. QED  BY <1>3, <1>4 DEF FirstEntry

\* An edit that is asked for is one of these.
LEMMA ChangeKinds ==
  ASSUME NEW c \in Change
  PROVE  \/ c.what = "rename"
         \/ c.what \in {"add", "role"} /\ c.user \in Users /\ c.role \in Roles
         \/ c.what = "remove" /\ c.user \in Users
         \/ c.what \in {"rule", "unrule"} /\ c.rule \in Rules
BY DEF Change

\* An edit of a document makes a document, of the same owner.
LEMMA ApplyTypes ==
  ASSUME NEW d \in Space, NEW c \in Change
  PROVE  Apply(d, c) \in Space /\ Apply(d, c).owner = d.owner
<1>1. CASE c.what = "add"
  <2>1. PICK m \in Member : m = [user |-> c.user, role |-> c.role]
    BY <1>1, ChangeKinds DEF Member
  <2>2. Append(d.members, m) \in Seq(Member)
    BY DEF Space
  <2>3. Apply(d, c) = [d EXCEPT !.members = Append(d.members, m)]
    BY <1>1, <2>1 DEF Apply
  <2>4. QED  BY <2>2, <2>3 DEF Space
<1>2. CASE c.what = "remove"
  <2>1. Without(d.members, c.user) \in Seq(Member)
    BY WithoutKeeps DEF Space
  <2>2. Apply(d, c) = [d EXCEPT !.members = Without(d.members, c.user)]
    BY <1>2 DEF Apply
  <2>3. QED  BY <2>1, <2>2 DEF Space
<1>3. CASE c.what = "role" /\ IsMember(d, c.user)
  <2>1. PICK k \in DOMAIN d.members : k = FirstEntry(d, c.user)
    BY <1>3, FirstEntryThere
  <2>2. PICK m \in Member : m = [d.members[k] EXCEPT !.role = c.role]
    <3>1. PICK x \in Member : x = d.members[k]
      BY <2>1 DEF Space
    <3>2. [x EXCEPT !.role = c.role] \in Member
      BY <1>3, ChangeKinds DEF Member
    <3>3. QED  BY <3>1, <3>2
  <2>3. PICK ms \in Seq(Member) : ms = [d.members EXCEPT ![k] = m]
    <3>1. PICK xs \in Seq(Member) : xs = d.members
      BY DEF Space
    <3>2. k \in 1 .. Len(xs)
      BY <2>1, <3>1
    <3>3. [xs EXCEPT ![k] = m] \in Seq(Member)
      BY <3>2, ExceptSeq
    <3>4. QED  BY <3>1, <3>3
  <2>4. Apply(d, c) = [d EXCEPT !.members = ms]
    BY <1>3, <2>1, <2>2, <2>3 DEF Apply
  <2>5. QED  BY <2>4 DEF Space
<1>4. CASE c.what = "role" /\ ~IsMember(d, c.user)
  BY <1>4 DEF Apply
<1>5. CASE c.what \in {"rule", "unrule"}
  <2>1. PICK rs \in SUBSET Rules : rs = IF c.what = "rule" THEN d.rules \cup {c.rule} ELSE d.rules \ {c.rule}
    BY <1>5, ChangeKinds DEF Space
  <2>2. Apply(d, c) = [d EXCEPT !.rules = rs]
    BY <1>5, <2>1 DEF Apply
  <2>3. QED  BY <2>2 DEF Space
<1>6. CASE c.what = "rename"
  BY <1>6 DEF Apply
<1>7. QED  BY <1>1, <1>2, <1>3, <1>4, <1>5, <1>6, ChangeKinds

\* An edit that a handler accepts leaves the owner among the members.
LEMMA ApplyKeepsOwner ==
  ASSUME NEW d \in Space, NEW c \in Change, IsMember(d, d.owner), Allowed(d, c)
  PROVE  IsMember(Apply(d, c), Apply(d, c).owner)
<1>0. PICK o \in RangeOf(d.members) : o.user = d.owner
  BY DEF IsMember
<1>1. SUFFICES IsMember(Apply(d, c), d.owner)
  BY ApplyTypes
<1>2. CASE c.what = "add"
  <2>1. PICK m \in Member : m = [user |-> c.user, role |-> c.role]
    BY <1>2, ChangeKinds DEF Member
  <2>2. PICK ms \in Seq(Member) : ms = d.members
    BY DEF Space
  <2>3. Apply(d, c).members = Append(ms, m)
    BY <1>2, <2>1, <2>2 DEF Apply, Space
  <2>4. DOMAIN ms \subseteq DOMAIN Append(ms, m) /\ \A k \in DOMAIN ms : Append(ms, m)[k] = ms[k]
    OBVIOUS
  <2>5. QED  BY <1>0, <2>2, <2>3, <2>4 DEF IsMember, RangeOf
<1>3. CASE c.what = "remove"
  <2>1. Apply(d, c).members = Without(d.members, c.user) /\ c.user # d.owner
    BY <1>3 DEF Apply, Allowed, Space
  <2>2. o \in RangeOf(Without(d.members, c.user))
    BY <1>0, <2>1, WithoutKeeps DEF Space
  <2>3. QED  BY <1>0, <2>1, <2>2 DEF IsMember
<1>4. CASE c.what = "role"
  <2>1. PICK k \in DOMAIN d.members : k = FirstEntry(d, c.user) /\ d.members[k].user = c.user
    BY <1>4, FirstEntryThere DEF Allowed
  <2>2. PICK m \in Member : m = [d.members[k] EXCEPT !.role = c.role] /\ m.user = c.user
    <3>1. PICK x \in Member : x = d.members[k]
      BY <2>1 DEF Space
    <3>2. [x EXCEPT !.role = c.role] \in Member /\ [x EXCEPT !.role = c.role].user = x.user
      BY <1>4, ChangeKinds DEF Member
    <3>3. QED  BY <2>1, <3>1, <3>2
  <2>3. PICK ms : ms = [d.members EXCEPT ![k] = m]
    OBVIOUS
  <2>4. Apply(d, c).members = ms
    BY <1>4, <2>1, <2>2, <2>3 DEF Apply, Allowed, Space
  <2>5. DOMAIN ms = DOMAIN d.members /\ \A j \in DOMAIN ms : ms[j].user = d.members[j].user
    BY <2>1, <2>2, <2>3
  <2>6. QED  BY <1>0, <2>4, <2>5 DEF IsMember, RangeOf
<1>5. CASE c.what \in {"rename", "rule", "unrule"}
  <2>1. Apply(d, c).members = d.members
    BY <1>5 DEF Apply, Space
  <2>2. QED  BY <1>0, <2>1 DEF IsMember
<1>6. QED  BY <1>2, <1>3, <1>4, <1>5, ChangeKinds

-----------------------------------------------------------------------------
(* The inductive invariant. *)

\* A request in flight is about a space that was created, and a space that was
\* not has no rows.
Placed ==
  /\ \A p \in Handlers : pc[p] # "idle" => work[p].space \in made
  /\ \A i \in SpaceIds \ made : docs[i] = <<>>

\* Two requests at once on a space are noted.
Solo == \A p, q \in Handlers : pc[p] # "idle" /\ pc[q] # "idle" /\ work[p].space = work[q].space /\ p # q =>
          work[p].space \in raced

\* What a lone request on a space holds is the space as it is, with its edit.
LoneJob ==
  \A p \in Handlers : pc[p] # "idle" /\ work[p].space \notin raced \cup torn =>
    /\ work[p].space \notin dropped
    /\ pc[p] # "remove" => work[p].copy = Apply(truth[work[p].space], work[p].change)
    /\ docs[work[p].space] = IF pc[p] = "add" THEN <<>> ELSE <<truth[work[p].space]>>

\* No update that could bring a deleted space back is under way.
NoComeback == \A i \in gone : docs[i] = <<>> /\ Updating(i) = {}

\* Copies list the owner like the rows do.
OwnersHeld ==
  \A p \in Handlers : pc[p] \in {"delete", "add"} => IsMember(work[p].copy, work[p].copy.owner)

SpInv ==
  /\ SpTypeOK /\ Placed /\ Solo /\ LoneJob /\ NoComeback /\ OwnersHeld
  /\ NoEditLostUnlessRaced /\ NoSpaceLost /\ OwnerStaysMember

\* Nothing is stored and nobody asks.
LEMMA SpacesStart == SpInit => SpInv
<1> SUFFICES ASSUME SpInit  PROVE SpInv
  OBVIOUS
<1>1. PICK u \in Users : u = CHOOSE v \in Users : TRUE
  BY SpacesAssumption
<1>2. NoSpace = [owner |-> u, members |-> <<>>, rules |-> {}]
  BY <1>1 DEF NoSpace
<1>3. NoSpace \in Space
  BY <1>2 DEF Space
<1>4. [what |-> "rename"] \in Change
  BY DEF Change
<1>5. (CHOOSE i \in SpaceIds : TRUE) \in SpaceIds
  BY SpacesAssumption
<1>6. NoWork \in [space : SpaceIds, copy : Space, change : Change]
  BY <1>3, <1>4, <1>5 DEF NoWork
<1>7. <<>> \in Seq(Space)
  OBVIOUS
<1>8. SpTypeOK
  BY <1>3, <1>6, <1>7 DEF SpInit, SpTypeOK
<1>9. Placed /\ Solo /\ LoneJob /\ NoComeback /\ OwnersHeld
  BY DEF SpInit, Placed, Solo, LoneJob, NoComeback, OwnersHeld
<1>10. NoEditLostUnlessRaced /\ NoSpaceLost
  BY DEF SpInit, NoEditLostUnlessRaced, NoSpaceLost
<1>11. OwnerStaysMember
  BY DEF SpInit, OwnerStaysMember, RangeOf
<1>12. QED  BY <1>8, <1>9, <1>10, <1>11 DEF SpInv

\* What a request that ends leaves.
LEMMA Finished ==
  ASSUME SpTypeOK, NEW p \in Handlers, Finish(p)
  PROVE  /\ pc' \in [Handlers -> {"idle", "delete", "add", "remove"}]
         /\ work' \in [Handlers -> [space : SpaceIds, copy : Space, change : Change]]
         /\ pc'[p] = "idle"
         /\ \A q \in Handlers \ {p} : pc'[q] = pc[q] /\ work'[q] = work[q]
<1>1. NoWork \in [space : SpaceIds, copy : Space, change : Change]
  <2>1. PICK u \in Users : u = CHOOSE v \in Users : TRUE
    BY SpacesAssumption
  <2>2. NoSpace = [owner |-> u, members |-> <<>>, rules |-> {}]
    BY <2>1 DEF NoSpace
  <2>3. NoSpace \in Space
    BY <2>2 DEF Space
  <2>4. (CHOOSE i \in SpaceIds : TRUE) \in SpaceIds
    BY SpacesAssumption
  <2>5. [what |-> "rename"] \in Change
    BY DEF Change
  <2>6. QED  BY <2>3, <2>4, <2>5 DEF NoWork
<1>2. QED  BY <1>1 DEF Finish, SpTypeOK

\* A space is created.
LEMMA StepCreate ==
  ASSUME SpInv, NEW u \in Users, NEW i \in SpaceIds, NEW extra \in Extras, CreateSpace(u, i, extra)
  PROVE  SpInv'
<1>1. PICK first \in Seq(Member) : first = <<[user |-> u, role |-> "admin"]>>
  <2>1. PICK m \in Member : m = [user |-> u, role |-> "admin"]
    BY DEF Member, Roles
  <2>2. <<m>> \in Seq(Member)
    OBVIOUS
  <2>3. QED  BY <2>1, <2>2
<1>2. PICK rest \in Seq(Member) : rest = Without(extra, u)
  BY SpacesAssumption, WithoutKeeps
<1>3. PICK d : d = [owner |-> u, rules |-> {}, members |-> first \o rest]
  OBVIOUS
<1>4. first \o rest \in Seq(Member)
  BY ConcatProperties
<1>5. d \in Space /\ d.owner = u /\ d.members = first \o rest
  BY <1>3, <1>4 DEF Space
<1>6. IsMember(d, d.owner)
  <2>1. 1 \in DOMAIN (first \o rest) /\ (first \o rest)[1] = first[1] /\ first[1].user = u
    BY <1>1
  <2>2. QED  BY <1>5, <2>1 DEF IsMember, RangeOf
<1>7. /\ i \notin made
      /\ docs' = [docs EXCEPT ![i] = <<d>>]
      /\ truth' = [truth EXCEPT ![i] = d]
      /\ made' = made \cup {i}
      /\ UNCHANGED <<pc, work, dropped, gone, raced, torn>>
  BY <1>1, <1>2, <1>3 DEF CreateSpace
<1>8. SpTypeOK'
  <2>1. <<d>> \in Seq(Space)
    BY <1>5
  <2>2. QED  BY <1>5, <1>7, <2>1 DEF SpInv, SpTypeOK
<1>9. Placed' /\ Solo'
  BY <1>7 DEF SpInv, SpTypeOK, Placed, Solo
<1>10. \A p \in Handlers : pc[p] # "idle" => work[p].space # i
  BY <1>7 DEF SpInv, Placed
<1>11. LoneJob' /\ OwnersHeld'
  BY <1>7, <1>10 DEF SpInv, SpTypeOK, LoneJob, OwnersHeld
<1>12. NoComeback'
  <2>1. \A j \in SpaceIds : Updating(j)' = Updating(j)
    BY <1>7 DEF Updating
  <2>2. QED  BY <1>7, <2>1 DEF SpInv, SpTypeOK, NoComeback
<1>13. NoEditLostUnlessRaced'
  <2>1. \A j \in SpaceIds : Busy(j)' = Busy(j)
    BY <1>7 DEF Busy
  <2>2. i \notin dropped
    BY <1>7 DEF SpInv, SpTypeOK
  <2>3. QED  BY <1>7, <2>1, <2>2 DEF SpInv, SpTypeOK, NoEditLostUnlessRaced
<1>14. NoSpaceLost'
  BY <1>7 DEF SpInv, SpTypeOK, NoSpaceLost
<1>15. OwnerStaysMember'
  <2>1. RangeOf(<<d>>) = {d}
    BY DEF RangeOf
  <2>2. QED  BY <1>6, <1>7, <2>1 DEF SpInv, SpTypeOK, OwnerStaysMember
<1>16. QED  BY <1>8, <1>9, <1>11, <1>12, <1>13, <1>14, <1>15 DEF SpInv

\* A new request of an idle process, about a space that has a row.
LEMMA StepAsk ==
  ASSUME SpInv, NEW p \in Handlers, NEW i \in SpaceIds, NEW d \in RangeOf(docs[i]), NEW at \in {"delete", "remove"},
         pc[p] = "idle", pc' = [pc EXCEPT ![p] = at],
         work' \in [Handlers -> [space : SpaceIds, copy : Space, change : Change]],
         work'[p].space = i, \A q \in Handlers \ {p} : work'[q] = work[q],
         at = "delete" => /\ work'[p].copy = Apply(d, work'[p].change)
                          /\ Allowed(d, work'[p].change),
         NoteRace(i), UNCHANGED <<docs, made, truth, dropped, gone, torn>>
  PROVE  SpInv'
<1>1. /\ pc' \in [Handlers -> {"idle", "delete", "add", "remove"}] /\ pc'[p] = at
      /\ \A q \in Handlers \ {p} : pc'[q] = pc[q]
  BY DEF SpInv, SpTypeOK
<1>2. i \in made /\ docs[i] # <<>> /\ i \notin gone /\ d \in Space
  <2>1. docs[i] # <<>>
    BY DEF RangeOf
  <2>2. docs[i] \in Seq(Space)
    BY DEF SpInv, SpTypeOK
  <2>3. d \in Space
    BY <2>2 DEF RangeOf
  <2>4. QED  BY <2>1, <2>3 DEF SpInv, Placed, NoComeback
<1>3. /\ raced' \subseteq raced \cup {i} /\ raced \subseteq raced'
      /\ i \notin raced' => Busy(i) = {}
  BY DEF NoteRace
<1>4. SpTypeOK'
  BY <1>1, <1>2, <1>3 DEF SpInv, SpTypeOK
<1>5. Placed'
  BY <1>1, <1>2 DEF SpInv, Placed
<1>6. Solo'
  BY <1>1, <1>3 DEF SpInv, Solo, Busy
<1>7. i \notin raced' \cup torn => i \notin dropped /\ docs[i] = <<truth[i]>> /\ d = truth[i]
  <2>1. SUFFICES ASSUME i \notin raced' \cup torn
                 PROVE  i \notin dropped /\ docs[i] = <<truth[i]>> /\ d = truth[i]
    OBVIOUS
  <2>2. docs[i] = IF i \in dropped THEN <<>> ELSE <<truth[i]>>
    BY <1>2, <1>3, <2>1 DEF SpInv, NoEditLostUnlessRaced
  <2>3. i \notin dropped /\ docs[i] = <<truth[i]>>
    BY <1>2, <2>2
  <2>4. QED  BY <2>3 DEF RangeOf
<1>8. LoneJob'
  <2>1. SUFFICES ASSUME NEW q \in Handlers, pc'[q] # "idle", work'[q].space \notin raced' \cup torn
                 PROVE  /\ work'[q].space \notin dropped
                        /\ pc'[q] # "remove" => work'[q].copy = Apply(truth[work'[q].space], work'[q].change)
                        /\ docs[work'[q].space] = IF pc'[q] = "add" THEN <<>> ELSE <<truth[work'[q].space]>>
    BY DEF LoneJob
  <2>2. CASE q = p
    BY <1>1, <1>7, <2>1, <2>2
  <2>3. CASE q # p
    BY <1>1, <1>3, <2>1, <2>3 DEF SpInv, LoneJob
  <2>4. QED  BY <2>2, <2>3
<1>9. NoComeback'
  <2>1. \A j \in gone : Updating(j)' \subseteq Updating(j)
    BY <1>1, <1>2 DEF Updating
  <2>2. QED  BY <2>1 DEF SpInv, NoComeback
<1>10. OwnersHeld'
  <2>1. IsMember(d, d.owner)
    BY DEF SpInv, OwnerStaysMember
  <2>2. ASSUME at = "delete"  PROVE IsMember(work'[p].copy, work'[p].copy.owner)
    BY <1>2, <2>1, <2>2, ApplyKeepsOwner
  <2>3. QED  BY <1>1, <2>2 DEF SpInv, OwnersHeld
<1>11. NoEditLostUnlessRaced'
  <2>1. \A j \in SpaceIds : Busy(j) \subseteq Busy(j)'
    BY <1>1 DEF Busy
  <2>2. QED  BY <1>3, <2>1 DEF SpInv, NoEditLostUnlessRaced, SpTypeOK
<1>12. NoSpaceLost'
  BY <1>1 DEF SpInv, NoSpaceLost
<1>13. OwnerStaysMember'
  BY DEF SpInv, OwnerStaysMember
<1>14. QED  BY <1>4, <1>5, <1>6, <1>8, <1>9, <1>10, <1>11, <1>12, <1>13 DEF SpInv

\* A request to change a space is accepted.
LEMMA StepUpdateStart ==
  ASSUME SpInv, NEW p \in Handlers, NEW u \in Users, NEW i \in SpaceIds, NEW c \in Changes, UpdateStart(p, u, i, c)
  PROVE  SpInv'
<1>1. PICK d \in RangeOf(docs[i]) :
        Allowed(d, c) /\ work' = [work EXCEPT ![p] = [space |-> i, copy |-> Apply(d, c), change |-> c]]
  BY DEF UpdateStart
<1>2. d \in Space /\ c \in Change
  BY SpacesAssumption DEF SpInv, SpTypeOK, RangeOf
<1>3. PICK j \in [space : SpaceIds, copy : Space, change : Change] :
        j.space = i /\ j.copy = Apply(d, c) /\ j.change = c /\ work' = [work EXCEPT ![p] = j]
  BY <1>1, <1>2, ApplyTypes
<1>4. /\ work' \in [Handlers -> [space : SpaceIds, copy : Space, change : Change]]
      /\ work'[p] = j /\ \A q \in Handlers \ {p} : work'[q] = work[q]
  BY <1>3 DEF SpInv, SpTypeOK
<1>5. pc[p] = "idle" /\ pc' = [pc EXCEPT ![p] = "delete"] /\ NoteRace(i)
      /\ UNCHANGED <<docs, made, truth, dropped, gone, torn>>
  BY DEF UpdateStart
<1>6. QED  BY <1>1, <1>3, <1>4, <1>5, StepAsk

\* A request to delete a space is accepted.
LEMMA StepDeleteStart ==
  ASSUME SpInv, NEW p \in Handlers, NEW u \in Users, NEW i \in SpaceIds, DeleteStart(p, u, i)
  PROVE  SpInv'
<1>1. PICK d \in RangeOf(docs[i]) : IsAdmin(d, u)
  BY DEF DeleteStart
<1>2. PICK j \in [space : SpaceIds, copy : Space, change : Change] :
        j.space = i /\ work' = [work EXCEPT ![p] = j]
  <2>1. PICK k \in [space : SpaceIds, copy : Space, change : Change] : k = work[p]
    BY DEF SpInv, SpTypeOK
  <2>2. [k EXCEPT !.space = i] \in [space : SpaceIds, copy : Space, change : Change]
    OBVIOUS
  <2>3. QED  BY <2>1, <2>2 DEF DeleteStart, SpInv, SpTypeOK
<1>3. /\ work' \in [Handlers -> [space : SpaceIds, copy : Space, change : Change]]
      /\ work'[p] = j /\ \A q \in Handlers \ {p} : work'[q] = work[q]
  BY <1>2 DEF SpInv, SpTypeOK
<1>4. pc[p] = "idle" /\ pc' = [pc EXCEPT ![p] = "remove"] /\ NoteRace(i)
      /\ UNCHANGED <<docs, made, truth, dropped, gone, torn>>
  BY DEF DeleteStart
<1>5. QED  BY <1>1, <1>2, <1>3, <1>4, StepAsk

\* An update deletes the rows of its space.
LEMMA StepUpdateDelete ==
  ASSUME SpInv, NEW p \in Handlers, UpdateDelete(p)
  PROVE  SpInv'
<1>1. PICK i \in SpaceIds : i = work[p].space
  BY DEF SpInv, SpTypeOK
<1>2. /\ pc[p] = "delete" /\ pc' = [pc EXCEPT ![p] = "add"]
      /\ docs' = [docs EXCEPT ![i] = <<>>]
      /\ UNCHANGED <<work, made, truth, dropped, gone, raced, torn>>
  BY <1>1 DEF UpdateDelete
<1>3. /\ pc' \in [Handlers -> {"idle", "delete", "add", "remove"}] /\ pc'[p] = "add"
      /\ \A q \in Handlers \ {p} : pc'[q] = pc[q]
      /\ docs' \in [SpaceIds -> Seq(Space)] /\ docs'[i] = <<>>
      /\ \A j \in SpaceIds \ {i} : docs'[j] = docs[j]
  BY <1>2 DEF SpInv, SpTypeOK
<1>4. SpTypeOK'
  BY <1>2, <1>3 DEF SpInv, SpTypeOK
<1>5. Placed' /\ Solo'
  BY <1>2, <1>3 DEF SpInv, Placed, Solo
<1>6. LoneJob'
  <2>1. SUFFICES ASSUME NEW q \in Handlers, pc'[q] # "idle", work[q].space \notin raced \cup torn
                 PROVE  /\ work[q].space \notin dropped
                        /\ pc'[q] # "remove" => work[q].copy = Apply(truth[work[q].space], work[q].change)
                        /\ docs'[work[q].space] = IF pc'[q] = "add" THEN <<>> ELSE <<truth[work[q].space]>>
    BY <1>2 DEF LoneJob
  <2>2. CASE q = p
    BY <1>1, <1>2, <1>3, <2>1, <2>2 DEF SpInv, LoneJob
  <2>3. CASE q # p
    <3>1. work[q].space # i
      BY <1>1, <1>2, <1>3, <2>1, <2>3 DEF SpInv, Solo
    <3>2. work[q].space \in SpaceIds
      BY DEF SpInv, SpTypeOK
    <3>3. QED  BY <1>3, <2>1, <2>3, <3>1, <3>2 DEF SpInv, LoneJob
  <2>4. QED  BY <2>2, <2>3
<1>7. NoComeback'
  <2>1. \A j \in SpaceIds : Updating(j)' = Updating(j)
    BY <1>2, <1>3 DEF Updating
  <2>2. gone \subseteq SpaceIds
    BY DEF SpInv, SpTypeOK
  <2>3. QED  BY <1>2, <1>3, <2>1, <2>2 DEF SpInv, NoComeback
<1>8. OwnersHeld'
  BY <1>2, <1>3 DEF SpInv, OwnersHeld
<1>9. NoEditLostUnlessRaced'
  <2>1. \A j \in SpaceIds : Busy(j)' = Busy(j)
    BY <1>2, <1>3 DEF Busy
  <2>2. p \in Busy(i)
    BY <1>1, <1>2 DEF Busy
  <2>3. made \subseteq SpaceIds
    BY DEF SpInv, SpTypeOK
  <2>4. QED  BY <1>2, <1>3, <2>1, <2>2, <2>3 DEF SpInv, NoEditLostUnlessRaced
<1>10. NoSpaceLost'
  <2>1. made \subseteq SpaceIds
    BY DEF SpInv, SpTypeOK
  <2>2. QED  BY <1>1, <1>2, <1>3, <2>1 DEF SpInv, NoSpaceLost
<1>11. OwnerStaysMember'
  <2>1. RangeOf(<<>>) = {}
    BY DEF RangeOf
  <2>2. QED  BY <1>3, <2>1 DEF SpInv, OwnerStaysMember
<1>12. QED  BY <1>4, <1>5, <1>6, <1>7, <1>8, <1>9, <1>10, <1>11 DEF SpInv

\* What happens to the rows of other spaces and to other requests when p is
\* done with space i.
LEMMA OthersStay ==
  ASSUME SpInv, NEW p \in Handlers, NEW i \in SpaceIds, i = work[p].space, pc[p] # "idle", Finish(p),
         \A j \in SpaceIds \ {i} : docs'[j] = docs[j] /\ truth'[j] = truth[j],
         dropped' \subseteq dropped \cup {i}, torn \subseteq torn',
         UNCHANGED <<made, raced>>
  PROVE  /\ Placed' /\ Solo' /\ LoneJob'
         /\ \A j \in SpaceIds : Updating(j)' = Updating(j) \ {p} /\ Busy(j)' = Busy(j) \ {p}
<1>1. /\ pc'[p] = "idle" /\ \A q \in Handlers \ {p} : pc'[q] = pc[q] /\ work'[q] = work[q]
  BY Finished DEF SpInv
<1>2. i \in made /\ made \subseteq SpaceIds
  BY DEF SpInv, Placed, SpTypeOK
<1>3. Placed'
  BY <1>1, <1>2 DEF SpInv, Placed
<1>4. Solo'
  BY <1>1 DEF SpInv, Solo
<1>5. LoneJob'
  <2>1. SUFFICES ASSUME NEW q \in Handlers, pc'[q] # "idle", work'[q].space \notin raced' \cup torn'
                 PROVE  /\ work'[q].space \notin dropped'
                        /\ pc'[q] # "remove" => work'[q].copy = Apply(truth'[work'[q].space], work'[q].change)
                        /\ docs'[work'[q].space] = IF pc'[q] = "add" THEN <<>> ELSE <<truth'[work'[q].space]>>
    BY DEF LoneJob
  <2>2. q # p /\ pc'[q] = pc[q] /\ work'[q] = work[q]
    BY <1>1, <2>1
  <2>3. work[q].space # i
    BY <2>1, <2>2 DEF SpInv, Solo
  <2>4. work[q].space \in SpaceIds
    BY DEF SpInv, SpTypeOK
  <2>5. /\ work[q].space \notin dropped
        /\ pc[q] # "remove" => work[q].copy = Apply(truth[work[q].space], work[q].change)
        /\ docs[work[q].space] = IF pc[q] = "add" THEN <<>> ELSE <<truth[work[q].space]>>
    BY <2>1, <2>2 DEF SpInv, LoneJob
  <2>6. QED  BY <2>2, <2>3, <2>4, <2>5
<1>6. \A j \in SpaceIds : Updating(j)' = Updating(j) \ {p} /\ Busy(j)' = Busy(j) \ {p}
  BY <1>1 DEF Updating, Busy
<1>7. QED  BY <1>3, <1>4, <1>5, <1>6

\* An update inserts its copy.
LEMMA StepUpdateAdd ==
  ASSUME SpInv, NEW p \in Handlers, UpdateAdd(p)
  PROVE  SpInv'
<1>1. PICK i \in SpaceIds : i = work[p].space
  BY DEF SpInv, SpTypeOK
<1>2. PICK copy \in Space, c \in Change : copy = work[p].copy /\ c = work[p].change
  BY DEF SpInv, SpTypeOK
<1>3. PICK old \in Seq(Space) : old = docs[i]
  BY DEF SpInv, SpTypeOK
<1>4. PICK t \in Space : t = truth[i]
  BY DEF SpInv, SpTypeOK
<1>5. PICK new \in Seq(Space) : new = Append(old, copy)
  BY AppendProperties
<1>6. PICK now \in Space : now = Followed(i, t, c)
  BY ApplyTypes DEF Followed
<1>7. /\ pc[p] = "add" /\ docs' = [docs EXCEPT ![i] = new] /\ truth' = [truth EXCEPT ![i] = now]
      /\ Finish(p) /\ UNCHANGED <<made, dropped, gone, raced, torn>>
  BY <1>1, <1>2, <1>3, <1>4, <1>5, <1>6 DEF UpdateAdd
<1>8. /\ docs' \in [SpaceIds -> Seq(Space)] /\ docs'[i] = new
      /\ truth' \in [SpaceIds -> Space] /\ truth'[i] = now
      /\ \A j \in SpaceIds \ {i} : docs'[j] = docs[j] /\ truth'[j] = truth[j]
  BY <1>7 DEF SpInv, SpTypeOK
<1>9. /\ pc' \in [Handlers -> {"idle", "delete", "add", "remove"}]
      /\ work' \in [Handlers -> [space : SpaceIds, copy : Space, change : Change]]
      /\ pc'[p] = "idle" /\ \A q \in Handlers \ {p} : pc'[q] = pc[q] /\ work'[q] = work[q]
  BY <1>7, Finished DEF SpInv
<1>10. /\ Placed' /\ Solo' /\ LoneJob'
       /\ \A j \in SpaceIds : Updating(j)' = Updating(j) \ {p} /\ Busy(j)' = Busy(j) \ {p}
  BY <1>1, <1>7, <1>8, OthersStay
<1>11. SpTypeOK'
  BY <1>7, <1>8, <1>9 DEF SpInv, SpTypeOK
<1>12. p \in Updating(i) /\ i \notin gone
  BY <1>1, <1>7 DEF SpInv, NoComeback, Updating
<1>13. NoComeback'
  <2>1. gone \subseteq SpaceIds
    BY DEF SpInv, SpTypeOK
  <2>2. QED  BY <1>7, <1>8, <1>10, <1>12, <2>1 DEF SpInv, NoComeback
<1>14. OwnersHeld'
  BY <1>9 DEF SpInv, OwnersHeld
<1>15. NoEditLostUnlessRaced'
  <2>1. ASSUME NEW j \in made \ (raced \cup torn), Busy(j)' = {}
        PROVE  docs'[j] = IF j \in dropped THEN <<>> ELSE <<truth'[j]>>
    <3>1. j \in SpaceIds
      BY DEF SpInv, SpTypeOK
    <3>2. CASE j = i
      <4>1. i \notin dropped /\ copy = Apply(t, c) /\ old = <<>>
        BY <1>1, <1>2, <1>3, <1>4, <1>7, <2>1, <3>2 DEF SpInv, LoneJob
      <4>2. new = <<copy>> /\ now = copy
        BY <1>5, <1>6, <2>1, <3>2, <4>1 DEF Followed
      <4>3. QED  BY <1>8, <3>2, <4>1, <4>2
    <3>3. CASE j # i
      <4>1. p \notin Busy(j)
        BY <1>1, <3>3 DEF Busy
      <4>2. Busy(j) = {}
        BY <1>10, <2>1, <3>1, <4>1
      <4>3. QED  BY <1>8, <2>1, <3>1, <3>3, <4>2 DEF SpInv, NoEditLostUnlessRaced
    <3>4. QED  BY <3>2, <3>3
  <2>2. QED  BY <1>7, <2>1 DEF NoEditLostUnlessRaced
<1>16. NoSpaceLost'
  <2>1. new # <<>>
    BY <1>5
  <2>2. made \subseteq SpaceIds
    BY DEF SpInv, SpTypeOK
  <2>3. QED  BY <1>1, <1>7, <1>8, <1>9, <2>1, <2>2 DEF SpInv, NoSpaceLost
<1>17. OwnerStaysMember'
  <2>1. RangeOf(new) = RangeOf(old) \cup {copy}
    <3>1. /\ DOMAIN new = DOMAIN old \cup {Len(old) + 1}
          /\ \A k \in DOMAIN old : new[k] = old[k]
          /\ new[Len(old) + 1] = copy
      BY <1>5
    <3>2. QED  BY <3>1 DEF RangeOf
  <2>2. IsMember(copy, copy.owner)
    BY <1>2, <1>7 DEF SpInv, OwnersHeld
  <2>3. QED  BY <1>3, <1>8, <2>1, <2>2 DEF SpInv, OwnerStaysMember
<1>18. QED  BY <1>10, <1>11, <1>13, <1>14, <1>15, <1>16, <1>17 DEF SpInv

\* A delete takes the rows of its space.
LEMMA StepDelete ==
  ASSUME SpInv, NEW p \in Handlers, DeleteSpace(p)
  PROVE  SpInv'
<1>1. PICK i \in SpaceIds : i = work[p].space
  BY DEF SpInv, SpTypeOK
<1>2. /\ pc[p] = "remove" /\ docs' = [docs EXCEPT ![i] = <<>>] /\ dropped' = dropped \cup {i}
      /\ gone' = IF Updating(i) = {} THEN gone \cup {i} ELSE gone
      /\ Finish(p) /\ UNCHANGED <<made, truth, raced, torn>>
  BY <1>1 DEF DeleteSpace
<1>3. /\ docs' \in [SpaceIds -> Seq(Space)] /\ docs'[i] = <<>>
      /\ \A j \in SpaceIds \ {i} : docs'[j] = docs[j]
  BY <1>2 DEF SpInv, SpTypeOK
<1>4. /\ pc' \in [Handlers -> {"idle", "delete", "add", "remove"}]
      /\ work' \in [Handlers -> [space : SpaceIds, copy : Space, change : Change]]
      /\ pc'[p] = "idle" /\ \A q \in Handlers \ {p} : pc'[q] = pc[q] /\ work'[q] = work[q]
  BY <1>2, Finished DEF SpInv
<1>5. /\ Placed' /\ Solo' /\ LoneJob'
      /\ \A j \in SpaceIds : Updating(j)' = Updating(j) \ {p} /\ Busy(j)' = Busy(j) \ {p}
  BY <1>1, <1>2, <1>3, OthersStay
<1>6. i \in made
  BY <1>1, <1>2 DEF SpInv, Placed
<1>7. SpTypeOK'
  BY <1>2, <1>3, <1>4, <1>6 DEF SpInv, SpTypeOK
<1>8. NoComeback'
  <2>1. gone \subseteq SpaceIds
    BY DEF SpInv, SpTypeOK
  <2>2. QED  BY <1>2, <1>3, <1>5, <2>1 DEF SpInv, NoComeback
<1>9. OwnersHeld'
  BY <1>4 DEF SpInv, OwnersHeld
<1>10. NoEditLostUnlessRaced'
  <2>1. ASSUME NEW j \in made \ (raced \cup torn), Busy(j)' = {}
        PROVE  docs'[j] = IF j \in dropped' THEN <<>> ELSE <<truth[j]>>
    <3>1. j \in SpaceIds
      BY DEF SpInv, SpTypeOK
    <3>2. CASE j = i
      BY <1>2, <1>3, <3>2
    <3>3. CASE j # i
      <4>1. p \notin Busy(j)
        BY <1>1, <3>3 DEF Busy
      <4>2. Busy(j) = {}
        BY <1>5, <2>1, <3>1, <4>1
      <4>3. QED  BY <1>2, <1>3, <2>1, <3>1, <3>3, <4>2 DEF SpInv, NoEditLostUnlessRaced
    <3>4. QED  BY <3>2, <3>3
  <2>2. QED  BY <1>2, <2>1 DEF NoEditLostUnlessRaced
<1>11. NoSpaceLost'
  <2>1. made \subseteq SpaceIds
    BY DEF SpInv, SpTypeOK
  <2>2. QED  BY <1>2, <1>3, <1>4, <2>1 DEF SpInv, NoSpaceLost
<1>12. OwnerStaysMember'
  <2>1. RangeOf(<<>>) = {}
    BY DEF RangeOf
  <2>2. QED  BY <1>3, <2>1 DEF SpInv, OwnerStaysMember
<1>13. QED  BY <1>5, <1>7, <1>8, <1>9, <1>10, <1>11, <1>12 DEF SpInv

\* A request stops where it is.
LEMMA StepDrop ==
  ASSUME SpInv, NEW p \in Handlers, Drop(p)
  PROVE  SpInv'
<1>1. PICK i \in SpaceIds : i = work[p].space
  BY DEF SpInv, SpTypeOK
<1>2. /\ pc[p] # "idle" /\ torn' = IF pc[p] = "add" THEN torn \cup {i} ELSE torn
      /\ Finish(p) /\ UNCHANGED <<docs, made, truth, dropped, gone, raced>>
  BY <1>1 DEF Drop
<1>3. /\ pc' \in [Handlers -> {"idle", "delete", "add", "remove"}]
      /\ work' \in [Handlers -> [space : SpaceIds, copy : Space, change : Change]]
      /\ pc'[p] = "idle" /\ \A q \in Handlers \ {p} : pc'[q] = pc[q] /\ work'[q] = work[q]
  BY <1>2, Finished DEF SpInv
<1>4. /\ Placed' /\ Solo' /\ LoneJob'
      /\ \A j \in SpaceIds : Updating(j)' = Updating(j) \ {p} /\ Busy(j)' = Busy(j) \ {p}
  BY <1>1, <1>2, OthersStay
<1>5. i \in made
  BY <1>1, <1>2 DEF SpInv, Placed
<1>6. SpTypeOK'
  BY <1>2, <1>3, <1>5 DEF SpInv, SpTypeOK
<1>7. NoComeback'
  <2>1. gone \subseteq SpaceIds
    BY DEF SpInv, SpTypeOK
  <2>2. QED  BY <1>2, <1>4, <2>1 DEF SpInv, NoComeback
<1>8. OwnersHeld'
  BY <1>3 DEF SpInv, OwnersHeld
<1>9. NoEditLostUnlessRaced'
  <2>1. ASSUME NEW j \in made \ (raced \cup torn'), Busy(j)' = {}
        PROVE  docs[j] = IF j \in dropped THEN <<>> ELSE <<truth[j]>>
    <3>1. j \in SpaceIds /\ j \notin raced \cup torn
      BY <1>2, <2>1 DEF SpInv, SpTypeOK
    <3>2. CASE j = i
      <4>1. pc[p] # "add"
        BY <1>2, <2>1, <3>2
      <4>2. QED  BY <1>1, <1>2, <3>1, <3>2, <4>1 DEF SpInv, LoneJob
    <3>3. CASE j # i
      <4>1. p \notin Busy(j)
        BY <1>1, <3>3 DEF Busy
      <4>2. Busy(j) = {}
        BY <1>4, <2>1, <3>1, <4>1
      <4>3. QED  BY <2>1, <3>1, <4>2 DEF SpInv, NoEditLostUnlessRaced
    <3>4. QED  BY <3>2, <3>3
  <2>2. QED  BY <1>2, <2>1 DEF NoEditLostUnlessRaced
<1>10. NoSpaceLost'
  BY <1>1, <1>2, <1>3 DEF SpInv, NoSpaceLost
<1>11. OwnerStaysMember'
  BY <1>2 DEF SpInv, OwnerStaysMember
<1>12. QED  BY <1>4, <1>6, <1>7, <1>8, <1>9, <1>10, <1>11 DEF SpInv

\* Nothing happens.
LEMMA SpacesStay == SpInv /\ UNCHANGED spvars => SpInv'
<1> SUFFICES ASSUME SpInv, UNCHANGED spvars  PROVE SpInv'
  OBVIOUS
<1>1. SpTypeOK' /\ Placed' /\ Solo' /\ LoneJob'
  BY DEF SpInv, spvars, SpTypeOK, Placed, Solo, LoneJob
<1>2. NoComeback' /\ OwnersHeld'
  BY DEF SpInv, spvars, NoComeback, Updating, OwnersHeld
<1>3. NoEditLostUnlessRaced' /\ NoSpaceLost' /\ OwnerStaysMember'
  BY DEF SpInv, spvars, NoEditLostUnlessRaced, Busy, NoSpaceLost, OwnerStaysMember
<1>4. QED  BY <1>1, <1>2, <1>3 DEF SpInv

\* Every step keeps the invariant.
LEMMA SpacesStep == SpInv /\ [SpNext]_spvars => SpInv'
<1> SUFFICES ASSUME SpInv, [SpNext]_spvars  PROVE SpInv'
  OBVIOUS
<1>1. CASE \E u \in Users, i \in SpaceIds, extra \in Extras : CreateSpace(u, i, extra)
  BY <1>1, StepCreate
<1>2. CASE \E p \in Handlers, u \in Users, i \in SpaceIds : DeleteStart(p, u, i)
  BY <1>2, StepDeleteStart
<1>3. CASE \E p \in Handlers, u \in Users, i \in SpaceIds : \E c \in Changes : UpdateStart(p, u, i, c)
  BY <1>3, StepUpdateStart
<1>4. CASE \E p \in Handlers : UpdateDelete(p) \/ UpdateAdd(p) \/ DeleteSpace(p) \/ Drop(p)
  BY <1>4, StepUpdateDelete, StepUpdateAdd, StepDelete, StepDrop
<1>5. CASE UNCHANGED spvars
  BY <1>5, SpacesStay
<1>6. QED  BY <1>1, <1>2, <1>3, <1>4, <1>5 DEF SpNext

\* Through racing and interrupted requests, for any number of users, spaces and
\* requests: a lone request's edit is applied to the latest document, a space
\* is missing only for a delete or an update that is cut in half or under way,
\* one deleted while no update of it was in flight stays deleted, and an owner
\* stays a member (store/spaces.rs:268-362, api/handlers/spaces.rs).
THEOREM SpacesAreSafe == SpSpec => []SpacesSafe
<1>1. SpInv => SpacesSafe
  BY DEF SpInv, SpacesSafe, NoComeback, DeletedSpaceStaysDeleted
<1>2. QED  BY <1>1, SpacesStart, SpacesStep, PTL DEF SpSpec

(***************************************************************************)
(* Reconciler, for any facts, texts, similarities, sessions, requests and  *)
(* batches at a time: what is written was stored and, once it is marked as *)
(* superseded by a batch alone, is nowhere unmarked; facts that passed the *)
(* exact match are unknown to the snapshot; each stage and each decision   *)
(* holds the rows that it needs.                                           *)
(***************************************************************************)

\* The rows that batch p has copies of.
Copies(p) == job[p].snap \cup job[p].held \cup job[p].own \cup job[p].pend

\* What is written was stored before, and so was its successor; what is pinned
\* has none.
Sound(m) ==
  /\ m.id \in used /\ (m.heir # "none" => m.heir \in used)
  /\ m.pinned => m.heir = "none"
AllSound == (\A m \in rows : Sound(m)) /\ \A p \in Procs : \A m \in Copies(p) : Sound(m)

\* A memory that was marked while no other batch was running is marked in the
\* table and in every copy that can still be written.
Marked(m) == m.id \in retired \ contended => m.heir # "none"
AllMarked ==
  /\ \A m \in rows : Marked(m)
  /\ \A p \in Procs : \A m \in job[p].held \cup job[p].own \cup job[p].pend : Marked(m)
  /\ \A p \in Procs : stage[p] \in {"gather", "match", "merge"} =>
       \A m \in job[p].snap : Marked(m)

\* What was stored is there, being rewritten, or gone for a cause.
AllStored ==
  \A i \in used :
    i \in removed \cup IdsOf(rows) \cup UNION {IdsOf(job[p].pend) : p \in Procs}

\* What a batch holds at each of its stages.
OneOf(S) == \E m \in Row : S = {m}
Holding(p) == OneOf(job[p].held)
Renewing(p) ==
  \E h, o \in Row : /\ job[p].held = {h} /\ job[p].own = {o}
                    /\ ~h.pinned /\ h.id # o.id
Relating(p) ==
  \E o \in Row : /\ job[p].own = {o} /\ ~o.pinned
                 /\ (job[p].held = {} \/ \E h \in Row : job[p].held = {h} /\ h.id # o.id)
Shape(p) ==
  /\ stage[p] = "idle" => job[p] = NoJob
  /\ stage[p] # "decide" => job[p].rest = "none"
  /\ stage[p] \in {"gather", "create", "decide"} => job[p].left = <<>>
  /\ stage[p] = "create" => job[p].snap = {}
  /\ job[p].pend # {} => /\ OneOf(job[p].pend)
                         /\ \/ stage[p] \in {"match", "merge"} /\ job[p].facts # <<>>
                            \/ job[p].rest \in {"merge", "relate"}
  /\ job[p].rest = "none" => job[p].held = {} /\ job[p].own = {} /\ job[p].fact = "none"
  /\ job[p].rest # "none" => job[p].fact \in Facts
  /\ job[p].rest \in {"merge", "supersede", "support", "contradict", "evidence"} => Holding(p)
  /\ job[p].rest = "mark" => Renewing(p)
  /\ job[p].rest = "relate" => Relating(p)
Shapes == \A p \in Procs : Shape(p)

\* A snapshot shows a memory once.
OneEach == \A p \in Procs : \A a, b \in job[p].snap : a.id = b.id => a = b

\* The facts that have passed the exact match have no duplicate in the snapshot.
Apart(s, f) ==
  /\ s.content # {Source[f]} /\ s.abst # {} /\ s.abst # {f}
  /\ \A g \in Facts : s.abst = {g} => <<f, g>> \notin Kin
Unknown(p, f) == \A s \in job[p].snap : Apart(s, f)
Passed(p) ==
  /\ \A f \in Range(job[p].left) : Unknown(p, f)
  /\ stage[p] \in {"create", "merge", "decide"} =>
       \A f \in Range(job[p].facts) : Unknown(p, f)
  /\ job[p].fact # "none" => Unknown(p, job[p].fact)
AllPassed == \A p \in Procs : Passed(p)

ReInv ==
  /\ TypeOK /\ retired \subseteq used /\ AllSound /\ AllMarked /\ AllStored /\ Shapes
  /\ OneEach /\ AllPassed

-----------------------------------------------------------------------------
(* Steps of one batch. *)

\* The batches other than p are left alone.
Local(p) == \A q \in Procs \ {p} : job'[q] = job[q] /\ stage'[q] = stage[q]

\* What a step of p, apart from Mark, owes to the invariant.
Kept(p) ==
  /\ TypeOK' /\ Local(p)
  /\ used \subseteq used' /\ removed \subseteq removed'
  /\ used' \subseteq used \cup IdsOf(rows')
  /\ retired' = retired /\ contended' = contended
  /\ \A m \in rows' \cup Copies(p)' : Sound(m)'
  /\ \A m \in rows' \cup job'[p].held \cup job'[p].own \cup job'[p].pend : Marked(m)
  /\ stage'[p] \in {"gather", "match", "merge"} => \A m \in job'[p].snap : Marked(m)
  /\ IdsOf(rows) \cup IdsOf(job[p].pend) \subseteq
       removed' \cup IdsOf(rows') \cup IdsOf(job'[p].pend)
  /\ Shape(p)' /\ Passed(p)'
  /\ \A a, b \in job'[p].snap : a.id = b.id => a = b

\* A step of one batch that keeps what Kept asks for keeps the invariant.
LEMMA KeptInv ==
  ASSUME NEW p \in Procs, ReInv, Kept(p)
  PROVE  ReInv'
<1>1. TypeOK' /\ (retired \subseteq used)'
  BY DEF ReInv, Kept
<1>2. AllSound'
  <2>1. ASSUME NEW q \in Procs, q # p, NEW m \in Copies(q)'
        PROVE  Sound(m)'
    <3>1. m \in Copies(q)
      BY <2>1 DEF Kept, Local, Copies
    <3>2. Sound(m)
      BY <3>1 DEF ReInv, AllSound
    <3> QED  BY <3>2 DEF Sound, Kept
  <2> QED  BY <2>1 DEF AllSound, Kept
<1>3. AllMarked'
  <2>1. ASSUME NEW q \in Procs, q # p
        PROVE  /\ job'[q] = job[q] /\ stage'[q] = stage[q]
               /\ \A m \in job[q].held \cup job[q].own \cup job[q].pend : Marked(m)
               /\ stage[q] \in {"gather", "match", "merge"} =>
                    \A m \in job[q].snap : Marked(m)
    BY <2>1 DEF Kept, Local, ReInv, AllMarked
  <2>2. \A m : Marked(m)' <=> Marked(m)
    BY DEF Kept, Marked
  <2> QED  BY <2>1, <2>2 DEF AllMarked, Kept
<1>4. AllStored'
  <2> SUFFICES ASSUME NEW i \in used'
               PROVE  i \in removed' \cup IdsOf(rows')
                          \cup UNION {IdsOf(job'[q].pend) : q \in Procs}
    BY DEF AllStored, IdsOf
  <2>1. CASE i \in used
    <3>1. i \in removed \cup IdsOf(rows) \cup UNION {IdsOf(job[q].pend) : q \in Procs}
      BY <2>1 DEF ReInv, AllStored
    <3>2. ASSUME NEW q \in Procs, i \in IdsOf(job[q].pend)
          PROVE  i \in removed' \cup IdsOf(rows') \cup IdsOf(job'[p].pend)
                 \/ i \in IdsOf(job'[q].pend)
      BY <3>2 DEF Kept, Local
    <3> QED  BY <3>1, <3>2 DEF Kept
  <2>2. CASE i \notin used
    BY <2>2 DEF Kept
  <2> QED  BY <2>1, <2>2
<1>5. Shapes'
  <2>1. ASSUME NEW q \in Procs, q # p PROVE Shape(q)'
    <3>1. job'[q] = job[q] /\ stage'[q] = stage[q] /\ Shape(q)
      BY <2>1 DEF Kept, Local, ReInv, Shapes
    <3> QED  BY <3>1 DEF Shape, Holding, Renewing, Relating, OneOf
  <2> QED  BY <2>1 DEF Shapes, Kept
<1>6. OneEach'
  <2>1. ASSUME NEW q \in Procs, q # p PROVE job'[q] = job[q]
    BY <2>1 DEF Kept, Local
  <2> QED  BY <2>1 DEF OneEach, Kept, ReInv
<1>7. AllPassed'
  <2>1. ASSUME NEW q \in Procs, q # p PROVE Passed(q)'
    <3>1. job'[q] = job[q] /\ stage'[q] = stage[q] /\ Passed(q)
      BY <2>1 DEF Kept, Local, ReInv, AllPassed
    <3> QED  BY <3>1 DEF Passed, Unknown, Apart
  <2> QED  BY <2>1 DEF AllPassed, Kept
<1> QED  BY <1>1, <1>2, <1>3, <1>4, <1>5, <1>6, <1>7 DEF ReInv

\* What the searches of gather and the decisions read is in the table.
LEMMA QuietStep ==
  ASSUME NEW p \in Procs, ReInv, Local(p), job' \in [Procs -> Job], stage' \in [Procs -> Stages],
         requests' \in 0 .. MaxRequests,
         UNCHANGED <<rows, used, removed, retired, contended>>,
         job'[p].pend = job[p].pend,
         job'[p].held \cup job'[p].own \subseteq job[p].held \cup job[p].own \cup rows,
         job'[p].snap \subseteq job[p].snap \cup rows,
         stage'[p] \in {"gather", "match", "merge"} =>
           stage[p] \in {"gather", "match", "merge"} \/ job'[p].snap = {},
         \A a, b \in job'[p].snap : a.id = b.id => a = b,
         Shape(p)', Passed(p)'
  PROVE  Kept(p)
<1>1. TypeOK'
  BY DEF ReInv, TypeOK
<1>2. \A m : Sound(m) <=> Sound(m)'
  BY DEF Sound
<1>3. \A m \in rows \cup Copies(p) : Sound(m)
  BY DEF ReInv, AllSound
<1>4. rows' \cup Copies(p)' \subseteq rows \cup Copies(p)
  BY DEF Copies
<1>5. /\ \A m \in rows \cup job[p].held \cup job[p].own \cup job[p].pend : Marked(m)
      /\ stage[p] \in {"gather", "match", "merge"} => \A m \in job[p].snap : Marked(m)
  BY DEF ReInv, AllMarked
<1>6. \A m \in rows' \cup job'[p].held \cup job'[p].own \cup job'[p].pend : Marked(m)
  BY <1>5
<1>7. stage'[p] \in {"gather", "match", "merge"} => \A m \in job'[p].snap : Marked(m)
  BY <1>5
<1>8. \A m \in rows' \cup Copies(p)' : Sound(m)'
  BY <1>2, <1>3, <1>4
<1> QED  BY <1>1, <1>6, <1>7, <1>8 DEF Kept, IdsOf

\* A new memory is stored for a fact.
LEMMA StoreStep ==
  ASSUME NEW p \in Procs, ReInv, Local(p), job' \in [Procs -> Job],
         UNCHANGED <<stage, requests, removed, retired, contended>>,
         NEW m \in Row, Store(m), ~m.pinned, m.heir = "none",
         job[p].pend = {}, job'[p].pend = {},
         job'[p].held \subseteq job[p].held, job'[p].own \subseteq job[p].own \cup {m},
         job'[p].snap = job[p].snap, Shape(p)', Passed(p)'
  PROVE  Kept(p)
<1>1. TypeOK'
  <2>1. m.id \in Ids
    BY DEF Row
  <2> QED  BY <2>1 DEF ReInv, TypeOK, Store
<1>2. Sound(m)' /\ \A n : Sound(n) => Sound(n)'
  BY DEF Sound, Store
<1>3. \A n \in rows \cup Copies(p) : Sound(n)
  BY DEF ReInv, AllSound
<1>4. rows' \cup Copies(p)' \subseteq rows \cup Copies(p) \cup {m}
  BY DEF Copies, Store
<1>5. /\ \A n \in rows \cup job[p].held \cup job[p].own \cup job[p].pend : Marked(n)
      /\ stage[p] \in {"gather", "match", "merge"} => \A n \in job[p].snap : Marked(n)
  BY DEF ReInv, AllMarked
<1>6. Marked(m)
  BY DEF Marked, Store, ReInv
<1>7. \A n \in rows' \cup job'[p].held \cup job'[p].own \cup job'[p].pend : Marked(n)
  BY <1>5, <1>6 DEF Store
<1>8. \A n \in rows' \cup Copies(p)' : Sound(n)'
  BY <1>2, <1>3, <1>4
<1>9. /\ used \subseteq used' /\ used' \subseteq used \cup IdsOf(rows')
      /\ IdsOf(rows) \subseteq IdsOf(rows')
  BY DEF Store, IdsOf
<1>10. IdsOf(job[p].pend) = {}
  BY DEF IdsOf
<1>11. \A a, b \in job'[p].snap : a.id = b.id => a = b
  BY DEF ReInv, OneEach
<1> QED  BY <1>1, <1>5, <1>7, <1>8, <1>9, <1>10, <1>11 DEF Kept

\* The first commit of a rewrite.
LEMMA RewriteStep ==
  ASSUME NEW p \in Procs, ReInv, NEW m \in Row, Rewrite(p, m), UNCHANGED <<stage, history>>,
         job[p].pend = {}, Sound(m), Marked(m),
         \/ stage[p] \in {"match", "merge"} /\ job[p].facts # <<>>
         \/ job[p].rest \in {"merge", "relate"}
  PROVE  Kept(p)
<1>1. job \in [Procs -> Job] /\ Shape(p) /\ Passed(p)
  BY DEF ReInv, TypeOK, Shapes, AllPassed
<1>2. /\ job' \in [Procs -> Job] /\ Local(p)
      /\ job'[p].facts = job[p].facts /\ job'[p].left = job[p].left
      /\ job'[p].snap = job[p].snap /\ job'[p].session = job[p].session
      /\ job'[p].due = job[p].due /\ job'[p].rest = job[p].rest
      /\ job'[p].fact = job[p].fact /\ job'[p].held = job[p].held
      /\ job'[p].own = job[p].own /\ job'[p].pend = {m}
  BY <1>1 DEF Rewrite, Local, Job
<1>3. TypeOK'
  BY <1>2 DEF ReInv, TypeOK, Rewrite, RowsBut, history
<1>4. \A n : (Sound(n) <=> Sound(n)')
  BY DEF Sound, history
<1>5. \A n \in rows \cup Copies(p) : Sound(n)
  BY DEF ReInv, AllSound
<1>6. rows' \cup Copies(p)' \subseteq rows \cup Copies(p) \cup {m}
  BY <1>2 DEF Copies, Rewrite, RowsBut
<1>7. \A n \in rows' \cup Copies(p)' : Sound(n)'
  BY <1>4, <1>5, <1>6
<1>8. /\ \A n \in rows \cup job[p].held \cup job[p].own \cup job[p].pend : Marked(n)
      /\ stage[p] \in {"gather", "match", "merge"} => \A n \in job[p].snap : Marked(n)
  BY DEF ReInv, AllMarked
<1>9. \A n \in rows' \cup job'[p].held \cup job'[p].own \cup job'[p].pend : Marked(n)
  BY <1>2, <1>8 DEF Rewrite, RowsBut
<1>10. stage'[p] \in {"gather", "match", "merge"} => \A n \in job'[p].snap : Marked(n)
  BY <1>2, <1>8
<1>11. IdsOf(rows) \cup IdsOf(job[p].pend) \subseteq
         removed' \cup IdsOf(rows') \cup IdsOf(job'[p].pend)
  BY <1>2 DEF IdsOf, Rewrite, RowsBut
<1>12. \A a, b \in job'[p].snap : a.id = b.id => a = b
  BY <1>2 DEF ReInv, OneEach
<1>13. Passed(p)'
  BY <1>1, <1>2 DEF Passed, Unknown, Apart
<1>14. Shape(p)'
  <2>1. job'[p].pend # {} => OneOf(job'[p].pend)
    BY <1>2 DEF OneOf
  <2>2. stage[p] # "idle"
    BY <1>1 DEF Shape, NoJob
  <2>3. stage'[p] = stage[p]
    OBVIOUS
  <2> HIDE DEF OneOf
  <2> QED  BY <1>1, <1>2, <2>1, <2>2, <2>3 DEF Shape, Holding, Renewing, Relating
<1> QED  BY <1>2, <1>3, <1>7, <1>9, <1>10, <1>11, <1>12, <1>13, <1>14 DEF Kept, history

-----------------------------------------------------------------------------
(* The facts of a stage. *)

\* The first fact of a stage and those after it.
LEMMA FirstAndRest ==
  ASSUME NEW S, NEW s \in Seq(S), s # <<>>
  PROVE  /\ Head(s) \in S /\ Head(s) \in Range(s)
         /\ Tail(s) \in Seq(S) /\ Range(Tail(s)) \subseteq Range(s)
<1>1. /\ Head(s) = s[1] /\ Tail(s) \in Seq(S) /\ Len(Tail(s)) = Len(s) - 1
      /\ \A i \in 1 .. Len(Tail(s)) : Tail(s)[i] = s[i + 1]
  BY HeadTailProperties
<1>2. Len(s) \in Nat /\ Len(s) > 0 /\ DOMAIN s = 1 .. Len(s)
  BY EmptySeq, LenProperties
<1>3. DOMAIN Tail(s) = 1 .. Len(Tail(s))
  BY <1>1, LenProperties
<1>4. Head(s) \in Range(s) /\ Head(s) \in S
  BY <1>1, <1>2, ElementOfSeq DEF Range
<1>5. ASSUME NEW i \in DOMAIN Tail(s) PROVE Tail(s)[i] \in Range(s)
  BY <1>1, <1>2, <1>3, <1>5 DEF Range
<1> QED  BY <1>1, <1>4, <1>5 DEF Range

\* A fact is passed on to the next stage.
LEMMA OneMore ==
  ASSUME NEW S, NEW s \in Seq(S), NEW e \in S
  PROVE  Append(s, e) \in Seq(S) /\ Range(Append(s, e)) \subseteq Range(s) \cup {e}
<1>1. /\ Append(s, e) \in Seq(S) /\ Len(Append(s, e)) = Len(s) + 1
      /\ \A i \in 1 .. Len(s) : Append(s, e)[i] = s[i]
      /\ Append(s, e)[Len(s) + 1] = e
  BY AppendProperties
<1>2. Len(s) \in Nat /\ DOMAIN s = 1 .. Len(s) /\ DOMAIN Append(s, e) = 1 .. Len(s) + 1
  BY <1>1, LenProperties
<1>3. ASSUME NEW i \in DOMAIN Append(s, e) PROVE Append(s, e)[i] \in Range(s) \cup {e}
  <2>1. i \in 1 .. Len(s) \/ i = Len(s) + 1
    BY <1>2
  <2> QED  BY <1>1, <1>2, <2>1 DEF Range
<1> QED  BY <1>1, <1>3 DEF Range

\* What the LLM keeps of the facts.
LEMMA Selected ==
  ASSUME NEW S, NEW s \in Seq(S), NEW k \in Selections(s)
  PROVE  k \in Seq(S)
<1>1. DOMAIN s = 1 .. Len(s) /\ \A i \in 1 .. Len(s) : s[i] \in S
  BY LenProperties, ElementOfSeq
<1>2. Range(s) \subseteq S
  BY <1>1 DEF Range
<1>3. CASE k = s
  BY <1>3
<1>4. CASE \E n \in 1 .. Len(s) : k \in [1 .. n -> Range(s)]
  <2>1. PICK n \in 1 .. Len(s) : k \in [1 .. n -> Range(s)]
    BY <1>4
  <2>2. k \in [1 .. n -> S] /\ n \in Nat
    BY <2>1, <1>2, LenProperties
  <2> QED  BY <2>2, SeqDef
<1> QED  BY <1>3, <1>4 DEF Selections

\* A batch holds facts of its type.
LEMMA Jobs ==
  ASSUME NEW p \in Procs, ReInv
  PROVE  /\ job \in [Procs -> Job] /\ stage \in [Procs -> Stages] /\ job[p] \in Job
         /\ job[p].facts \in Seq(Facts) /\ job[p].left \in Seq(Facts)
         /\ job[p].snap \subseteq Row /\ job[p].held \subseteq Row /\ job[p].own \subseteq Row
         /\ job[p].pend \subseteq Row /\ job[p].due \in Nat
         /\ job[p].session \in Sessions \cup {"none"}
         /\ rows \subseteq Row /\ Shape(p) /\ Passed(p)
BY DEF ReInv, TypeOK, Job, Shapes, AllPassed

-----------------------------------------------------------------------------
(* The snapshot and the exact match. *)

\* A batch is submitted with an empty snapshot.
LEMMA SubmitKept ==
  ASSUME NEW p \in Procs, NEW r \in Requests, ReInv, Submit(p, r), ReconcilerAssumption
  PROVE  Kept(p)
<1>1. r.facts \in Seq(Facts) /\ r.session \in Sessions \cup {"none"}
  BY DEF ReconcilerAssumption, Batch
<1> DEFINE J == [NoJob EXCEPT !.facts = r.facts, !.session = r.session]
<1>a. <<>> \in Seq(Facts)
  BY EmptySeq
<1>b. /\ J \in Job /\ J.left = <<>> /\ J.snap = {} /\ J.rest = "none" /\ J.fact = "none"
      /\ J.held = {} /\ J.own = {} /\ J.pend = {}
  BY <1>1, <1>a DEF NoJob, Job, Rests
<1> HIDE DEF J
<1>c. job' = [job EXCEPT ![p] = J]
  BY DEF Submit, J
<1>2. /\ job' \in [Procs -> Job] /\ stage' \in [Procs -> Stages] /\ Local(p)
      /\ stage'[p] = "gather"
      /\ job'[p].left = <<>> /\ job'[p].snap = {} /\ job'[p].rest = "none"
      /\ job'[p].fact = "none" /\ job'[p].held = {} /\ job'[p].own = {} /\ job'[p].pend = {}
  BY <1>b, <1>c, Jobs DEF Submit, Local, Stages
<1>3. Shape(p)'
  BY <1>2 DEF Shape
<1>4. Passed(p)'
  BY <1>2 DEF Passed, Unknown
<1>5. requests' \in 0 .. MaxRequests
  BY DEF ReInv, TypeOK, Submit, ReconcilerAssumption
<1>6. job[p].pend = {}
  BY Jobs DEF Submit, Shape, NoJob
<1> QED  BY <1>2, <1>3, <1>4, <1>5, <1>6, QuietStep DEF Submit

\* A search adds rows of the table, none that the snapshot has already.
LEMMA SearchKept ==
  ASSUME NEW p \in Procs, NEW S \in SUBSET rows, ReInv, Search(p, S)
  PROVE  Kept(p)
<1>1. S \subseteq Row
  BY Jobs
<1>2. /\ job' \in [Procs -> Job] /\ Local(p)
      /\ job'[p].snap = job[p].snap \cup S
      /\ job'[p].facts = job[p].facts /\ job'[p].left = job[p].left
      /\ job'[p].rest = job[p].rest /\ job'[p].fact = job[p].fact
      /\ job'[p].held = job[p].held /\ job'[p].own = job[p].own
      /\ job'[p].pend = job[p].pend
  <2>1. job[p].snap \cup S \subseteq Row
    BY <1>1, Jobs
  <2> QED  BY <2>1, Jobs DEF Search, Job, Local
<1>3. stage'[p] = "gather" /\ stage[p] = "gather" /\ stage' = stage
  BY DEF Search
<1>5. /\ job[p].left = <<>> /\ job[p].rest = "none" /\ job[p].fact = "none"
      /\ job[p].pend = {} /\ job[p].held = {} /\ job[p].own = {}
  BY <1>3, Jobs DEF Shape
<1>6. Shape(p)'
  BY <1>2, <1>3, <1>5 DEF Shape
<1>7. Passed(p)'
  BY <1>2, <1>3, <1>5 DEF Passed, Range
<1>8. ASSUME NEW a \in job'[p].snap, NEW b \in job'[p].snap, a.id = b.id
      PROVE  a = b
  <2>1. a \in job[p].snap /\ b \in job[p].snap => a = b
    BY <1>8 DEF ReInv, OneEach
  <2>2. a \in S /\ b \in S => a = b
    BY <1>8 DEF Search
  <2>3. \A x \in S : x.id \notin IdsOf(job[p].snap)
    BY DEF Search
  <2> QED  BY <1>2, <1>8, <2>1, <2>2, <2>3 DEF IdsOf
<1>9. requests' \in 0 .. MaxRequests /\ UNCHANGED <<rows, used, removed, retired, contended>>
  BY DEF ReInv, TypeOK, Search, history
<1> QED  BY <1>2, <1>3, <1>6, <1>7, <1>8, <1>9, Jobs, QuietStep

\* The facts that the LLM keeps are facts of the batch.
LEMMA SelfDedupKept ==
  ASSUME NEW p \in Procs, ReInv, NEW kept \in Selections(job[p].facts), SelfDedup(p, kept)
  PROVE  Kept(p)
<1>1. kept \in Seq(Facts)
  BY Jobs, Selected
<1>2. /\ job' \in [Procs -> Job] /\ stage' \in [Procs -> Stages] /\ Local(p)
      /\ stage'[p] = "match" /\ stage[p] = "gather"
      /\ job'[p].snap = job[p].snap /\ job'[p].left = job[p].left
      /\ job'[p].rest = job[p].rest /\ job'[p].fact = job[p].fact
      /\ job'[p].held = job[p].held /\ job'[p].own = job[p].own
      /\ job'[p].pend = job[p].pend
  BY <1>1, Jobs DEF SelfDedup, Job, Local, Stages
<1>3. /\ job[p].left = <<>> /\ job[p].rest = "none" /\ job[p].fact = "none"
      /\ job[p].pend = {} /\ job[p].held = {} /\ job[p].own = {}
  BY <1>2, Jobs DEF Shape
<1>4. Shape(p)'
  BY <1>2, <1>3 DEF Shape
<1>5. Passed(p)'
  BY <1>2, <1>3 DEF Passed, Range
<1>6. requests' \in 0 .. MaxRequests /\ UNCHANGED <<rows, used, removed, retired, contended>>
  BY DEF ReInv, TypeOK, SelfDedup, history
<1>7. \A a, b \in job'[p].snap : a.id = b.id => a = b
  BY <1>2 DEF ReInv, OneEach
<1> QED  BY <1>2, <1>4, <1>5, <1>6, <1>7, QuietStep

\* A fact leaves a stage: it is dropped, or passed on to the next.
LEMMA NextFactKept ==
  ASSUME NEW p \in Procs, ReInv, stage[p] \in {"match", "merge"}, job[p].pend = {},
         job[p].facts # <<>>, UNCHANGED <<rows, stage, history>>,
         \/ job' = [job EXCEPT ![p].facts = Tail(@)]
         \/ Pass(p) /\ Unknown(p, Current(p))
  PROVE  Kept(p)
<1>1. /\ Head(job[p].facts) \in Facts /\ Head(job[p].facts) \in Range(job[p].facts)
      /\ Tail(job[p].facts) \in Seq(Facts)
      /\ Range(Tail(job[p].facts)) \subseteq Range(job[p].facts)
  BY Jobs, FirstAndRest
<1>2. /\ Append(job[p].left, Current(p)) \in Seq(Facts)
      /\ Range(Append(job[p].left, Current(p))) \subseteq Range(job[p].left) \cup {Current(p)}
  BY <1>1, Jobs, OneMore DEF Current
<1>3. /\ job' \in [Procs -> Job] /\ Local(p)
      /\ job'[p].snap = job[p].snap
      /\ job'[p].rest = job[p].rest /\ job'[p].fact = job[p].fact
      /\ job'[p].held = job[p].held /\ job'[p].own = job[p].own
      /\ job'[p].pend = job[p].pend /\ job'[p].facts = Tail(job[p].facts)
      /\ \/ job'[p].left = job[p].left
         \/ job'[p].left = Append(job[p].left, Current(p)) /\ Unknown(p, Current(p))
  <2>1. CASE job' = [job EXCEPT ![p].facts = Tail(@)]
    BY <1>1, <2>1, Jobs DEF Job, Local
  <2>2. CASE Pass(p) /\ Unknown(p, Current(p))
    BY <1>1, <1>2, <2>2, Jobs DEF Job, Local, Pass
  <2> QED  BY <2>1, <2>2
<1>4. /\ job[p].rest = "none" /\ job[p].fact = "none" /\ job[p].held = {} /\ job[p].own = {}
      /\ stage' = stage
  BY Jobs DEF Shape
<1>5. Shape(p)'
  BY <1>3, <1>4 DEF Shape
<1>6. \A f : Unknown(p, f) <=> Unknown(p, f)'
  BY <1>3 DEF Unknown, Apart
<1>7. \A f \in Range(job'[p].left) : Unknown(p, f)
  BY <1>2, <1>3, Jobs DEF Passed
<1>8. stage[p] = "merge" => \A f \in Range(job'[p].facts) : Unknown(p, f)
  BY <1>1, <1>3, Jobs DEF Passed
<1>9. Passed(p)'
  BY <1>3, <1>4, <1>6, <1>7, <1>8 DEF Passed
<1>10. requests' \in 0 .. MaxRequests /\ UNCHANGED <<rows, used, removed, retired, contended>>
  BY DEF ReInv, TypeOK, history
<1>11. \A a, b \in job'[p].snap : a.id = b.id => a = b
  BY <1>3 DEF ReInv, OneEach
<1> QED  BY <1>3, <1>4, <1>5, <1>9, <1>10, <1>11, Jobs, QuietStep

\* A fact without a duplicate is told by nothing in the snapshot.
LEMMA NoDuplicateIsUnknown ==
  ASSUME NEW p \in Procs, NEW f \in Facts, Duplicates(p, f) = {}
  PROVE  Unknown(p, f)
BY DEF Duplicates, SameText, Contained, Similar, Unknown, Apart

\* The exact match drops a fact, or passes on one that is unknown.
LEMMA MatchKept ==
  ASSUME NEW p \in Procs, ReInv, MatchSkip(p) \/ MatchPass(p)
  PROVE  Kept(p)
<1>1. Current(p) \in Facts
  BY Jobs, FirstAndRest DEF MatchSkip, MatchPass, Working, Current
<1>2. MatchPass(p) => Unknown(p, Current(p))
  BY <1>1, NoDuplicateIsUnknown DEF MatchPass
<1> QED  BY <1>2, NextFactKept DEF MatchSkip, MatchPass, Working, At

\* The memory that a fact takes the place of in the exact match, and what is
\* written for it.
LEMMA UpgradeOf ==
  ASSUME NEW p \in Procs, ReInv, MatchUpgrade(p), ReconcilerAssumption
  PROVE  \E n \in job[p].snap, m \in Row :
           /\ Current(p) \in Facts /\ n \in Candidates(p, Current(p))
           /\ Rewrite(p, m) /\ m.id = n.id /\ m.abst = {Current(p)}
           /\ m.heir = n.heir /\ m.pinned = n.pinned
<1>1. Current(p) \in Facts
  BY Jobs, FirstAndRest DEF MatchUpgrade, Working, Current
<1>2. PICK n \in Candidates(p, Current(p)) :
        Rewrite(p, [n EXCEPT !.content = {Source[Current(p)]}, !.abst = {Current(p)},
                             !.weight = Weight[Current(p)]])
  BY DEF MatchUpgrade
<1>3. n \in job[p].snap
  BY DEF Candidates, Duplicates, SameText, Contained, Similar, Reworded
<1>4. n \in Row
  BY <1>3, Jobs
<1>5. Source[Current(p)] \in Texts /\ Weight[Current(p)] \in Nat
  BY <1>1 DEF ReconcilerAssumption
<1> DEFINE m == [n EXCEPT !.content = {Source[Current(p)]}, !.abst = {Current(p)},
                          !.weight = Weight[Current(p)]]
<1>6. m \in Row /\ m.id = n.id /\ m.abst = {Current(p)} /\ m.heir = n.heir /\ m.pinned = n.pinned
  BY <1>1, <1>4, <1>5 DEF Row
<1> QED  BY <1>1, <1>2, <1>3, <1>6

\* What a row of the snapshot becomes before the decisions.
LEMMA FromSnapshot ==
  ASSUME NEW p \in Procs, ReInv, stage[p] \in {"match", "merge"}, NEW n \in job[p].snap,
         NEW m, m.id = n.id, m.heir = n.heir, m.pinned = n.pinned
  PROVE  Sound(m) /\ Marked(m)
<1>1. Sound(n) /\ Marked(n)
  BY DEF ReInv, AllSound, AllMarked, Copies
<1> QED  BY <1>1 DEF Sound, Marked

\* The exact match rewrites a memory from the snapshot.
LEMMA MatchUpgradeKept ==
  ASSUME NEW p \in Procs, ReInv, MatchUpgrade(p), ReconcilerAssumption
  PROVE  Kept(p)
<1>1. PICK n \in job[p].snap, m \in Row :
        Rewrite(p, m) /\ m.id = n.id /\ m.heir = n.heir /\ m.pinned = n.pinned
  BY UpgradeOf
<1>2. stage[p] = "match" /\ job[p].pend = {} /\ job[p].facts # <<>>
  BY DEF MatchUpgrade, Working, At
<1>3. Sound(m) /\ Marked(m)
  BY <1>1, <1>2, FromSnapshot
<1> QED  BY <1>1, <1>2, <1>3, RewriteStep DEF MatchUpgrade

-----------------------------------------------------------------------------
(* Creation of all facts, and the merge within the session. *)

\* What create_fact_memory stores.
LEMMA FactMemoryFields ==
  ASSUME NEW p \in Procs, NEW i \in Ids, NEW f \in Facts, ReInv, ReconcilerAssumption
  PROVE  /\ FactMemory(p, i, f) \in Row /\ FactMemory(p, i, f).id = i
         /\ FactMemory(p, i, f).content = {Source[f]} /\ FactMemory(p, i, f).abst = {f}
         /\ ~FactMemory(p, i, f).pinned /\ FactMemory(p, i, f).heir = "none"
BY Jobs DEF FactMemory, Row, ReconcilerAssumption

\* Without a snapshot every fact is stored.
LEMMA CreateNextKept ==
  ASSUME NEW p \in Procs, NEW i \in Ids, ReInv, CreateNext(p, i), ReconcilerAssumption
  PROVE  Kept(p)
<1>1. /\ Current(p) \in Facts /\ Tail(job[p].facts) \in Seq(Facts)
      /\ Range(Tail(job[p].facts)) \subseteq Range(job[p].facts)
  BY Jobs, FirstAndRest DEF CreateNext, Working, Current
<1>2. /\ job' \in [Procs -> Job] /\ Local(p)
      /\ job'[p].snap = job[p].snap /\ job'[p].left = job[p].left
      /\ job'[p].rest = job[p].rest /\ job'[p].fact = job[p].fact
      /\ job'[p].held = job[p].held /\ job'[p].own = job[p].own
      /\ job'[p].pend = job[p].pend /\ job'[p].facts = Tail(job[p].facts)
  BY <1>1, Jobs DEF CreateNext, Job, Local
<1>3. job[p].pend = {} /\ stage[p] = "create" /\ stage' = stage
  BY DEF CreateNext, Working, At
<1>4. Shape(p)'
  BY <1>2, <1>3, Jobs DEF Shape
<1>5. Passed(p)'
  BY <1>1, <1>2, <1>3, Jobs DEF Passed, Unknown, Apart
<1>6. /\ FactMemory(p, i, Current(p)) \in Row
      /\ ~FactMemory(p, i, Current(p)).pinned /\ FactMemory(p, i, Current(p)).heir = "none"
  BY <1>1, FactMemoryFields
<1> QED  BY <1>2, <1>3, <1>4, <1>5, <1>6, StoreStep DEF CreateNext

\* The memory that a fact is merged with in its session, and what is written.
LEMMA SessionMergeOf ==
  ASSUME NEW p \in Procs, ReInv, SessionMerge(p), ReconcilerAssumption
  PROVE  \E n \in job[p].snap, m \in Row :
           /\ Current(p) \in Facts /\ n \in SessionMatches(p, Current(p)) /\ ~n.pinned
           /\ Rewrite(p, m) /\ m.id = n.id /\ m.abst = {Current(p)}
           /\ m.heir = n.heir /\ m.pinned = n.pinned
<1>1. Current(p) \in Facts
  BY Jobs, FirstAndRest DEF SessionMerge, Working, Current
<1>2. PICK n \in SessionMatches(p, Current(p)) :
        /\ ~n.pinned
        /\ Rewrite(p, [n EXCEPT !.content = MergedContent(@, Source[Current(p)]),
                                !.abst = {Current(p)}, !.weight = Weight[Current(p)]])
  BY DEF SessionMerge
<1>3. n \in job[p].snap
  BY DEF SessionMatches
<1>4. n \in Row
  BY <1>3, Jobs
<1>5. Source[Current(p)] \in Texts /\ Weight[Current(p)] \in Nat
  BY <1>1 DEF ReconcilerAssumption
<1>6. MergedContent(n.content, Source[Current(p)]) \in SUBSET Texts
  BY <1>4, <1>5 DEF MergedContent, Row
<1> DEFINE c == MergedContent(n.content, Source[Current(p)])
           m == [n EXCEPT !.content = c, !.abst = {Current(p)}, !.weight = Weight[Current(p)]]
<1>7. Rewrite(p, m)
  BY <1>2
<1>8. m \in Row /\ m.id = n.id /\ m.abst = {Current(p)} /\ m.heir = n.heir /\ m.pinned = n.pinned
  <2> HIDE DEF c
  <2>1. c \in SUBSET Texts
    BY <1>6 DEF c
  <2> QED  BY <1>1, <1>4, <1>5, <2>1 DEF Row
<1> QED  BY <1>1, <1>2, <1>3, <1>7, <1>8

\* The session merge rewrites a memory from the snapshot.
LEMMA SessionMergeKept ==
  ASSUME NEW p \in Procs, ReInv, SessionMerge(p), ReconcilerAssumption
  PROVE  Kept(p)
<1>1. PICK n \in job[p].snap, m \in Row :
        Rewrite(p, m) /\ m.id = n.id /\ m.heir = n.heir /\ m.pinned = n.pinned
  BY SessionMergeOf
<1>2. stage[p] = "merge" /\ job[p].pend = {} /\ job[p].facts # <<>>
  BY DEF SessionMerge, Working, At
<1>3. Sound(m) /\ Marked(m)
  BY <1>1, <1>2, FromSnapshot
<1> QED  BY <1>1, <1>2, <1>3, RewriteStep DEF SessionMerge

\* A fact that finds nothing to merge with in its session is passed on.
LEMMA SessionPassKept ==
  ASSUME NEW p \in Procs, ReInv, SessionPass(p)
  PROVE  Kept(p)
<1>1. stage[p] = "merge" /\ job[p].pend = {} /\ job[p].facts # <<>>
  BY DEF SessionPass, Working, At
<1>2. Unknown(p, Current(p))
  BY <1>1, Jobs, FirstAndRest DEF Passed, Current
<1> QED  BY <1>1, <1>2, NextFactKept DEF SessionPass

\* The next stage gets the facts that were passed on, all of them unknown.
LEMMA AdvanceKept ==
  ASSUME NEW p \in Procs, ReInv, Advance(p)
  PROVE  Kept(p)
<1>1. Len(job[p].left) \in Nat /\ <<>> \in Seq(Facts)
  BY Jobs, LenProperties, EmptySeq
<1>2. /\ job' \in [Procs -> Job]
      /\ \A q \in Procs \ {p} : job'[q] = job[q]
      /\ job'[p].snap = job[p].snap /\ job'[p].left = <<>>
      /\ job'[p].rest = job[p].rest /\ job'[p].fact = job[p].fact
      /\ job'[p].held = job[p].held /\ job'[p].own = job[p].own
      /\ job'[p].pend = job[p].pend /\ job'[p].facts = job[p].left
  BY <1>1, Jobs DEF Advance, Job
<1>3. /\ stage' \in [Procs -> Stages] /\ stage'[p] = NextStage(p)
      /\ \A q \in Procs \ {p} : stage'[q] = stage[q]
      /\ NextStage(p) \in {"create", "merge", "decide"}
      /\ NextStage(p) = "create" => job[p].snap = {}
  BY Jobs DEF Advance, NextStage, Stages
<1>4. stage[p] \in {"match", "merge"} /\ job[p].pend = {}
  BY DEF Advance
<1>5. job[p].rest = "none" /\ job[p].fact = "none" /\ job[p].held = {} /\ job[p].own = {}
  BY <1>4, Jobs DEF Shape
<1>6. Shape(p)'
  BY <1>2, <1>3, <1>4, <1>5 DEF Shape
<1>7. \A f : Unknown(p, f) <=> Unknown(p, f)'
  BY <1>2 DEF Unknown, Apart
<1>8. \A f \in Range(job[p].left) : Unknown(p, f)
  BY Jobs DEF Passed
<1>9. Range(job'[p].left) = {}
  BY <1>2 DEF Range
<1>10. Passed(p)'
  BY <1>2, <1>5, <1>7, <1>8, <1>9 DEF Passed
<1>11. requests' \in 0 .. MaxRequests /\ UNCHANGED <<rows, used, removed, retired, contended>>
  BY DEF ReInv, TypeOK, Advance, history
<1>12. \A a, b \in job'[p].snap : a.id = b.id => a = b
  BY <1>2 DEF ReInv, OneEach
<1>13. Local(p)
  BY <1>2, <1>3 DEF Local
<1> QED  BY <1>2, <1>3, <1>4, <1>5, <1>6, <1>10, <1>11, <1>12, <1>13, QuietStep

-----------------------------------------------------------------------------
(* The decisions. *)

\* What a batch is like while it carries out decisions.
LEMMA DecidingShape ==
  ASSUME NEW p \in Procs, ReInv, Deciding(p)
  PROVE  /\ stage[p] = "decide" /\ job[p].pend = {} /\ job[p].rest = "none" /\ job[p].left = <<>>
         /\ job[p].held = {} /\ job[p].own = {} /\ job[p].fact = "none" /\ job[p].due - 1 \in Nat
         /\ \A f \in Range(job[p].facts) : f \in Facts /\ Unknown(p, f)
<1>1. stage[p] = "decide" /\ job[p].pend = {} /\ job[p].rest = "none" /\ job[p].due > 0
  BY DEF Deciding, At
<1>2. Range(job[p].facts) \subseteq Facts
  <2>1. DOMAIN job[p].facts = 1 .. Len(job[p].facts)
        /\ \A i \in 1 .. Len(job[p].facts) : job[p].facts[i] \in Facts
    BY Jobs, LenProperties, ElementOfSeq
  <2> QED  BY <2>1 DEF Range
<1> QED  BY <1>1, <1>2, Jobs DEF Shape, Passed

\* CREATE stores a memory for a fact.
LEMMA DecideCreateKept ==
  ASSUME NEW p \in Procs, NEW i \in Ids, NEW f \in Range(job[p].facts), ReInv,
         DecideCreate(p, i, f), ReconcilerAssumption
  PROVE  Kept(p)
<1>1. Deciding(p)
  BY DEF DecideCreate
<1>2. f \in Facts
  BY <1>1, DecidingShape
<1>3. /\ job' \in [Procs -> Job] /\ Local(p)
      /\ job'[p].snap = job[p].snap /\ job'[p].left = job[p].left
      /\ job'[p].rest = job[p].rest /\ job'[p].fact = job[p].fact
      /\ job'[p].held = job[p].held /\ job'[p].own = job[p].own
      /\ job'[p].pend = job[p].pend /\ job'[p].facts = job[p].facts
  <2>1. /\ job \in [Procs -> Job] /\ stage' = stage
        /\ job' = [job EXCEPT ![p].due = @ - 1] /\ job[p].due - 1 \in Nat
    BY <1>1, DecidingShape, Jobs DEF DecideCreate
  <2> QED  BY <2>1 DEF Job, Local
<1>4. stage' = stage
  BY DEF DecideCreate
<1>5. Shape(p)'
  BY <1>1, <1>3, <1>4, DecidingShape DEF Shape
<1>6. Passed(p)'
  BY <1>3, <1>4, Jobs DEF Passed, Unknown, Apart
<1>7. /\ FactMemory(p, i, f) \in Row /\ ~FactMemory(p, i, f).pinned
      /\ FactMemory(p, i, f).heir = "none"
  BY <1>2, FactMemoryFields
<1> QED  BY <1>1, <1>3, <1>5, <1>6, <1>7, StoreStep, DecidingShape DEF DecideCreate

\* A decision about a memory reads it from the table.
LEMMA DecideOnKept ==
  ASSUME NEW p \in Procs, NEW f \in Range(job[p].facts), ReInv,
         NEW o \in {"merge", "supersede", "support", "contradict"}, DecideOn(p, f, o)
  PROVE  Kept(p)
<1>1. Deciding(p)
  BY DEF DecideOn
<1>2. f \in Facts /\ Unknown(p, f) /\ o \in Rests
  BY <1>1, DecidingShape DEF Rests
<1>3. PICK m \in rows :
        job' = [job EXCEPT ![p].rest = o, ![p].fact = f, ![p].held = {m}, ![p].due = @ - 1]
  BY DEF DecideOn
<1>4. {m} \in SUBSET Row
  BY Jobs
<1>5. /\ job' \in [Procs -> Job] /\ Local(p)
      /\ job'[p].snap = job[p].snap /\ job'[p].left = job[p].left
      /\ job'[p].rest = o /\ job'[p].fact = f
      /\ job'[p].held = {m} /\ job'[p].own = job[p].own
      /\ job'[p].pend = job[p].pend /\ job'[p].facts = job[p].facts
  <2>1. /\ job \in [Procs -> Job] /\ stage' = stage /\ job[p].due - 1 \in Nat
    BY <1>1, DecidingShape, Jobs DEF DecideOn
  <2> QED  BY <1>2, <1>3, <1>4, <2>1 DEF Job, Local
<1>6. stage' = stage
  BY DEF DecideOn
<1>7. Holding(p)'
  BY <1>4, <1>5 DEF Holding, OneOf
<1>8. Shape(p)'
  BY <1>1, <1>2, <1>5, <1>6, <1>7, DecidingShape DEF Shape
<1>9. Passed(p)'
  BY <1>2, <1>5, <1>6, Jobs DEF Passed, Unknown, Apart
<1>10. requests' \in 0 .. MaxRequests /\ UNCHANGED <<rows, used, removed, retired, contended>>
  BY DEF ReInv, TypeOK, DecideOn, history
<1>11. \A a, b \in job'[p].snap : a.id = b.id => a = b
  BY <1>5 DEF ReInv, OneEach
<1> QED  BY <1>1, <1>3, <1>5, <1>6, <1>8, <1>9, <1>10, <1>11, QuietStep, DecidingShape, Jobs

\* CONTEXTUALIZE stores a memory, and holds it for its relation.
LEMMA DecideContextKept ==
  ASSUME NEW p \in Procs, NEW i \in Ids, NEW f \in Range(job[p].facts), ReInv,
         DecideContext(p, i, f), ReconcilerAssumption
  PROVE  Kept(p)
<1> DEFINE m == FactMemory(p, i, f)
<1>1. Deciding(p) /\ Store(m) /\ stage' = stage
  BY DEF DecideContext
<1>2. f \in Facts /\ Unknown(p, f)
  BY <1>1, DecidingShape
<1>3. m \in Row /\ ~m.pinned /\ m.heir = "none"
  BY <1>2, FactMemoryFields
<1>a. job' = [job EXCEPT ![p].rest = "relate", ![p].fact = f, ![p].own = {m}, ![p].due = @ - 1]
  BY DEF DecideContext
<1>b. UNCHANGED <<stage, requests, removed, retired, contended>>
  BY DEF DecideContext
<1> HIDE DEF m
<1>4. /\ job' \in [Procs -> Job] /\ Local(p)
      /\ job'[p].snap = job[p].snap /\ job'[p].left = job[p].left
      /\ job'[p].rest = "relate" /\ job'[p].fact = f
      /\ job'[p].held = {} /\ job'[p].own = {m}
      /\ job'[p].pend = job[p].pend /\ job'[p].facts = job[p].facts
  <2>1. /\ job \in [Procs -> Job] /\ job[p].due - 1 \in Nat /\ job[p].held = {}
        /\ {m} \in SUBSET Row /\ "relate" \in Rests
    BY <1>1, <1>3, DecidingShape, Jobs DEF Rests
  <2> DEFINE J == [job[p] EXCEPT !.rest = "relate", !.fact = f, !.own = {m}, !.due = @ - 1]
  <2>2. job[p] \in Job
    BY <2>1
  <2>3. /\ J \in Job /\ J.snap = job[p].snap /\ J.left = job[p].left /\ J.rest = "relate"
        /\ J.fact = f /\ J.held = {} /\ J.own = {m} /\ J.pend = job[p].pend
        /\ J.facts = job[p].facts
    BY <1>2, <2>1, <2>2 DEF Job
  <2>4. job' = [job EXCEPT ![p] = J]
    BY <1>a, <2>1
  <2> HIDE DEF J
  <2> QED  BY <1>1, <2>1, <2>3, <2>4 DEF Local
<1>5. Relating(p)'
  BY <1>3, <1>4 DEF Relating
<1>6. Shape(p)'
  BY <1>1, <1>2, <1>4, <1>5, DecidingShape DEF Shape
<1>7. Passed(p)'
  BY <1>1, <1>2, <1>4, Jobs DEF Passed, Unknown, Apart
<1> QED  BY <1>1, <1>3, <1>4, <1>6, <1>7, <1>b, StoreStep, DecidingShape

\* The row that a decision is about.
LEMMA HeldIs ==
  ASSUME NEW p, NEW m, job[p].held = {m}
  PROVE  Held(p) = m
BY DEF Held

\* The row that a decision has stored.
LEMMA OwnIs ==
  ASSUME NEW p, NEW m, job[p].own = {m}
  PROVE  Own(p) = m
BY DEF Own

\* What a decision holds that has begun.
LEMMA RestingShape ==
  ASSUME NEW p \in Procs, NEW r, ReInv, Resting(p, r), r # "none",
         ReconcilerAssumption
  PROVE  /\ stage[p] = "decide" /\ job[p].pend = {} /\ job[p].rest = r /\ job[p].left = <<>>
         /\ job[p].fact \in Facts /\ Unknown(p, job[p].fact)
         /\ r \in {"merge", "supersede", "support", "contradict", "mark", "evidence"} =>
              /\ Held(p) \in Row /\ job[p].held = {Held(p)}
              /\ Sound(Held(p)) /\ Marked(Held(p))
<1>1. stage[p] = "decide" /\ job[p].pend = {} /\ job[p].rest = r
  BY DEF Resting, At
<1>2. job[p].fact \in Facts /\ job[p].left = <<>>
  BY <1>1, Jobs DEF Shape
<1>3. job[p].fact # "none"
  BY <1>2 DEF ReconcilerAssumption
<1>4. ASSUME r \in {"merge", "supersede", "support", "contradict", "mark", "evidence"}
      PROVE  /\ Held(p) \in Row /\ job[p].held = {Held(p)}
             /\ Sound(Held(p)) /\ Marked(Held(p))
  <2>1. \E h \in Row : job[p].held = {h}
    BY <1>1, <1>4, Jobs DEF Shape, Holding, OneOf, Renewing
  <2>2. Held(p) \in Row /\ job[p].held = {Held(p)}
    BY <2>1, HeldIs
  <2> QED  BY <2>2 DEF ReInv, AllSound, AllMarked, Copies
<1> QED  BY <1>1, <1>2, <1>3, <1>4, Jobs DEF Passed

\* What a MERGE writes.
LEMMA MergeOf ==
  ASSUME NEW p \in Procs, ReInv, Merge(p), ReconcilerAssumption
  PROVE  \E a \in MergedTexts(p), m \in Row :
           /\ Rewrite(p, m) /\ m.id = Held(p).id /\ m.abst = a
           /\ m.heir = Held(p).heir /\ m.pinned = Held(p).pinned
<1>1. Resting(p, "merge") /\ Held(p) \in Row /\ job[p].fact \in Facts
  BY RestingShape DEF Merge
<1>2. PICK a \in MergedTexts(p) : Rewrite(p, [Held(p) EXCEPT !.content = {}, !.abst = a])
  BY DEF Merge
<1>3. a \subseteq Facts
  <2>1. \A n \in job[p].snap : n.abst \subseteq Facts
    BY Jobs DEF Row
  <2> QED  BY <1>1, <2>1 DEF MergedTexts
<1> DEFINE m == [Held(p) EXCEPT !.content = {}, !.abst = a]
<1>4. /\ m \in Row /\ m.id = Held(p).id /\ m.abst = a
      /\ m.heir = Held(p).heir /\ m.pinned = Held(p).pinned
  BY <1>1, <1>3 DEF Row
<1> QED  BY <1>2, <1>4

\* MERGE rewrites the row that it has read.
LEMMA MergeKept ==
  ASSUME NEW p \in Procs, ReInv, Merge(p), ReconcilerAssumption
  PROVE  Kept(p)
<1>1. Resting(p, "merge") /\ Sound(Held(p)) /\ Marked(Held(p)) /\ job[p].pend = {}
      /\ job[p].rest = "merge"
  BY RestingShape DEF Merge
<1>2. PICK m \in Row : Rewrite(p, m) /\ m.id = Held(p).id /\ m.heir = Held(p).heir
                       /\ m.pinned = Held(p).pinned
  BY MergeOf
<1>3. Sound(m) /\ Marked(m)
  BY <1>1, <1>2 DEF Sound, Marked
<1> QED  BY <1>1, <1>2, <1>3, RewriteStep DEF Merge

\* A decision is over.
LEMMA SettledFields ==
  ASSUME NEW p \in Procs, ReInv, job' = Settled(p), stage' = stage
  PROVE  /\ job' \in [Procs -> Job] /\ Local(p)
         /\ job'[p].snap = job[p].snap /\ job'[p].left = job[p].left
         /\ job'[p].rest = "none" /\ job'[p].fact = "none"
         /\ job'[p].held = {} /\ job'[p].own = {}
         /\ job'[p].pend = job[p].pend /\ job'[p].facts = job[p].facts
<1> DEFINE J == [job[p] EXCEPT !.rest = "none", !.fact = "none", !.held = {}, !.own = {}]
<1>1. job[p] \in Job /\ job \in [Procs -> Job] /\ "none" \in Rests
  BY Jobs DEF Rests
<1>2. /\ J \in Job /\ J.snap = job[p].snap /\ J.left = job[p].left /\ J.rest = "none"
      /\ J.fact = "none" /\ J.held = {} /\ J.own = {} /\ J.pend = job[p].pend
      /\ J.facts = job[p].facts
  BY <1>1 DEF Job
<1>3. job' = [job EXCEPT ![p] = J]
  BY <1>1 DEF Settled
<1> HIDE DEF J
<1> QED  BY <1>1, <1>2, <1>3 DEF Local

\* Between two decisions a batch holds no row.
LEMMA SettledShape ==
  ASSUME NEW p \in Procs, ReInv, job' = Settled(p), stage' = stage,
         stage[p] = "decide", job[p].pend = {}
  PROVE  Shape(p)' /\ Passed(p)'
<1>1. /\ job'[p].snap = job[p].snap /\ job'[p].left = job[p].left
      /\ job'[p].rest = "none" /\ job'[p].fact = "none"
      /\ job'[p].held = {} /\ job'[p].own = {}
      /\ job'[p].pend = job[p].pend /\ job'[p].facts = job[p].facts
  BY SettledFields
<1>2. Shape(p)'
  BY <1>1, Jobs DEF Shape
<1>3. Passed(p)'
  BY <1>1, Jobs DEF Passed, Unknown, Apart
<1> QED  BY <1>2, <1>3

\* MERGE or SUPERSEDE of a pinned memory stores a new one.
LEMMA DowngradeKept ==
  ASSUME NEW p \in Procs, NEW i \in Ids, ReInv, Downgrade(p, i), ReconcilerAssumption
  PROVE  Kept(p)
<1> DEFINE m == FactMemory(p, i, job[p].fact)
<1>1. stage[p] = "decide" /\ job[p].pend = {} /\ job[p].fact \in Facts
  BY RestingShape DEF Downgrade
<1>2. m \in Row /\ ~m.pinned /\ m.heir = "none"
  BY <1>1, FactMemoryFields
<1>3. Store(m) /\ job' = Settled(p) /\ UNCHANGED <<stage, requests, removed, retired, contended>>
  BY DEF Downgrade
<1> HIDE DEF m
<1>4. Shape(p)' /\ Passed(p)'
  BY <1>1, <1>3, SettledShape
<1>5. /\ job' \in [Procs -> Job] /\ Local(p) /\ job'[p].snap = job[p].snap
      /\ job'[p].held = {} /\ job'[p].own = {} /\ job'[p].pend = {}
  BY <1>1, <1>3, SettledFields
<1> QED  BY <1>1, <1>2, <1>3, <1>4, <1>5, StoreStep

\* The new memory of a SUPERSEDE or a CONTRADICT is not the one it is about.
LEMMA CreateOwnKept ==
  ASSUME NEW p \in Procs, NEW i \in Ids, ReInv, ReconcilerAssumption,
         NEW next \in {"mark", "relate"}, CreateOwn(p, i, next),
         NEW r \in {"supersede", "contradict"}, Resting(p, r),
         next = "mark" => ~Held(p).pinned
  PROVE  Kept(p)
<1> DEFINE m == FactMemory(p, i, job[p].fact)
<1>1. /\ stage[p] = "decide" /\ job[p].pend = {} /\ job[p].left = <<>>
      /\ job[p].fact \in Facts /\ Unknown(p, job[p].fact) /\ Held(p) \in Row
      /\ job[p].held = {Held(p)} /\ Sound(Held(p))
  BY RestingShape
<1>2. m \in Row /\ ~m.pinned /\ m.heir = "none"
  BY <1>1, FactMemoryFields
<1>3. /\ Store(m) /\ job' = [job EXCEPT ![p].rest = next, ![p].own = {m}]
      /\ UNCHANGED <<stage, requests, removed, retired, contended>>
  BY DEF CreateOwn
<1> HIDE DEF m
<1>4. /\ job' \in [Procs -> Job] /\ Local(p)
      /\ job'[p].snap = job[p].snap /\ job'[p].left = job[p].left
      /\ job'[p].rest = next /\ job'[p].fact = job[p].fact
      /\ job'[p].held = job[p].held /\ job'[p].own = {m}
      /\ job'[p].pend = job[p].pend /\ job'[p].facts = job[p].facts
  <2>1. job \in [Procs -> Job] /\ next \in Rests /\ {m} \in SUBSET Row
    BY <1>2, Jobs DEF Rests
  <2> DEFINE J == [job[p] EXCEPT !.rest = next, !.own = {m}]
  <2>2. /\ J \in Job /\ J.snap = job[p].snap /\ J.left = job[p].left /\ J.rest = next
        /\ J.fact = job[p].fact /\ J.held = job[p].held /\ J.own = {m}
        /\ J.pend = job[p].pend /\ J.facts = job[p].facts
    BY <2>1 DEF Job
  <2>3. job' = [job EXCEPT ![p] = J] /\ stage' = stage
    BY <1>3, <2>1
  <2> HIDE DEF J
  <2> QED  BY <2>1, <2>2, <2>3 DEF Local
<1>5. m.id # Held(p).id
  BY <1>1, <1>3 DEF Store, Sound
<1>6. next = "mark" => Renewing(p)'
  BY <1>1, <1>2, <1>4, <1>5 DEF Renewing
<1>7. Relating(p)'
  BY <1>1, <1>2, <1>4, <1>5 DEF Relating
<1>8. Shape(p)'
  <2>1. job'[p].rest \in {"mark", "relate"} /\ stage'[p] = "decide" /\ job'[p].pend = {}
    BY <1>1, <1>3, <1>4
  <2> QED  BY <1>1, <1>4, <1>6, <1>7, <2>1 DEF Shape
<1>9. Passed(p)'
  <2>1. Passed(p) /\ stage' = stage
    BY <1>3, Jobs
  <2> QED  BY <1>4, <2>1 DEF Passed, Unknown, Apart
<1> QED  BY <1>1, <1>2, <1>3, <1>4, <1>8, <1>9, StoreStep

\* SUPERSEDE and CONTRADICT store their new memory.
LEMMA CreatesKept ==
  ASSUME NEW p \in Procs, NEW i \in Ids, ReInv, ReconcilerAssumption,
         SupersedeCreate(p, i) \/ ContradictCreate(p, i)
  PROVE  Kept(p)
<1>1. CASE SupersedeCreate(p, i)
  BY <1>1, CreateOwnKept DEF SupersedeCreate, MayBeReplaced
<1>2. CASE ContradictCreate(p, i)
  BY <1>2, CreateOwnKept DEF ContradictCreate
<1> QED  BY <1>1, <1>2

\* CONTRADICT of a project fact reads the memory again.
LEMMA ContradictProjectKept ==
  ASSUME NEW p \in Procs, ReInv, ContradictProject(p), ReconcilerAssumption
  PROVE  Kept(p)
<1>1. /\ stage[p] = "decide" /\ job[p].pend = {} /\ job[p].left = <<>>
      /\ job[p].rest = "contradict" /\ job[p].fact \in Facts /\ Unknown(p, job[p].fact)
  BY RestingShape DEF ContradictProject
<1>2. PICK m \in rows : job' = [job EXCEPT ![p].rest = "supersede", ![p].held = {m}]
  BY DEF ContradictProject
<1>3. stage' = stage
  BY DEF ContradictProject
<1>4. /\ job' \in [Procs -> Job] /\ Local(p)
      /\ job'[p].snap = job[p].snap /\ job'[p].left = job[p].left
      /\ job'[p].rest = "supersede" /\ job'[p].fact = job[p].fact
      /\ job'[p].held = {m} /\ job'[p].own = job[p].own
      /\ job'[p].pend = job[p].pend /\ job'[p].facts = job[p].facts
  <2>1. job \in [Procs -> Job] /\ "supersede" \in Rests /\ {m} \in SUBSET Row
    BY Jobs DEF Rests
  <2> DEFINE J == [job[p] EXCEPT !.rest = "supersede", !.held = {m}]
  <2>2. /\ J \in Job /\ J.snap = job[p].snap /\ J.left = job[p].left /\ J.rest = "supersede"
        /\ J.fact = job[p].fact /\ J.held = {m} /\ J.own = job[p].own
        /\ J.pend = job[p].pend /\ J.facts = job[p].facts
    BY <2>1 DEF Job
  <2>3. job' = [job EXCEPT ![p] = J]
    BY <1>2, <2>1
  <2> HIDE DEF J
  <2> QED  BY <1>3, <2>1, <2>2, <2>3 DEF Local
<1>5. Holding(p)'
  BY <1>4, Jobs DEF Holding, OneOf
<1>6. Shape(p)'
  BY <1>1, <1>3, <1>4, <1>5 DEF Shape
<1>7. Passed(p)'
  BY <1>3, <1>4, Jobs DEF Passed, Unknown, Apart
<1>8. requests' \in 0 .. MaxRequests /\ UNCHANGED <<rows, used, removed, retired, contended>>
  BY DEF ReInv, TypeOK, ContradictProject, history
<1>9. \A a, b \in job'[p].snap : a.id = b.id => a = b
  BY <1>4 DEF ReInv, OneEach
<1> QED  BY <1>1, <1>3, <1>4, <1>6, <1>7, <1>8, <1>9, QuietStep, Jobs

\* A relation is added to the memory the batch has stored.
LEMMA RelateKept ==
  ASSUME NEW p \in Procs, ReInv, Relate(p), ReconcilerAssumption
  PROVE  Kept(p)
<1>1. job[p].pend = {} /\ job[p].rest = "relate"
  BY RestingShape DEF Relate
<1>2. PICK m \in Row : job[p].own = {m}
  BY <1>1, Jobs DEF Shape, Relating
<1>3. Own(p) = m
  BY <1>2, OwnIs
<1>4. Sound(m) /\ Marked(m)
  BY <1>2 DEF ReInv, AllSound, AllMarked, Copies
<1> QED  BY <1>1, <1>3, <1>4, RewriteStep DEF Relate

\* SUPPORT and the end of a CONTRADICT write back what was read.
LEMMA WriteBackKept ==
  ASSUME NEW p \in Procs, ReInv, Support(p) \/ Evidence(p), ReconcilerAssumption
  PROVE  Kept(p)
<1>1. /\ stage[p] = "decide" /\ job[p].pend = {} /\ Held(p) \in Row
      /\ Sound(Held(p)) /\ Marked(Held(p))
  BY RestingShape DEF Support, Evidence
<1>2. Overwrite(Held(p)) /\ job' = Settled(p) /\ UNCHANGED <<stage, history>>
  BY DEF Support, Evidence
<1>3. Shape(p)' /\ Passed(p)'
  BY <1>1, <1>2, SettledShape
<1>4. /\ job' \in [Procs -> Job] /\ Local(p) /\ job'[p].snap = job[p].snap
      /\ job'[p].held = {} /\ job'[p].own = {} /\ job'[p].pend = {}
  BY <1>1, <1>2, SettledFields
<1>5. rows' \subseteq rows \cup {Held(p)} /\ IdsOf(rows) \subseteq IdsOf(rows')
  <2>1. \A r \in rows : (IF r.id = Held(p).id THEN Held(p) ELSE r) \in rows'
    BY <1>2 DEF Overwrite
  <2>2. ASSUME NEW r \in rows PROVE \E n \in rows' : n.id = r.id
    BY <2>1
  <2> QED  BY <1>2, <2>2 DEF IdsOf, Overwrite
<1>6. TypeOK'
  BY <1>1, <1>2, <1>4, <1>5 DEF ReInv, TypeOK, history
<1>7. \A n : (Sound(n) <=> Sound(n)')
  BY <1>2 DEF Sound, history
<1>8. \A n \in rows \cup Copies(p) : Sound(n)
  BY DEF ReInv, AllSound
<1>9. rows' \cup Copies(p)' \subseteq rows \cup Copies(p) \cup {Held(p)}
  BY <1>4, <1>5 DEF Copies
<1>10. \A n \in rows' \cup Copies(p)' : Sound(n)'
  BY <1>1, <1>7, <1>8, <1>9
<1>11. \A n \in rows : Marked(n)
  BY DEF ReInv, AllMarked
<1>12. \A n \in rows' \cup job'[p].held \cup job'[p].own \cup job'[p].pend : Marked(n)
  BY <1>1, <1>4, <1>5, <1>11
<1>13. \A a, b \in job'[p].snap : a.id = b.id => a = b
  BY <1>4 DEF ReInv, OneEach
<1>14. IdsOf(job[p].pend) = {}
  BY <1>1 DEF IdsOf
<1>15. stage'[p] = "decide" /\ UNCHANGED <<used, removed, retired, contended>>
  BY <1>1, <1>2 DEF history
<1> QED  BY <1>3, <1>4, <1>5, <1>6, <1>10, <1>12, <1>13, <1>14, <1>15 DEF Kept

\* What a batch goes on with after the second commit of a rewrite.
LEMMA Inserted ==
  ASSUME NEW p \in Procs, ReInv, Insert(p)
  PROVE  /\ job' \in [Procs -> Job] /\ Local(p) /\ job'[p].pend = {}
         /\ job'[p].snap = job[p].snap /\ job'[p].left = job[p].left
         /\ \/ /\ stage[p] \in {"match", "merge"} /\ job'[p].rest = job[p].rest
               /\ job'[p].fact = job[p].fact /\ job'[p].held = job[p].held
               /\ job'[p].own = job[p].own
               /\ Range(job'[p].facts) \subseteq Range(job[p].facts)
            \/ /\ stage[p] = "decide" /\ job[p].rest = "relate" /\ job[p].held # {}
               /\ job'[p].rest = "evidence" /\ job'[p].fact = job[p].fact
               /\ job'[p].held = job[p].held /\ job'[p].own = job[p].own
               /\ job'[p].facts = job[p].facts
            \/ /\ stage[p] = "decide" /\ job'[p].rest = "none" /\ job'[p].fact = "none"
               /\ job'[p].held = {} /\ job'[p].own = {} /\ job'[p].facts = job[p].facts
<1>1. /\ job[p].pend # {} /\ rows' = rows \cup job[p].pend
      /\ UNCHANGED <<stage, used, requests, removed, retired, contended>>
  BY DEF Insert, history
<1>2. \/ stage[p] \in {"match", "merge"} /\ job[p].facts # <<>> /\ job[p].rest = "none"
      \/ stage[p] = "decide" /\ job[p].rest \in {"merge", "relate"}
  BY <1>1, Jobs DEF Shape, Stages
<1> DEFINE done == [job[p] EXCEPT !.pend = {}]
           J == IF stage[p] # "decide" THEN [done EXCEPT !.facts = Tail(@)]
                ELSE IF job[p].rest = "relate" /\ job[p].held # {}
                     THEN [done EXCEPT !.rest = "evidence"]
                ELSE [done EXCEPT !.rest = "none", !.fact = "none", !.held = {}, !.own = {}]
<1>3. /\ done \in Job /\ done.snap = job[p].snap /\ done.left = job[p].left
      /\ done.rest = job[p].rest /\ done.fact = job[p].fact /\ done.held = job[p].held
      /\ done.own = job[p].own /\ done.pend = {} /\ done.facts = job[p].facts
  BY Jobs DEF Job
<1>4. job' = [job EXCEPT ![p] = J]
  <2>1. job \in [Procs -> Job]
    BY Jobs
  <2> DEFINE gap == [job EXCEPT ![p].pend = {}]
  <2>2. gap = [job EXCEPT ![p] = done] /\ gap \in [Procs -> Job] /\ gap[p] = done
    BY <1>3, <2>1 DEF Job
  <2>3. job' = IF stage[p] # "decide" THEN [gap EXCEPT ![p].facts = Tail(@)]
               ELSE IF job[p].rest = "relate" /\ job[p].held # {}
                    THEN [gap EXCEPT ![p].rest = "evidence"]
               ELSE [gap EXCEPT ![p].rest = "none", ![p].fact = "none",
                                ![p].held = {}, ![p].own = {}]
    BY DEF Insert
  <2> HIDE DEF gap, done
  <2>4. CASE stage[p] # "decide"
    BY <2>1, <2>2, <2>3, <2>4
  <2>5. CASE stage[p] = "decide" /\ job[p].rest = "relate" /\ job[p].held # {}
    BY <2>1, <2>2, <2>3, <2>5
  <2>6. CASE stage[p] = "decide" /\ ~(job[p].rest = "relate" /\ job[p].held # {})
    BY <2>1, <2>2, <2>3, <2>6
  <2> QED  BY <2>4, <2>5, <2>6
<1>5. stage[p] # "decide" =>
        /\ job[p].facts # <<>> /\ Tail(job[p].facts) \in Seq(Facts)
        /\ Range(Tail(job[p].facts)) \subseteq Range(job[p].facts)
  BY <1>2, Jobs, FirstAndRest
<1>6. /\ J \in Job /\ J.snap = job[p].snap /\ J.left = job[p].left /\ J.pend = {}
      /\ \/ /\ stage[p] \in {"match", "merge"} /\ J.rest = job[p].rest
            /\ J.fact = job[p].fact /\ J.held = job[p].held /\ J.own = job[p].own
            /\ J.facts = Tail(job[p].facts)
         \/ /\ stage[p] = "decide" /\ job[p].rest = "relate" /\ job[p].held # {}
            /\ J.rest = "evidence" /\ J.fact = job[p].fact
            /\ J.held = job[p].held /\ J.own = job[p].own /\ J.facts = job[p].facts
         \/ /\ stage[p] = "decide" /\ J.rest = "none" /\ J.fact = "none"
            /\ J.held = {} /\ J.own = {} /\ J.facts = job[p].facts
  <2> HIDE DEF done
  <2>1. "none" \in Rests /\ "evidence" \in Rests
    BY DEF Rests
  <2>2. CASE stage[p] # "decide"
    BY <1>2, <1>3, <1>5, <2>2 DEF Job
  <2>3. CASE stage[p] = "decide" /\ job[p].rest = "relate" /\ job[p].held # {}
    BY <1>3, <2>1, <2>3 DEF Job
  <2>4. CASE stage[p] = "decide" /\ ~(job[p].rest = "relate" /\ job[p].held # {})
    BY <1>3, <2>1, <2>4 DEF Job
  <2> QED  BY <2>2, <2>3, <2>4
<1> HIDE DEF J
<1>7. job' \in [Procs -> Job] /\ job'[p] = J /\ \A q \in Procs \ {p} : job'[q] = job[q]
  BY <1>4, <1>6, Jobs
<1> QED  BY <1>1, <1>5, <1>6, <1>7 DEF Local

\* The second commit of a rewrite.
LEMMA InsertKept ==
  ASSUME NEW p \in Procs, ReInv, Insert(p)
  PROVE  Kept(p)
<1>1. /\ job[p].pend # {} /\ rows' = rows \cup job[p].pend
      /\ UNCHANGED <<stage, used, requests, removed, retired, contended>>
  BY DEF Insert, history
<1>2. /\ job' \in [Procs -> Job] /\ Local(p) /\ job'[p].pend = {}
      /\ job'[p].snap = job[p].snap /\ job'[p].left = job[p].left
      /\ job'[p].held \subseteq job[p].held /\ job'[p].own \subseteq job[p].own
      /\ Range(job'[p].facts) \subseteq Range(job[p].facts)
      /\ job'[p].fact \in {"none", job[p].fact}
  BY Inserted
<1>3. TypeOK'
  BY <1>1, <1>2, Jobs DEF ReInv, TypeOK
<1>4. \A n : (Sound(n) <=> Sound(n)') /\ (Marked(n) <=> Marked(n)')
  BY <1>1 DEF Sound, Marked
<1>5. \A n \in rows \cup Copies(p) : Sound(n)
  BY DEF ReInv, AllSound
<1>6. rows' \cup Copies(p)' \subseteq rows \cup Copies(p)
  BY <1>1, <1>2 DEF Copies
<1>7. \A n \in rows' \cup Copies(p)' : Sound(n)'
  BY <1>4, <1>5, <1>6
<1>8. /\ \A n \in rows \cup job[p].held \cup job[p].own \cup job[p].pend : Marked(n)
      /\ stage[p] \in {"gather", "match", "merge"} => \A n \in job[p].snap : Marked(n)
  BY DEF ReInv, AllMarked
<1>9. \A n \in rows' \cup job'[p].held \cup job'[p].own \cup job'[p].pend : Marked(n)
  BY <1>1, <1>2, <1>8
<1>10. stage'[p] \in {"gather", "match", "merge"} => \A n \in job'[p].snap : Marked(n)
  BY <1>1, <1>2, <1>8
<1>11. \A a, b \in job'[p].snap : a.id = b.id => a = b
  BY <1>2 DEF ReInv, OneEach
<1>12. IdsOf(rows) \cup IdsOf(job[p].pend) \subseteq IdsOf(rows')
  BY <1>1 DEF IdsOf
<1>13. Passed(p)'
  <2>1. Passed(p) /\ stage' = stage
    BY <1>1, Jobs
  <2> QED  BY <1>2, <2>1 DEF Passed, Unknown, Apart
<1>14. Shape(p)'
  <2>1. Shape(p) /\ stage' = stage
    BY <1>1, Jobs
  <2>2. CASE stage[p] = "decide" /\ job[p].rest = "relate" /\ job'[p].rest = "evidence"
             /\ job'[p].fact = job[p].fact /\ job'[p].held = job[p].held /\ job[p].held # {}
    <3>1. Relating(p)
      BY <2>1, <2>2 DEF Shape
    <3>2. Holding(p)'
      BY <2>2, <3>1 DEF Holding, OneOf, Relating
    <3> QED  BY <1>2, <2>1, <2>2, <3>2 DEF Shape
  <2>3. CASE stage[p] = "decide" /\ job'[p].rest = "none" /\ job'[p].fact = "none"
             /\ job'[p].held = {} /\ job'[p].own = {}
    BY <1>2, <2>1, <2>3 DEF Shape
  <2>4. CASE stage[p] \in {"match", "merge"} /\ job'[p].rest = job[p].rest
             /\ job'[p].fact = job[p].fact /\ job'[p].held = job[p].held
             /\ job'[p].own = job[p].own
    BY <1>2, <2>1, <2>4 DEF Shape
  <2> QED  BY <2>2, <2>3, <2>4, Inserted
<1> QED  BY <1>1, <1>2, <1>3, <1>7, <1>4, <1>9, <1>10, <1>11, <1>12, <1>13, <1>14 DEF Kept

\* The end of a batch.
LEMMA StopKept ==
  ASSUME NEW p \in Procs, ReInv, Stop(p), UNCHANGED <<rows, used, requests, retired, contended>>,
         removed' = removed \cup IdsOf(job[p].pend)
  PROVE  Kept(p)
<1>1. NoJob \in Job
  <2>1. <<>> \in Seq(Facts)
    BY EmptySeq
  <2> QED  BY <2>1 DEF NoJob, Job, Rests
<1>2. /\ job' \in [Procs -> Job] /\ stage' \in [Procs -> Stages] /\ Local(p)
      /\ job'[p] = NoJob /\ stage'[p] = "idle"
  BY <1>1, Jobs DEF Stop, Local, Stages
<1>3. /\ job'[p].left = <<>> /\ job'[p].snap = {} /\ job'[p].rest = "none"
      /\ job'[p].fact = "none" /\ job'[p].held = {} /\ job'[p].own = {} /\ job'[p].pend = {}
  BY <1>2 DEF NoJob
<1>4. IdsOf(job[p].pend) \subseteq used
  BY DEF ReInv, AllSound, Copies, Sound, IdsOf
<1>5. TypeOK'
  BY <1>2, <1>4 DEF ReInv, TypeOK
<1>6. \A n : (Sound(n) <=> Sound(n)')
  BY DEF Sound
<1>7. \A n \in rows' \cup Copies(p)' : Sound(n)'
  BY <1>3, <1>6 DEF ReInv, AllSound, Copies
<1>8. \A n \in rows' \cup job'[p].held \cup job'[p].own \cup job'[p].pend : Marked(n)
  BY <1>3 DEF ReInv, AllMarked
<1>9. Shape(p)'
  BY <1>2, <1>3 DEF Shape
<1>10. Passed(p)'
  BY <1>2, <1>3 DEF Passed, Range
<1>11. IdsOf(rows) \cup IdsOf(job[p].pend) \subseteq removed' \cup IdsOf(rows')
  BY DEF IdsOf
<1> QED  BY <1>2, <1>3, <1>5, <1>7, <1>8, <1>9, <1>10, <1>11 DEF Kept

\* A batch returns, or fails and loses a row it has not put back.
LEMMA EndKept ==
  ASSUME NEW p \in Procs, ReInv, Return(p) \/ Fail(p)
  PROVE  Kept(p)
<1>1. CASE Return(p)
  <2>1. IdsOf(job[p].pend) = {}
    BY <1>1 DEF Return, IdsOf
  <2> QED  BY <1>1, <2>1, StopKept DEF Return, history
<1>2. CASE Fail(p)
  BY <1>2, StopKept DEF Fail
<1> QED  BY <1>1, <1>2

-----------------------------------------------------------------------------
(* Marking, the users, and all steps. *)

\* What a SUPERSEDE holds when it marks the old memory.
LEMMA Marking ==
  ASSUME NEW p \in Procs, ReInv, Mark(p), ReconcilerAssumption
  PROVE  \E h, o \in Row :
           /\ job[p].held = {h} /\ job[p].own = {o} /\ ~h.pinned /\ h.id # o.id
           /\ Held(p) = h /\ Own(p) = o /\ o.id \in Ids /\ o.id # "none"
           /\ Sound(h) /\ Sound(o)
<1>1. job[p].rest = "mark"
  BY RestingShape DEF Mark
<1>2. PICK h \in Row, o \in Row :
        job[p].held = {h} /\ job[p].own = {o} /\ ~h.pinned /\ h.id # o.id
  BY <1>1, Jobs DEF Shape, Renewing
<1>3. Held(p) = h /\ Own(p) = o
  BY <1>2, HeldIs, OwnIs
<1>4. o.id \in Ids /\ o.id # "none"
  BY <1>2 DEF Row, ReconcilerAssumption
<1>5. Sound(h) /\ Sound(o)
  BY <1>2 DEF ReInv, AllSound, Copies
<1> QED  BY <1>2, <1>3, <1>4, <1>5

\* SUPERSEDE marks the old memory: unless another batch is running, no other copy
\* of it is left that could be written unmarked.
LEMMA MarkInv ==
  ASSUME NEW p \in Procs, ReInv, Mark(p), ReconcilerAssumption
  PROVE  ReInv'
<1>1. PICK h \in Row, o \in Row :
        /\ job[p].held = {h} /\ job[p].own = {o} /\ ~h.pinned /\ h.id # o.id
        /\ Held(p) = h /\ Own(p) = o /\ o.id \in Ids /\ o.id # "none"
        /\ Sound(h) /\ Sound(o)
  BY Marking
<1>2. stage[p] = "decide" /\ job[p].pend = {}
  BY RestingShape DEF Mark
<1>3. job' = Settled(p) /\ UNCHANGED <<stage, used, requests, removed>>
  BY DEF Mark
<1>4. Shape(p)' /\ Passed(p)'
  BY <1>2, <1>3, SettledShape
<1>5. /\ job' \in [Procs -> Job] /\ Local(p) /\ job'[p].snap = job[p].snap
      /\ job'[p].held = {} /\ job'[p].own = {} /\ job'[p].pend = {}
  BY <1>2, <1>3, SettledFields
<1> DEFINE n == [h EXCEPT !.heir = o.id]
           marked == {h.id} \cap IdsOf(rows)
<1>6. n \in Row /\ n.id = h.id /\ n.heir = o.id /\ n.pinned = h.pinned
  BY <1>1 DEF Row
<1>7. rows' = {IF r.id = n.id THEN n ELSE r : r \in rows}
  BY <1>1 DEF Mark, Overwrite
<1>8. /\ retired' = retired \cup marked
      /\ contended' = IF \E q \in Procs \ {p} : stage[q] # "idle"
                      THEN contended \cup marked ELSE contended
  BY <1>1 DEF Mark
<1>9. marked \subseteq used /\ marked \subseteq Ids
  BY DEF ReInv, AllSound, Sound, IdsOf, TypeOK, Row
<1> HIDE DEF n, marked
<1>10. TypeOK' /\ (retired \subseteq used)'
  <2>1. rows' \subseteq Row
    BY <1>6, <1>7, Jobs
  <2> QED  BY <1>3, <1>5, <1>8, <1>9, <2>1 DEF ReInv, TypeOK
<1>11. AllSound'
  <2>1. \A m : Sound(m) <=> Sound(m)'
    BY <1>3 DEF Sound
  <2>2. Sound(n)
    BY <1>1, <1>6 DEF Sound
  <2>3. \A m \in rows' : Sound(m)'
    BY <1>7, <2>1, <2>2 DEF ReInv, AllSound
  <2>4. ASSUME NEW q \in Procs, NEW m \in Copies(q)' PROVE m \in Copies(q)
    BY <1>5, <2>4 DEF Copies, Local
  <2> QED  BY <2>1, <2>3, <2>4 DEF ReInv, AllSound
<1>12. AllMarked'
  <2>1. Marked(n)'
    BY <1>1, <1>6 DEF Marked
  <2>2. ASSUME NEW m, Marked(m), m.id # h.id \/ \E q \in Procs \ {p} : stage[q] # "idle"
        PROVE  Marked(m)'
    BY <1>8, <2>2 DEF Marked, marked
  <2>3. \A m \in rows' : Marked(m)'
    <3>1. ASSUME NEW m \in rows' PROVE m = n \/ (m \in rows /\ m.id # h.id)
      BY <1>6, <1>7
    <3> QED  BY <2>1, <2>2, <3>1 DEF ReInv, AllMarked
  <2>4. ASSUME NEW q \in Procs, q # p, stage[q] # "idle"
        PROVE  /\ \A m \in job'[q].held \cup job'[q].own \cup job'[q].pend : Marked(m)'
               /\ stage'[q] \in {"gather", "match", "merge"} =>
                    \A m \in job'[q].snap : Marked(m)'
    <3>1. job'[q] = job[q] /\ stage'[q] = stage[q]
      BY <1>5, <2>4 DEF Local
    <3>2. /\ \A m \in job[q].held \cup job[q].own \cup job[q].pend : Marked(m)
          /\ stage[q] \in {"gather", "match", "merge"} => \A m \in job[q].snap : Marked(m)
      BY DEF ReInv, AllMarked
    <3> QED  BY <2>2, <2>4, <3>1, <3>2
  <2>5. ASSUME NEW q \in Procs, q # p, stage[q] = "idle"
        PROVE  /\ job'[q].held = {} /\ job'[q].own = {} /\ job'[q].pend = {}
               /\ job'[q].snap = {}
    BY <1>5, <2>5, Jobs DEF Local, Shape, NoJob
  <2>6. stage'[p] = "decide"
    BY <1>2, <1>3
  <2> QED  BY <1>5, <2>3, <2>4, <2>5, <2>6 DEF AllMarked
<1>13. AllStored'
  <2>1. IdsOf(rows) \subseteq IdsOf(rows')
    <3>1. \A r \in rows : (IF r.id = n.id THEN n ELSE r) \in rows'
      BY <1>7
    <3>2. ASSUME NEW r \in rows PROVE \E m \in rows' : m.id = r.id
      BY <3>1
    <3> QED  BY <3>2 DEF IdsOf
  <2>2. ASSUME NEW q \in Procs PROVE IdsOf(job[q].pend) \subseteq IdsOf(job'[q].pend)
    BY <1>2, <1>5 DEF Local, IdsOf
  <2> QED  BY <1>3, <2>1, <2>2 DEF ReInv, AllStored
<1>14. Shapes'
  <2>1. ASSUME NEW q \in Procs, q # p PROVE Shape(q)'
    <3>1. job'[q] = job[q] /\ stage'[q] = stage[q] /\ Shape(q)
      BY <1>5, <2>1 DEF Local, ReInv, Shapes
    <3> QED  BY <3>1 DEF Shape, Holding, Renewing, Relating, OneOf
  <2> QED  BY <1>4, <2>1 DEF Shapes
<1>15. OneEach'
  <2>1. \A q \in Procs : job'[q].snap = job[q].snap
    BY <1>5 DEF Local
  <2> QED  BY <2>1 DEF OneEach, ReInv
<1>16. AllPassed'
  <2>1. ASSUME NEW q \in Procs, q # p PROVE Passed(q)'
    <3>1. job'[q] = job[q] /\ stage'[q] = stage[q] /\ Passed(q)
      BY <1>5, <2>1 DEF Local, ReInv, AllPassed
    <3> QED  BY <3>1 DEF Passed, Unknown, Apart
  <2> QED  BY <1>4, <2>1 DEF AllPassed
<1> QED  BY <1>10, <1>11, <1>12, <1>13, <1>14, <1>15, <1>16 DEF ReInv

\* What leaves the jobs alone, and what happens to memories without jobs.
LEMMA JobsAlone ==
  ASSUME ReInv, UNCHANGED <<stage, job, retired, contended>>, TypeOK',
         used \subseteq used', removed \subseteq removed',
         used' \subseteq used \cup IdsOf(rows'),
         IdsOf(rows) \subseteq removed' \cup IdsOf(rows'),
         \A m \in rows' : m \in rows \/ (Sound(m)' /\ Marked(m))
  PROVE  ReInv'
<1>1. \A m : (Sound(m) => Sound(m)') /\ (Marked(m) <=> Marked(m)')
  BY DEF Sound, Marked
<1>2. AllSound'
  BY <1>1 DEF ReInv, AllSound, Copies
<1>3. AllMarked'
  BY <1>1 DEF ReInv, AllMarked
<1>4. AllStored'
  <2> SUFFICES ASSUME NEW i \in used'
               PROVE  i \in removed' \cup IdsOf(rows')
                          \cup UNION {IdsOf(job'[q].pend) : q \in Procs}
    BY DEF AllStored, IdsOf
  <2>1. CASE i \in used
    <3>1. i \in removed \cup IdsOf(rows) \cup UNION {IdsOf(job[q].pend) : q \in Procs}
      BY <2>1 DEF ReInv, AllStored
    <3> QED  BY <3>1
  <2>2. CASE i \notin used
    BY <2>2
  <2> QED  BY <2>1, <2>2
<1>5. Shapes' /\ OneEach' /\ AllPassed'
  BY DEF ReInv, Shapes, Shape, Holding, Renewing, Relating, OneOf, OneEach, AllPassed, Passed,
         Unknown, Apart
<1> QED  BY <1>2, <1>3, <1>4, <1>5 DEF ReInv

\* Users create and delete memories.
LEMMA UsersInv ==
  ASSUME ReInv, ReconcilerAssumption, NEW i \in Ids,
         Delete(i) \/ \E s \in Sessions \cup {"none"} : CreatePinned(i, s)
  PROVE  ReInv'
<1>1. CASE Delete(i)
  <2>1. TypeOK'
    BY <1>1 DEF ReInv, TypeOK, Delete, RowsBut
  <2>2. IdsOf(rows) \subseteq removed' \cup IdsOf(rows')
    BY <1>1 DEF Delete, RowsBut, IdsOf
  <2>3. rows' \subseteq rows /\ used' = used /\ removed \subseteq removed'
    BY <1>1 DEF Delete, RowsBut
  <2>4. UNCHANGED <<stage, job, retired, contended>>
    BY <1>1 DEF Delete
  <2> QED  BY <2>1, <2>2, <2>3, <2>4, JobsAlone
<1>2. CASE \E s \in Sessions \cup {"none"} : CreatePinned(i, s)
  <2>1. PICK s \in Sessions \cup {"none"} : CreatePinned(i, s)
    BY <1>2
  <2> DEFINE m == [id |-> i, content |-> {}, abst |-> {}, weight |-> NoteWeight,
                   pinned |-> TRUE, session |-> s, heir |-> "none"]
  <2>2. m \in Row /\ m.id = i /\ m.heir = "none" /\ Store(m)
    BY <2>1 DEF Row, ReconcilerAssumption, CreatePinned
  <2> HIDE DEF m
  <2>3. TypeOK'
    BY <2>1, <2>2 DEF ReInv, TypeOK, CreatePinned, Store
  <2>4. Sound(m)' /\ Marked(m)
    BY <2>2 DEF Sound, Marked, Store, ReInv
  <2>5. used \subseteq used' /\ used' \subseteq used \cup IdsOf(rows') /\ rows' = rows \cup {m}
    BY <2>2 DEF Store, IdsOf
  <2>6. UNCHANGED <<stage, job, removed, retired, contended>>
    BY <2>1 DEF CreatePinned
  <2>7. IdsOf(rows) \subseteq IdsOf(rows')
    BY <2>5 DEF IdsOf
  <2> QED  BY <2>3, <2>4, <2>5, <2>6, <2>7, JobsAlone
<1> QED  BY <1>1, <1>2

\* Nothing is stored, and no batch runs.
LEMMA InitInv ==
  ASSUME ReconcilerAssumption, Init
  PROVE  ReInv
<1>1. NoJob \in Job
  <2>1. <<>> \in Seq(Facts)
    BY EmptySeq
  <2> QED  BY <2>1 DEF NoJob, Job, Rests
<1>2. TypeOK
  BY <1>1 DEF Init, TypeOK, Stages, ReconcilerAssumption
<1>3. \A p \in Procs : job[p] = NoJob /\ stage[p] = "idle"
  BY DEF Init
<1>4. AllSound /\ AllMarked /\ AllStored
  BY <1>3 DEF Init, AllSound, AllMarked, AllStored, Copies, NoJob
<1>5. Shapes /\ OneEach /\ AllPassed
  BY <1>3 DEF Shapes, Shape, OneEach, AllPassed, Passed, NoJob, Range
<1> QED  BY <1>2, <1>4, <1>5 DEF ReInv, Init

\* A step of a batch is Mark, or keeps what Kept asks for.
LEMMA BatchKept ==
  ASSUME ReInv, ReconcilerAssumption, NEW p \in Procs, ~Mark(p),
         \/ Gathering(p) \/ Matching(p) \/ Carrying(p)
         \/ Insert(p) \/ Return(p) \/ Fail(p)
  PROVE  Kept(p)
<1>1. CASE Gathering(p)
  BY <1>1, SubmitKept, SearchKept, SelfDedupKept DEF Gathering
<1>2. CASE Matching(p)
  BY <1>2, MatchKept, MatchUpgradeKept, SessionMergeKept, SessionPassKept, AdvanceKept,
     CreateNextKept DEF Matching
<1>3. CASE Carrying(p)
  <2>1. CASE \E f \in Range(job[p].facts) :
               \/ \E i \in Ids : DecideCreate(p, i, f) \/ DecideContext(p, i, f)
               \/ \E o \in {"merge", "supersede", "support", "contradict"} : DecideOn(p, f, o)
    BY <2>1, DecideCreateKept, DecideContextKept, DecideOnKept
  <2>2. CASE \E i \in Ids : Downgrade(p, i) \/ SupersedeCreate(p, i) \/ ContradictCreate(p, i)
    BY <2>2, DowngradeKept, CreatesKept
  <2>3. CASE \/ Merge(p) \/ Support(p) \/ ContradictProject(p) \/ Relate(p) \/ Evidence(p)
    BY <2>3, MergeKept, WriteBackKept, ContradictProjectKept, RelateKept
  <2> QED  BY <1>3, <2>1, <2>2, <2>3 DEF Carrying
<1>4. CASE Insert(p) \/ Return(p) \/ Fail(p)
  BY <1>4, InsertKept, EndKept
<1> QED  BY <1>1, <1>2, <1>3, <1>4

\* Every step keeps the invariant.
LEMMA NextInv ==
  ASSUME ReInv, ReconcilerAssumption, [Next]_vars
  PROVE  ReInv'
<1>1. CASE UNCHANGED vars
  <2>1. UNCHANGED <<rows, stage, job, used, requests, removed, retired, contended>>
    BY <1>1 DEF vars
  <2>2. TypeOK'
    BY <2>1 DEF ReInv, TypeOK
  <2>3. used' = used /\ removed' = removed /\ rows' = rows
    BY <2>1
  <2>4. IdsOf(rows) \subseteq removed' \cup IdsOf(rows')
    BY <2>1 DEF IdsOf
  <2> QED  BY <2>1, <2>2, <2>3, <2>4, JobsAlone
<1>2. ASSUME NEW p \in Procs,
             \/ Gathering(p) \/ Matching(p) \/ Carrying(p)
             \/ Insert(p) \/ Return(p) \/ Fail(p)
      PROVE  ReInv'
  <2>1. CASE Mark(p)
    BY <2>1, MarkInv
  <2>2. CASE ~Mark(p)
    BY <1>2, <2>2, BatchKept, KeptInv
  <2> QED  BY <2>1, <2>2
<1>3. ASSUME NEW i \in Ids, Delete(i) \/ \E s \in Sessions \cup {"none"} : CreatePinned(i, s)
      PROVE  ReInv'
  BY <1>3, UsersInv
<1> QED  BY <1>1, <1>2, <1>3 DEF Next

-----------------------------------------------------------------------------
(* What steps write. *)

\* The table keeps its rows and every batch the row it has deleted.
Same(p) == rows \subseteq rows' /\ \A q \in Procs : job'[q].pend = job[q].pend

\* Gathering writes nothing.
LEMMA GatheringSame ==
  ASSUME ReInv, NEW p \in Procs, Gathering(p)
  PROVE  Same(p)
<1>1. job \in [Procs -> Job]
  BY Jobs
<1>2. ASSUME NEW r \in Requests, Submit(p, r) PROVE Same(p)
  <2>1. job[p].pend = {} /\ rows' = rows
    BY <1>2, Jobs DEF Submit, Shape, NoJob
  <2>2. [NoJob EXCEPT !.facts = r.facts, !.session = r.session].pend = {}
    BY DEF NoJob
  <2> QED  BY <1>1, <1>2, <2>1, <2>2 DEF Submit, Same
<1>3. ASSUME NEW S \in SUBSET rows, Search(p, S) PROVE Same(p)
  BY <1>1, <1>3 DEF Search, Same, Job
<1>4. ASSUME NEW kept, SelfDedup(p, kept) PROVE Same(p)
  BY <1>1, <1>4 DEF SelfDedup, Same, Job
<1> QED  BY <1>2, <1>3, <1>4 DEF Gathering

\* Before the decisions only the exact match and the session merge rewrite.
LEMMA MatchingSame ==
  ASSUME ReInv, NEW p \in Procs, Matching(p), ~MatchUpgrade(p), ~SessionMerge(p)
  PROVE  Same(p)
<1>1. job \in [Procs -> Job]
  BY Jobs
<1>2. CASE MatchSkip(p)
  BY <1>1, <1>2 DEF MatchSkip, Same, Job
<1>3. CASE MatchPass(p)
  BY <1>1, <1>3 DEF MatchPass, Pass, Same, Job
<1>4. CASE SessionPass(p)
  BY <1>1, <1>4 DEF SessionPass, Pass, Same, Job
<1>5. CASE Advance(p)
  BY <1>1, <1>5 DEF Advance, Same, Job
<1>6. ASSUME NEW i \in Ids, CreateNext(p, i) PROVE Same(p)
  BY <1>1, <1>6 DEF CreateNext, Store, Same, Job
<1> QED  BY <1>2, <1>3, <1>4, <1>5, <1>6 DEF Matching

\* Of the decisions MERGE and those with a relation rewrite, and three write back.
LEMMA CarryingSame ==
  ASSUME ReInv, NEW p \in Procs, Carrying(p), ~Merge(p), ~Relate(p), ~Mark(p), ~Support(p),
         ~Evidence(p)
  PROVE  Same(p)
<1>1. job \in [Procs -> Job]
  BY Jobs
<1>2. ASSUME NEW i \in Ids, NEW f, DecideCreate(p, i, f) PROVE Same(p)
  BY <1>1, <1>2 DEF DecideCreate, Store, Same, Job
<1>3. ASSUME NEW i \in Ids, NEW f, DecideContext(p, i, f) PROVE Same(p)
  BY <1>1, <1>3 DEF DecideContext, Store, Same, Job
<1>4. ASSUME NEW o, NEW f, DecideOn(p, f, o) PROVE Same(p)
  BY <1>1, <1>4 DEF DecideOn, Same, Job
<1>5. ASSUME NEW i \in Ids, Downgrade(p, i) PROVE Same(p)
  <2>1. \A q \in Procs : job'[q].pend = job[q].pend
    BY <1>5, SettledFields DEF Downgrade, Local
  <2> QED  BY <1>5, <2>1 DEF Downgrade, Store, Same
<1>6. ASSUME NEW i \in Ids, NEW next, CreateOwn(p, i, next) PROVE Same(p)
  BY <1>1, <1>6 DEF CreateOwn, Store, Same, Job
<1>7. CASE ContradictProject(p)
  BY <1>1, <1>7 DEF ContradictProject, Same, Job
<1> QED  BY <1>2, <1>3, <1>4, <1>5, <1>6, <1>7 DEF Carrying, SupersedeCreate, ContradictCreate

\* The end of a batch writes nothing.
LEMMA ReturnSame ==
  ASSUME ReInv, NEW p \in Procs, Return(p)
  PROVE  Same(p)
<1>1. job \in [Procs -> Job] /\ NoJob.pend = {}
  BY Jobs DEF NoJob
<1> QED  BY <1>1 DEF Return, Stop, Same

\* The rewrites leave pinned memories alone but for the exact match.
RewriteOf(p, m) ==
  /\ Rewrite(p, m) /\ job[p].pend = {} /\ UNCHANGED <<stage, history>>
  /\ m.pinned => stage[p] = "match"

\* Whatever rewrites a pinned memory is the exact match.
LEMMA RewritesSpare ==
  ASSUME ReInv, ReconcilerAssumption, NEW p \in Procs,
         MatchUpgrade(p) \/ SessionMerge(p) \/ Merge(p) \/ Relate(p)
  PROVE  \E m \in Row : RewriteOf(p, m)
<1>1. CASE MatchUpgrade(p)
  BY <1>1, UpgradeOf DEF RewriteOf, MatchUpgrade, Working, At
<1>2. CASE SessionMerge(p)
  BY <1>2, SessionMergeOf DEF RewriteOf, SessionMerge, Working, At
<1>3. CASE Merge(p)
  BY <1>3, MergeOf DEF RewriteOf, Merge, MayBeReplaced, Resting, At
<1>4. CASE Relate(p)
  <2>1. job[p].pend = {} /\ job[p].rest = "relate"
    BY <1>4, RestingShape DEF Relate
  <2>2. PICK m \in Row : job[p].own = {m} /\ ~m.pinned
    BY <2>1, Jobs DEF Shape, Relating
  <2> QED  BY <1>4, <2>1, <2>2, OwnIs DEF RewriteOf, Relate
<1> QED  BY <1>1, <1>2, <1>3, <1>4

\* A rewrite holds the row it writes, and nothing else.
LEMMA RewrittenPend ==
  ASSUME ReInv, NEW p \in Procs, NEW m \in Row, Rewrite(p, m)
  PROVE  /\ job'[p].pend = {m} /\ \A q \in Procs \ {p} : job'[q] = job[q]
         /\ rows' = {r \in rows : r.id # m.id}
<1>1. job \in [Procs -> Job]
  BY Jobs
<1> QED  BY <1>1 DEF Rewrite, RowsBut, Job

-----------------------------------------------------------------------------
(* The properties. *)

\* What the invariant says of the table.
LEMMA InvImplies ==
  ASSUME ReInv, ReconcilerAssumption
  PROVE  TypeOK /\ RevivalNeedsOverlap /\ SuccessorStored
<1>1. RevivalNeedsOverlap
  BY DEF ReInv, AllMarked, Marked, RevivalNeedsOverlap
<1>2. SuccessorStored
  BY DEF ReInv, AllSound, Sound, AllStored, SuccessorStored
<1> QED  BY <1>1, <1>2 DEF ReInv

\* PinnedSafeFromDecisions, of one step.
PinnedStep ==
  /\ \A p \in Procs : \A m \in job'[p].pend \ job[p].pend : m.pinned => stage[p] = "match"
  /\ \A m \in rows' : m.pinned => m.heir = "none"

\* No decision and no session merge rewrites a pinned memory, and none is
\* superseded.
LEMMA PinnedKept ==
  ASSUME ReInv, ReconcilerAssumption, [Next]_vars
  PROVE  PinnedStep
<1>1. \A m \in rows' : m.pinned => m.heir = "none"
  BY NextInv DEF ReInv, AllSound, Sound
<1> DEFINE Spared == \A q \in Procs : \A m \in job'[q].pend \ job[q].pend :
                       m.pinned => stage[q] = "match"
<1>2. ASSUME NEW p \in Procs, Same(p) PROVE Spared
  BY <1>2 DEF Same
<1>3. ASSUME NEW p \in Procs, NEW m \in Row, RewriteOf(p, m) PROVE Spared
  <2>1. job'[p].pend = {m} /\ \A q \in Procs \ {p} : job'[q] = job[q]
    BY <1>3, RewrittenPend DEF RewriteOf
  <2> QED  BY <1>3, <2>1 DEF RewriteOf
<1>4. ASSUME NEW p \in Procs, Mark(p) \/ Support(p) \/ Evidence(p) PROVE Spared
  <2>1. job' = Settled(p) /\ stage' = stage
    BY <1>4 DEF Mark, Support, Evidence
  <2> QED  BY <2>1, SettledFields DEF Local
<1>5. ASSUME NEW p \in Procs, Insert(p) PROVE Spared
  BY <1>5, Inserted DEF Local
<1>6. ASSUME NEW p \in Procs, Fail(p) PROVE Spared
  <2>1. job \in [Procs -> Job] /\ NoJob.pend = {}
    BY Jobs DEF NoJob
  <2> QED  BY <1>6, <2>1 DEF Fail, Stop
<1>7. ASSUME job' = job PROVE Spared
  BY <1>7
<1> HIDE DEF Spared
<1>8. Spared
  <2>1. CASE UNCHANGED vars
    BY <2>1, <1>7 DEF vars
  <2>2. ASSUME NEW p \in Procs,
               \/ Gathering(p) \/ Matching(p) \/ Carrying(p)
               \/ Insert(p) \/ Return(p) \/ Fail(p)
        PROVE  Spared
    BY <2>2, <1>2, <1>3, <1>4, <1>5, <1>6, GatheringSame, MatchingSame, CarryingSame, ReturnSame,
       RewritesSpare
  <2>3. ASSUME NEW i \in Ids, Delete(i) \/ \E s \in Sessions \cup {"none"} : CreatePinned(i, s)
        PROVE  Spared
    BY <2>3, <1>7 DEF Delete, CreatePinned
  <2> QED  BY <2>1, <2>2, <2>3 DEF Next
<1> QED  BY <1>1, <1>8 DEF PinnedStep, Spared

\* A fact is told by a row of the table or in the gap of a rewrite.
LEMMA ToldWhere ==
  ASSUME NEW f
  PROVE  f \in Told <=> \/ \E m \in rows : f \in m.abst
                        \/ \E p \in Procs : \E m \in job[p].pend : f \in m.abst
BY DEF Told

\* KnowledgeKept, of one step.
KnowledgeStep ==
  \A f \in Told \ Told' :
    \/ UNCHANGED job
    \/ \E p \in Procs : job'[p] # job[p] /\ MayDrop(p, f)

\* Where no row is taken away nothing is forgotten.
LEMMA SameTold ==
  ASSUME NEW p \in Procs, Same(p)
  PROVE  Told \subseteq Told'
BY DEF Same, Told

\* The facts a rewrite loses are those of the row it takes away.
LEMMA RewriteLoses ==
  ASSUME ReInv, NEW p \in Procs, NEW m \in Row, RewriteOf(p, m),
         NEW f \in Told \ Told'
  PROVE  /\ job'[p].pend = {m} /\ job'[p] # job[p] /\ f \notin m.abst
         /\ \E r \in rows : r.id = m.id /\ f \in r.abst
<1>1. /\ job'[p].pend = {m} /\ \A q \in Procs \ {p} : job'[q] = job[q]
      /\ rows' = {r \in rows : r.id # m.id} /\ job[p].pend = {}
  BY RewrittenPend DEF RewriteOf
<1>2. f \notin m.abst
  BY <1>1 DEF Told
<1>3. ASSUME NEW q \in Procs, NEW n \in job[q].pend, f \in n.abst PROVE FALSE
  <2>1. n \in job'[q].pend
    BY <1>1, <1>3
  <2> QED  BY <1>3, <2>1 DEF Told
<1>4. PICK r \in rows : f \in r.abst
  BY <1>3, ToldWhere
<1>5. r \notin rows'
  BY <1>4 DEF Told
<1> QED  BY <1>1, <1>2, <1>4, <1>5

\* The exact match writes a fact over a memory that it is related to, or over
\* one that told nothing.
LEMMA UpgradeDrops ==
  ASSUME ReInv, ReconcilerAssumption, NEW p \in Procs, MatchUpgrade(p), NEW f \in Told \ Told'
  PROVE  job'[p] # job[p] /\ MayDrop(p, f)
<1>1. PICK n \in job[p].snap, m \in Row :
        /\ Current(p) \in Facts /\ n \in Candidates(p, Current(p))
        /\ Rewrite(p, m) /\ m.id = n.id /\ m.abst = {Current(p)}
        /\ m.heir = n.heir /\ m.pinned = n.pinned
  BY UpgradeOf
<1>2. RewriteOf(p, m) /\ stage[p] = "match"
  BY <1>1 DEF RewriteOf, MatchUpgrade, Working, At
<1>3. job'[p].pend = {m} /\ job'[p] # job[p]
  BY <1>2, RewriteLoses
<1>4. job[p].rest = "none"
  BY <1>2, Jobs DEF Shape
<1>5. Basis(p, m.id) = {s \in job[p].snap : s.id = m.id}
  BY <1>4 DEF Basis
<1>6. n \in Basis(p, m.id)
  BY <1>1, <1>5
<1>7. CASE n.abst = {}
  <2>1. \A s \in Basis(p, m.id) : s = n
    BY <1>1, <1>5 DEF ReInv, OneEach
  <2> QED  BY <1>3, <1>7, <2>1 DEF MayDrop
<1>8. CASE n.abst # {}
  <2>1. Related(Current(p), n)
    <3>1. CASE n \in SameText(p, Current(p))
      BY <3>1 DEF SameText, Related
    <3>2. CASE n \in Contained(p, Current(p))
      BY <1>8, <3>2 DEF Contained, Related
    <3>3. CASE n \in Similar(p, Current(p))
      BY <3>3 DEF Similar, Related, ReconcilerAssumption
    <3>4. CASE n \in Reworded(p, Current(p))
      BY <3>4 DEF Reworded, Related
    <3> QED  BY <1>1, <3>1, <3>2, <3>3, <3>4 DEF Candidates, Duplicates
  <2>2. GivesWay(p, m)
    BY <1>1, <1>6, <2>1 DEF GivesWay
  <2> QED  BY <1>3, <2>2 DEF MayDrop
<1> QED  BY <1>7, <1>8

\* The session merge writes a fact over a memory it is near to.
LEMMA SessionMergeDrops ==
  ASSUME ReInv, ReconcilerAssumption, NEW p \in Procs, SessionMerge(p), NEW f \in Told \ Told'
  PROVE  job'[p] # job[p] /\ MayDrop(p, f)
<1>1. PICK n \in job[p].snap, m \in Row :
        /\ Current(p) \in Facts /\ n \in SessionMatches(p, Current(p)) /\ ~n.pinned
        /\ Rewrite(p, m) /\ m.id = n.id /\ m.abst = {Current(p)}
        /\ m.heir = n.heir /\ m.pinned = n.pinned
  BY SessionMergeOf
<1>2. RewriteOf(p, m) /\ stage[p] = "merge"
  BY <1>1 DEF RewriteOf, SessionMerge, Working, At
<1>3. job'[p].pend = {m} /\ job'[p] # job[p]
  BY <1>2, RewriteLoses
<1>4. job[p].rest = "none"
  BY <1>2, Jobs DEF Shape
<1>5. n \in Basis(p, m.id)
  BY <1>1, <1>4 DEF Basis
<1>6. Related(Current(p), n)
  BY <1>1 DEF SessionMatches, Related
<1>7. GivesWay(p, m)
  BY <1>1, <1>5, <1>6 DEF GivesWay
<1> QED  BY <1>3, <1>7 DEF MayDrop

\* A merged text tells what the snapshot showed, or is the fact alone.
LEMMA MergeDrops ==
  ASSUME ReInv, ReconcilerAssumption, NEW p \in Procs, Merge(p), NEW f \in Told \ Told'
  PROVE  job'[p] # job[p] /\ MayDrop(p, f)
<1>1. PICK a \in MergedTexts(p), m \in Row :
        /\ Rewrite(p, m) /\ m.id = Held(p).id /\ m.abst = a
        /\ m.heir = Held(p).heir /\ m.pinned = Held(p).pinned
  BY MergeOf
<1>2. RewriteOf(p, m) /\ job[p].rest = "merge"
  BY <1>1 DEF RewriteOf, Merge, MayBeReplaced, Resting, At
<1>3. job'[p].pend = {m} /\ job'[p] # job[p] /\ f \notin m.abst
  BY <1>2, RewriteLoses
<1>4. CASE a = {job[p].fact}
  BY <1>1, <1>2, <1>3, <1>4 DEF MayDrop
<1>5. CASE a = {job[p].fact} \cup UNION {n.abst : n \in {n \in job[p].snap : n.id = Held(p).id}}
  <2>1. \A s \in Basis(p, m.id) : f \notin s.abst
    BY <1>1, <1>2, <1>3, <1>5 DEF Basis
  <2> QED  BY <1>3, <2>1 DEF MayDrop
<1> QED  BY <1>4, <1>5 DEF MergedTexts

\* The row of a new memory is rewritten from the copy of its own.
LEMMA RelateDrops ==
  ASSUME ReInv, ReconcilerAssumption, NEW p \in Procs, Relate(p), NEW f \in Told \ Told'
  PROVE  job'[p] # job[p] /\ MayDrop(p, f)
<1>1. job[p].pend = {} /\ job[p].rest = "relate"
  BY RestingShape DEF Relate
<1>2. Relating(p)
  BY <1>1, Jobs DEF Shape
<1>3. PICK m \in Row : /\ job[p].own = {m} /\ ~m.pinned
                       /\ (job[p].held = {} \/ \E h \in Row : job[p].held = {h} /\ h.id # m.id)
  BY <1>2 DEF Relating
<1>4. RewriteOf(p, m)
  BY <1>1, <1>3, OwnIs DEF RewriteOf, Relate
<1>5. job'[p].pend = {m} /\ job'[p] # job[p]
  BY <1>4, RewriteLoses
<1>6. Basis(p, m.id) = {}
  BY <1>1, <1>3 DEF Basis
<1> QED  BY <1>5, <1>6 DEF MayDrop

\* A write over the row a decision is about loses what the copy does not tell.
LEMMA OverwriteDrops ==
  ASSUME ReInv, ReconcilerAssumption, NEW p \in Procs,
         Mark(p) \/ Support(p) \/ Evidence(p), NEW f \in Told \ Told'
  PROVE  job'[p] # job[p] /\ MayDrop(p, f)
<1>1. /\ job[p].rest \in {"mark", "support", "evidence"}
      /\ job[p].held = {Held(p)} /\ Held(p) \in Row
  BY RestingShape DEF Mark, Support, Evidence
<1>2. job' = Settled(p) /\ stage' = stage
  BY DEF Mark, Support, Evidence
<1>3. job'[p].held = {} /\ \A q \in Procs : job'[q].pend = job[q].pend
  BY <1>2, SettledFields DEF Local
<1>4. Basis(p, Held(p).id) = {Held(p)}
  BY <1>1 DEF Basis
<1>5. PICK w : Overwrite(w) /\ w.id = Held(p).id /\ w.abst = Held(p).abst
  <2>1. CASE Support(p) \/ Evidence(p)
    BY <2>1 DEF Support, Evidence
  <2>2. CASE Mark(p)
    <3> DEFINE w == [Held(p) EXCEPT !.heir = Own(p).id]
    <3>1. w.id = Held(p).id /\ w.abst = Held(p).abst
      BY <1>1 DEF Row
    <3>2. Overwrite(w)
      BY <2>2 DEF Mark
    <3> QED  BY <3>1, <3>2
  <2> QED  BY <2>1, <2>2
<1>6. ASSUME f \in Held(p).abst PROVE FALSE
  <2>1. ASSUME NEW q \in Procs, NEW n \in job[q].pend, f \in n.abst PROVE FALSE
    BY <1>3, <2>1 DEF Told
  <2>2. PICK r \in rows : f \in r.abst
    BY <2>1, ToldWhere
  <2>3. (IF r.id = w.id THEN w ELSE r) \in rows'
    BY <1>5 DEF Overwrite
  <2>4. f \in (IF r.id = w.id THEN w ELSE r).abst
    BY <1>5, <1>6, <2>2
  <2> QED  BY <2>3, <2>4 DEF Told
<1> QED  BY <1>1, <1>3, <1>4, <1>6 DEF MayDrop

\* The second commit of a rewrite loses nothing.
LEMMA InsertTold ==
  ASSUME ReInv, NEW p \in Procs, Insert(p)
  PROVE  Told \subseteq Told'
<1>1. rows' = rows \cup job[p].pend /\ \A q \in Procs \ {p} : job'[q] = job[q]
  BY Inserted DEF Insert, Local
<1> QED  BY <1>1 DEF Told

\* A batch that fails loses the row it has not put back.
LEMMA FailDrops ==
  ASSUME ReInv, NEW p \in Procs, Fail(p), NEW f \in Told \ Told'
  PROVE  job'[p] # job[p] /\ MayDrop(p, f)
<1>1. job'[p] = NoJob /\ (\A q \in Procs \ {p} : job'[q] = job[q]) /\ rows' = rows
  BY Jobs DEF Fail, Stop
<1>2. job[p].pend # {}
  BY <1>1 DEF Told
<1> QED  BY <1>1, <1>2 DEF MayDrop, NoJob

\* A step loses a told fact only where KnowledgeKept says so.
LEMMA KnowledgeStays ==
  ASSUME ReInv, ReconcilerAssumption, [Next]_vars
  PROVE  KnowledgeStep
<1> SUFFICES ASSUME NEW f \in Told \ Told', job' # job
             PROVE  \E p \in Procs : job'[p] # job[p] /\ MayDrop(p, f)
  BY DEF KnowledgeStep
<1>1. ASSUME NEW p \in Procs,
             \/ Gathering(p) \/ Matching(p) \/ Carrying(p)
             \/ Insert(p) \/ Return(p) \/ Fail(p)
      PROVE  job'[p] # job[p] /\ MayDrop(p, f)
  <2>1. ~Same(p) /\ ~Insert(p)
    BY SameTold, InsertTold
  <2>2. CASE Matching(p)
    BY <2>1, <2>2, MatchingSame, UpgradeDrops, SessionMergeDrops
  <2>3. CASE Carrying(p)
    BY <2>1, <2>3, CarryingSame, MergeDrops, RelateDrops, OverwriteDrops
  <2>4. CASE Fail(p)
    BY <2>4, FailDrops
  <2> QED  BY <1>1, <2>1, <2>2, <2>3, <2>4, GatheringSame, ReturnSame
<1>2. ASSUME NEW i \in Ids, Delete(i) \/ \E s \in Sessions \cup {"none"} : CreatePinned(i, s)
      PROVE  FALSE
  BY <1>2 DEF Delete, CreatePinned
<1> QED  BY <1>1, <1>2 DEF Next, vars

\* OnlyUnknownCreated, of one step.
UnknownStep ==
  \A m \in rows' : m.id \notin used /\ ~m.pinned =>
    \E p \in Procs :
      /\ job'[p] # job[p]
      /\ \A s \in job[p].snap :
           /\ s.abst # {} /\ s.abst # m.abst /\ s.content # m.content
           /\ \A f \in m.abst, g \in s.abst : s.abst = {g} => <<f, g>> \notin Kin

\* Whatever stores a memory for a fact stores it for one that the snapshot
\* does not know.
LEMMA StoredUnknown ==
  ASSUME ReInv, ReconcilerAssumption, NEW p \in Procs, NEW i \in Ids, NEW f \in Facts,
         Unknown(p, f), Store(FactMemory(p, i, f)), job'[p] # job[p]
  PROVE  UnknownStep
<1> SUFFICES ASSUME NEW m \in rows', m.id \notin used
             PROVE  \A s \in job[p].snap :
                      /\ s.abst # {} /\ s.abst # m.abst /\ s.content # m.content
                      /\ \A e \in m.abst, g \in s.abst : s.abst = {g} => <<e, g>> \notin Kin
  BY DEF UnknownStep
<1>1. m \notin rows
  BY DEF ReInv, AllSound, Sound
<1>2. m.abst = {f} /\ m.content = {Source[f]}
  BY <1>1, FactMemoryFields DEF Store
<1>3. \A s \in job[p].snap : s.abst \subseteq Facts
  BY Jobs DEF Row
<1> QED  BY <1>2, <1>3 DEF Unknown, Apart

\* A step stores memories only for facts that the snapshot does not know.
LEMMA CreatedUnknown ==
  ASSUME ReInv, ReconcilerAssumption, [Next]_vars
  PROVE  UnknownStep
<1>1. ASSUME used' = used PROVE UnknownStep
  <2>1. \A m \in rows' : m.id \in used
    BY <1>1, NextInv DEF ReInv, AllSound, Sound
  <2> QED  BY <2>1 DEF UnknownStep
<1>2. ASSUME NEW p \in Procs, NEW i \in Ids, CreateNext(p, i) PROVE UnknownStep
  <2>1. job[p].facts # <<>> /\ stage[p] = "create" /\ Store(FactMemory(p, i, Current(p)))
    BY <1>2 DEF CreateNext, Working, At
  <2>2. Current(p) \in Facts /\ Current(p) \in Range(job[p].facts)
    BY <2>1, Jobs, FirstAndRest DEF Current
  <2>3. job'[p].facts = Tail(job[p].facts)
    BY <1>2, Jobs DEF CreateNext, Job
  <2>4. Tail(job[p].facts) # job[p].facts
    <3>1. /\ Len(job[p].facts) \in Nat /\ job[p].facts \in Seq(Facts)
          /\ Len(Tail(job[p].facts)) = Len(job[p].facts) - 1
      BY <2>1, Jobs, HeadTailProperties, LenProperties
    <3>2. Len(job[p].facts) - 1 # Len(job[p].facts)
      BY <3>1
    <3> QED  BY <3>1, <3>2, Zenon
  <2> QED  BY <2>1, <2>2, <2>3, <2>4, Jobs, StoredUnknown DEF Passed
<1>3. ASSUME NEW p \in Procs, NEW i \in Ids, NEW f \in Range(job[p].facts),
             DecideCreate(p, i, f)
      PROVE  UnknownStep
  <2>1. job'[p].due = job[p].due - 1
    BY <1>3, Jobs DEF DecideCreate, Job
  <2>2. job'[p].due # job[p].due
    BY <2>1, Jobs
  <2> QED  BY <1>3, <2>2, DecidingShape, StoredUnknown DEF DecideCreate
<1>4. ASSUME NEW p \in Procs, NEW i \in Ids, NEW f \in Range(job[p].facts),
             DecideContext(p, i, f)
      PROVE  UnknownStep
  <2>1. job'[p].rest = "relate"
    BY <1>4, Jobs DEF DecideContext, Job
  <2> QED  BY <1>4, <2>1, DecidingShape, StoredUnknown DEF DecideContext
<1>5. ASSUME NEW p \in Procs, NEW i \in Ids, Downgrade(p, i) PROVE UnknownStep
  <2>1. job'[p].rest = "none"
    BY <1>5, SettledFields DEF Downgrade
  <2> QED  BY <1>5, <2>1, RestingShape, StoredUnknown DEF Downgrade
<1>6. ASSUME NEW p \in Procs, NEW i \in Ids, SupersedeCreate(p, i) PROVE UnknownStep
  <2>1. job'[p].rest = "mark"
    BY <1>6, Jobs DEF SupersedeCreate, CreateOwn, Job
  <2>2. job[p].rest = "supersede" /\ job[p].fact \in Facts /\ Unknown(p, job[p].fact)
    BY <1>6, RestingShape DEF SupersedeCreate
  <2>3. Store(FactMemory(p, i, job[p].fact))
    BY <1>6 DEF SupersedeCreate, CreateOwn
  <2> QED  BY <2>1, <2>2, <2>3, StoredUnknown
<1>7. ASSUME NEW p \in Procs, NEW i \in Ids, ContradictCreate(p, i) PROVE UnknownStep
  <2>1. job'[p].rest = "relate"
    BY <1>7, Jobs DEF ContradictCreate, CreateOwn, Job
  <2>2. job[p].rest = "contradict" /\ job[p].fact \in Facts /\ Unknown(p, job[p].fact)
    BY <1>7, RestingShape DEF ContradictCreate
  <2>3. Store(FactMemory(p, i, job[p].fact))
    BY <1>7 DEF ContradictCreate, CreateOwn
  <2> QED  BY <2>1, <2>2, <2>3, StoredUnknown
<1>8. ASSUME NEW i \in Ids, NEW s, CreatePinned(i, s) PROVE UnknownStep
  <2>1. \A m \in rows' : m \in rows \/ m.pinned
    BY <1>8 DEF CreatePinned, Store
  <2> QED  BY <2>1 DEF UnknownStep, ReInv, AllSound, Sound
<1>9. CASE UNCHANGED vars
  BY <1>1, <1>9 DEF vars
<1>10. ASSUME NEW p \in Procs, Gathering(p) PROVE UnknownStep
  BY <1>1, <1>10 DEF Gathering, Submit, Search, SelfDedup, history
<1>11. ASSUME NEW p \in Procs, Matching(p) PROVE UnknownStep
  BY <1>1, <1>2, <1>11 DEF Matching, MatchSkip, MatchUpgrade, MatchPass, SessionMerge, SessionPass,
     Advance, history
<1>12. ASSUME NEW p \in Procs, Carrying(p) PROVE UnknownStep
  BY <1>1, <1>3, <1>4, <1>5, <1>6, <1>7, <1>12 DEF Carrying, DecideOn, Merge, Mark, Support,
     ContradictProject, Relate, Evidence, history
<1>13. ASSUME NEW p \in Procs, Insert(p) \/ Return(p) \/ Fail(p) PROVE UnknownStep
  BY <1>1, <1>13 DEF Insert, Return, Fail, history
<1>14. ASSUME NEW i \in Ids, Delete(i) PROVE UnknownStep
  BY <1>1, <1>14 DEF Delete
<1> QED  BY <1>8, <1>9, <1>10, <1>11, <1>12, <1>13, <1>14 DEF Next

\* However batches overlap, fail and race with users who create and delete
\* (ingest/reconciler.rs): types; a superseded memory comes back only if another
\* batch ran when it was marked, and its successor was stored; what is told is
\* lost only where KnowledgeKept says so; no known fact is created again; no
\* decision touches a pinned memory.
THEOREM BatchesAreSafe == Spec => BatchesSafe
<1> USE ReconcilerAssumption
<1>1. Init => ReInv
  BY InitInv
<1>2. ReInv /\ [Next]_vars => ReInv'
  BY NextInv
<1>3. ReInv => TypeOK /\ RevivalNeedsOverlap /\ SuccessorStored
  BY InvImplies
<1>4. ReInv /\ [Next]_vars => KnowledgeStep
  BY KnowledgeStays
<1>5. ReInv /\ [Next]_vars => UnknownStep
  BY CreatedUnknown
<1>6. ReInv /\ [Next]_vars => PinnedStep
  BY PinnedKept
<1>7. KnowledgeStep => [\A f \in Told \ Told' :
                          \/ UNCHANGED job
                          \/ \E p \in Procs : job'[p] # job[p] /\ MayDrop(p, f)]_vars
  BY DEF KnowledgeStep
<1>8. UnknownStep =>
        [\A m \in rows' : m.id \notin used /\ ~m.pinned =>
           \E p \in Procs :
             /\ job'[p] # job[p]
             /\ \A s \in job[p].snap :
                  /\ s.abst # {} /\ s.abst # m.abst /\ s.content # m.content
                  /\ \A f \in m.abst, g \in s.abst : s.abst = {g} => <<f, g>> \notin Kin]_vars
  BY DEF UnknownStep
<1>9. PinnedStep =>
        [/\ \A p \in Procs : \A m \in job'[p].pend \ job[p].pend : m.pinned => stage[p] = "match"
         /\ \A m \in rows' : m.pinned => m.heir = "none"]_vars
  BY DEF PinnedStep
<1> QED
  BY <1>1, <1>2, <1>3, <1>4, <1>5, <1>6, <1>7, <1>8, <1>9, PTL
     DEF Spec, BatchesSafe, KnowledgeKept, OnlyUnknownCreated, PinnedSafeFromDecisions

(***************************************************************************)
(* OpenClaw, for any budget, lengths and sessions: what a turn's end does  *)
(* not send was cut off by the loop, and only a reset echoes memories.     *)
(***************************************************************************)

\* A message, and what the loop of agent_end keeps.
Spoken == [id : Nat, role : {"user", "assistant"}, own : Nat, block : Nat]
Loops == [sent : SUBSET Nat, bytes : Nat, ended : BOOLEAN]
NoLoop == [sent |-> {}, bytes |-> 0, ended |-> FALSE]

\* f tells what the loop has after i messages, up to the n-th.
LoopUpTo(f, n) == f = [i \in 0 .. n |-> IF i = 0 THEN NoLoop ELSE Round(f[i - 1], i)]

\* f tells what the last messages weigh up to the j-th, up to the n-th.
LoadUpTo(f, n) ==
  f = [j \in 0 .. n |-> IF j = 0 THEN 0
                        ELSE f[j - 1] + (IF j + MaxCapture > Len(messages) THEN messages[j].own ELSE 0)]

\* There are such functions: the definitions of Budgeted
LEMMA LoopExists ==
  ASSUME NEW l \in Nat
  PROVE  \E f : LoopUpTo(f, l)
<1> DEFINE Bad == {n \in 0 .. l : ~ \E f : LoopUpTo(f, n)}
<1>1. SUFFICES ASSUME Bad # {}  PROVE FALSE
  <2>1. l \in 0 .. l
    OBVIOUS
  <2>2. QED  BY <2>1
<1>2. Bad \subseteq Nat
  OBVIOUS
<1> HIDE DEF Bad
<1>3. PICK n \in Bad : \A j \in Bad : n <= j
  BY <1>1, <1>2, LeastOf
<1>4. n \in 0 .. l /\ ~ \E f : LoopUpTo(f, n)
  BY <1>3 DEF Bad
<1>5. CASE n = 0
  <2>1. PICK f : f = [i \in 0 .. 0 |-> NoLoop]
    OBVIOUS
  <2>2. LoopUpTo(f, 0)
    BY <2>1 DEF LoopUpTo
  <2>3. QED  BY <1>4, <1>5, <2>2
<1>6. CASE n # 0
  <2>1. n - 1 \in 0 .. l /\ n - 1 \notin Bad
    BY <1>2, <1>3, <1>4, <1>6
  <2>2. PICK g : LoopUpTo(g, n - 1)
    BY <2>1 DEF Bad
  <2>3. PICK f : f = [i \in 0 .. n |-> IF i # n THEN g[i] ELSE Round(g[n - 1], n)]
    OBVIOUS
  <2>4. ASSUME NEW i \in 0 .. n
        PROVE  f[i] = IF i = 0 THEN NoLoop ELSE Round(f[i - 1], i)
    <3>1. n \in Nat /\ i \in Nat /\ i <= n
      BY <1>4
    <3>2. CASE i = n
      BY <1>6, <2>3, <3>1, <3>2
    <3>3. CASE i # n
      <4>1. f[i] = g[i] /\ (i # 0 => f[i - 1] = g[i - 1])
        BY <2>3, <3>1, <3>3
      <4>2. i \in 0 .. n - 1
        BY <3>1, <3>3
      <4>3. g[i] = IF i = 0 THEN NoLoop ELSE Round(g[i - 1], i)
        BY <2>2, <4>2 DEF LoopUpTo
      <4>4. QED  BY <4>1, <4>3
    <3>4. QED  BY <3>2, <3>3
  <2>5. LoopUpTo(f, n)
    <3>1. f = [i \in 0 .. n |-> f[i]]
      BY <2>3
    <3>2. [i \in 0 .. n |-> f[i]] = [i \in 0 .. n |-> IF i = 0 THEN NoLoop ELSE Round(f[i - 1], i)]
      BY <2>4
    <3>3. QED  BY <3>1, <3>2 DEF LoopUpTo
  <2>6. QED  BY <1>4, <2>5
<1>7. QED  BY <1>5, <1>6

\* and of Load are sound.
LEMMA LoadExists ==
  ASSUME NEW l \in Nat
  PROVE  \E f : LoadUpTo(f, l)
<1> DEFINE heard(j) == IF j + MaxCapture > Len(messages) THEN messages[j].own ELSE 0
           Bad == {n \in 0 .. l : ~ \E f : LoadUpTo(f, n)}
<1>1. SUFFICES ASSUME Bad # {}  PROVE FALSE
  <2>1. l \in 0 .. l
    OBVIOUS
  <2>2. QED  BY <2>1
<1>2. Bad \subseteq Nat
  OBVIOUS
<1> HIDE DEF Bad
<1>3. PICK n \in Bad : \A j \in Bad : n <= j
  BY <1>1, <1>2, LeastOf
<1>4. n \in 0 .. l /\ ~ \E f : LoadUpTo(f, n)
  BY <1>3 DEF Bad
<1>0. ASSUME NEW f, NEW k
      PROVE  LoadUpTo(f, k) <=> f = [j \in 0 .. k |-> IF j = 0 THEN 0 ELSE f[j - 1] + heard(j)]
  BY DEF LoadUpTo
<1> HIDE DEF heard
<1>5. CASE n = 0
  <2>1. PICK f : f = [j \in 0 .. 0 |-> 0]
    OBVIOUS
  <2>2. f = [j \in 0 .. 0 |-> IF j = 0 THEN 0 ELSE f[j - 1] + heard(j)]
    BY <2>1
  <2>4. LoadUpTo(f, 0)
    BY <1>0, <2>2
  <2>3. QED  BY <1>4, <1>5, <2>4
<1>6. CASE n # 0
  <2>1. n - 1 \in 0 .. l /\ n - 1 \notin Bad
    BY <1>2, <1>3, <1>4, <1>6
  <2>2. PICK g : LoadUpTo(g, n - 1)
    BY <2>1 DEF Bad
  <2>3. PICK f : f = [j \in 0 .. n |-> IF j # n THEN g[j] ELSE g[n - 1] + heard(n)]
    OBVIOUS
  <2>4. ASSUME NEW j \in 0 .. n
        PROVE  f[j] = IF j = 0 THEN 0 ELSE f[j - 1] + heard(j)
    <3>1. n \in Nat /\ j \in Nat /\ j <= n
      BY <1>4
    <3>2. CASE j = n
      BY <1>6, <2>3, <3>1, <3>2
    <3>3. CASE j # n
      <4>1. f[j] = g[j] /\ (j # 0 => f[j - 1] = g[j - 1])
        BY <2>3, <3>1, <3>3
      <4>2. j \in 0 .. n - 1
        BY <3>1, <3>3
      <4>3. g[j] = IF j = 0 THEN 0 ELSE g[j - 1] + heard(j)
        BY <1>0, <2>2, <4>2
      <4>4. QED  BY <4>1, <4>3
    <3>4. QED  BY <3>2, <3>3
  <2>5. LoadUpTo(f, n)
    <3>1. f = [j \in 0 .. n |-> f[j]]
      BY <2>3
    <3>2. [j \in 0 .. n |-> f[j]] = [j \in 0 .. n |-> IF j = 0 THEN 0 ELSE f[j - 1] + heard(j)]
      BY <2>4
    <3>3. QED  BY <1>0, <3>1, <3>2
  <2>6. QED  BY <1>4, <2>5
<1>7. QED  BY <1>5, <1>6

\* A message that agent_end reaches within its budget is sent, unless it is
\* empty; and it sends nothing but messages.
LEMMA ReachedIsSent ==
  ASSUME OpenClawAssumption, messages \in Seq(Spoken)
  PROVE  /\ Budgeted \subseteq DOMAIN messages
         /\ \A i \in DOMAIN messages : Reached(i) /\ messages[i].own > 0 => i \in Budgeted
<1> DEFINE l == Len(messages)
<1>0. l \in Nat /\ DOMAIN messages = 1 .. l /\ MaxCapture \in Nat /\ CaptureBytes \in Nat
  BY DEF OpenClawAssumption
<1>1. PICK f : f = CHOOSE h : LoopUpTo(h, l)
  OBVIOUS
<1>2. LoopUpTo(f, l)
  BY <1>0, <1>1, LoopExists
<1>3. Budgeted = f[l].sent
  BY <1>1 DEF Budgeted, LoopUpTo, NoLoop
<1>4. PICK g : g = CHOOSE h : LoadUpTo(h, l)
  OBVIOUS
<1>5. LoadUpTo(g, l)
  BY <1>0, <1>4, LoadExists
<1>6. \A i : Load(i) = g[i]
  BY <1>4 DEF Load, LoadUpTo
<1> DEFINE Fits(i) == i + MaxCapture > l /\ messages[i].own > 0 /\ g[i] <= CaptureBytes
           Good(n) == /\ f[n] \in Loops /\ g[n] \in Nat /\ f[n].sent \subseteq 1 .. n
                      /\ IF f[n].ended THEN g[n] > CaptureBytes ELSE f[n].bytes = g[n]
                      /\ \A i \in 1 .. n : Fits(i) => i \in f[n].sent
           Bad == {n \in 0 .. l : ~Good(n)}
<1> HIDE DEF l
<1>7. ASSUME NEW n \in 0 .. l, n = 0 PROVE Good(n)
  <2>1. f[0] = NoLoop /\ g[0] = 0
    BY <1>0, <1>2, <1>5 DEF LoopUpTo, LoadUpTo
  <2> QED  BY <1>7, <2>1 DEF NoLoop, Loops
<1>8. ASSUME NEW n \in 0 .. l, n # 0, Good(n - 1) PROVE Good(n)
  <2> DEFINE m == messages[n]
             heard == IF n + MaxCapture > l THEN m.own ELSE 0
             was == f[n - 1]
  <2>1. n \in Nat /\ n - 1 \in 0 .. l /\ n \in 1 .. l /\ 1 .. n = (1 .. n - 1) \cup {n}
    BY <1>0, <1>8
  <2>2. f[n] = Round(was, n) /\ g[n] = g[n - 1] + heard
    BY <1>2, <1>5, <1>8, <2>1 DEF LoopUpTo, LoadUpTo, l
  <2>3. m \in Spoken /\ m.own \in Nat /\ heard \in Nat
    <3>1. m \in Spoken
      BY <1>0, <2>1
    <3>2. m.own \in Nat
      BY <3>1 DEF Spoken
    <3> QED  BY <3>1, <3>2
  <2>4. Stripped(m).own + Stripped(m).block = m.own
    BY <2>3 DEF Stripped, Spoken
  <2>5. n \in Recent <=> n + MaxCapture > l
    BY <1>0, <2>1 DEF Recent, l
  <2>6. /\ was \in Loops /\ g[n - 1] \in Nat /\ was.sent \subseteq 1 .. n - 1
        /\ IF was.ended THEN g[n - 1] > CaptureBytes ELSE was.bytes = g[n - 1]
        /\ \A i \in 1 .. n - 1 : Fits(i) => i \in was.sent
    BY <1>8
  <2>7. f[n] = IF n \notin Recent \/ m.own = 0 \/ was.ended THEN was
               ELSE IF was.bytes + m.own > CaptureBytes /\ was.sent # {} THEN [was EXCEPT !.ended = TRUE]
               ELSE [was EXCEPT !.sent = @ \cup {n}, !.bytes = @ + m.own]
    BY <2>2, <2>4 DEF Round
  <2> HIDE DEF m, was
  <2>8. CASE n \notin Recent \/ m.own = 0 \/ was.ended
    <3>1. f[n] = was /\ (heard = 0 \/ was.ended)
      BY <2>5, <2>7, <2>8
    <3>2. ~Fits(n)
      BY <1>0, <2>2, <2>3, <2>5, <2>6, <2>8 DEF m
    <3> QED  BY <1>0, <2>1, <2>2, <2>3, <2>6, <3>1, <3>2
  <2>9. CASE ~(n \notin Recent \/ m.own = 0 \/ was.ended) /\ was.bytes + m.own > CaptureBytes /\ was.sent # {}
    <3>1. f[n] = [was EXCEPT !.ended = TRUE]
      BY <2>7, <2>9
    <3>2. f[n] \in Loops /\ f[n].sent = was.sent /\ f[n].ended
      BY <2>6, <3>1 DEF Loops
    <3>3. g[n] > CaptureBytes /\ g[n] \in Nat
      BY <1>0, <2>2, <2>3, <2>5, <2>6, <2>9
    <3>4. ~Fits(n)
      BY <1>0, <3>3
    <3> QED  BY <2>1, <2>6, <3>2, <3>3, <3>4
  <2>10. CASE ~(n \notin Recent \/ m.own = 0 \/ was.ended) /\ ~(was.bytes + m.own > CaptureBytes /\ was.sent # {})
    <3>1. f[n] = [was EXCEPT !.sent = @ \cup {n}, !.bytes = @ + m.own]
      BY <2>7, <2>10
    <3>2. /\ f[n].sent = was.sent \cup {n} /\ f[n].bytes = was.bytes + m.own
          /\ f[n].ended = FALSE
      BY <2>6, <2>10, <3>1 DEF Loops
    <3>3. f[n] \in Loops
      <4>1. was.sent \cup {n} \in SUBSET Nat /\ was.bytes + m.own \in Nat
        BY <2>1, <2>3, <2>6 DEF Loops
      <4> QED  BY <2>6, <3>1, <4>1 DEF Loops
    <3>4. g[n] = f[n].bytes /\ g[n] \in Nat
      BY <2>2, <2>3, <2>5, <2>6, <2>10, <3>2
    <3> QED  BY <2>1, <2>6, <3>2, <3>3, <3>4
  <2> QED  BY <2>8, <2>9, <2>10
<1> HIDE DEF Good
<1>9. Bad = {}
  <2> SUFFICES ASSUME Bad # {} PROVE FALSE
    OBVIOUS
  <2>0. Bad \subseteq Nat
    BY <1>0
  <2>1. PICK n \in Bad : \A j \in Bad : n <= j
    <3> HIDE DEF Bad
    <3> QED  BY <2>0, LeastOf
  <2>2. n \in 0 .. l /\ ~Good(n) /\ n # 0
    BY <1>7, <2>1
  <2>3. n - 1 \in 0 .. l /\ n - 1 \notin Bad
    BY <1>0, <2>1, <2>2
  <2> QED  BY <1>8, <2>2, <2>3
<1>10. Good(l)
  <2>1. l \in 0 .. l
    BY <1>0
  <2> QED  BY <1>9, <2>1
<1> QED
  BY <1>0, <1>3, <1>6, <1>10 DEF Good, Reached, l

-----------------------------------------------------------------------------

\* What the messages are, and what the server was sent or not.
ClInv ==
  /\ messages \in Seq(Spoken) /\ wiped \subseteq Nat /\ IsFiniteSet(wiped)
  /\ CapturedUnlessCut /\ EchoOnlyByReset

\* The ids of messages are finitely many numbers.
LEMMA IdsTyped ==
  ASSUME messages \in Seq(Spoken)
  PROVE  IdsAt(DOMAIN messages) \subseteq Nat /\ IsFiniteSet(IdsAt(DOMAIN messages))
<1>1. DOMAIN messages = 1 .. Len(messages) /\ Len(messages) \in Nat
  OBVIOUS
<1>2. IsFiniteSet(DOMAIN messages)
  BY <1>1, FS_Interval
<1>3. IsFiniteSet(IdsAt(DOMAIN messages))
  <2> DEFINE g == [i \in DOMAIN messages |-> messages[i].id]
  <2>1. IdsAt(DOMAIN messages) = {g[i] : i \in DOMAIN messages}
    BY DEF IdsAt
  <2>2. g \in [DOMAIN messages -> IdsAt(DOMAIN messages)]
    BY DEF IdsAt
  <2>3. g \in Surjection(DOMAIN messages, IdsAt(DOMAIN messages))
    BY <2>1, <2>2 DEF Surjection
  <2> QED  BY <1>2, <2>3, FS_Surjection
<1>4. IdsAt(DOMAIN messages) \subseteq Nat
  <2>1. ASSUME NEW i \in DOMAIN messages PROVE messages[i].id \in Nat
    <3>1. messages[i] \in Spoken
      OBVIOUS
    <3> QED  BY <3>1 DEF Spoken
  <2> QED  BY <2>1 DEF IdsAt
<1> QED  BY <1>3, <1>4

\* Every step keeps the invariant.
LEMMA ClStep == ClInv /\ [ClNext]_clvars => ClInv'
<1> SUFFICES ASSUME ClInv, [ClNext]_clvars PROVE ClInv'
  OBVIOUS
<1>1. ASSUME NEW role \in {"user", "assistant"}, NEW own \in Weights, NEW block \in {0, BlockLength},
             Says(role, own, block)
      PROVE  ClInv'
  <2> DEFINE id == Cardinality(IdsAt(DOMAIN messages) \cup wiped) + 1
             m == [id |-> id, role |-> role, own |-> own, block |-> block]
  <2>1. messages' = Append(messages, m) /\ UNCHANGED <<captured, echoed, ended, missed, wiped>>
    BY <1>1 DEF Says
  <2>2. id \in Nat
    <3>1. IsFiniteSet(IdsAt(DOMAIN messages) \cup wiped)
      BY IdsTyped, FS_Union DEF ClInv
    <3>2. Cardinality(IdsAt(DOMAIN messages) \cup wiped) \in Nat
      BY <3>1, FS_CardinalityType
    <3> QED  BY <3>2
  <2> HIDE DEF id
  <2>3. m \in Spoken
    BY <2>2, OpenClawAssumption DEF Spoken
  <2> HIDE DEF m
  <2> QED  BY <2>1, <2>3 DEF ClInv, CapturedUnlessCut, EchoOnlyByReset
<1>2. ASSUME NEW arrives \in BOOLEAN, AgentEnd(arrives)
      PROVE  ClInv'
  <2> DEFINE sent == IF arrives THEN Budgeted ELSE {}
  <2>1. /\ captured' = captured \cup IdsAt(sent)
        /\ echoed' = echoed \cup IdsAt({i \in sent : Stripped(messages[i]).block > 0})
        /\ ended' = ended \cup IdsAt({i \in DOMAIN messages : messages[i].own > 0})
        /\ missed' = missed \cup IdsAt({i \in DOMAIN messages : ~arrives \/ ~Reached(i)})
        /\ UNCHANGED <<messages, wiped>>
    BY <1>2 DEF AgentEnd
  <2>2. /\ sent \subseteq DOMAIN messages
        /\ \A i \in DOMAIN messages : arrives /\ Reached(i) /\ messages[i].own > 0 => i \in sent
    BY ReachedIsSent, OpenClawAssumption DEF ClInv
  <2> HIDE DEF sent
  <2>3. {i \in sent : Stripped(messages[i]).block > 0} = {}
    BY <2>2 DEF Stripped, ClInv, Spoken
  <2>4. CapturedUnlessCut'
    BY <2>1, <2>2 DEF CapturedUnlessCut, IdsAt, ClInv
  <2>5. EchoOnlyByReset'
    BY <2>1, <2>3 DEF EchoOnlyByReset, IdsAt, ClInv
  <2> QED  BY <2>1, <2>4, <2>5 DEF ClInv
<1>3. ASSUME NEW arrives \in BOOLEAN, BeforeReset(arrives)
      PROVE  ClInv'
  <2>1. PICK sent : sent \subseteq DOMAIN messages /\
          echoed' = echoed \cup IdsAt({i \in sent : messages[i].block > 0})
    BY <1>3 DEF BeforeReset, KeyTexts
  <2>2. /\ captured \subseteq captured' /\ messages' = <<>>
        /\ wiped' = wiped \cup IdsAt(DOMAIN messages) /\ UNCHANGED <<ended, missed>>
    BY <1>3 DEF BeforeReset
  <2>3. wiped' \subseteq Nat /\ IsFiniteSet(wiped')
    BY <2>2, IdsTyped, FS_Union DEF ClInv
  <2>4. EchoOnlyByReset' /\ CapturedUnlessCut'
    BY <2>1, <2>2 DEF ClInv, EchoOnlyByReset, CapturedUnlessCut, IdsAt
  <2> QED  BY <2>2, <2>3, <2>4 DEF ClInv
<1>4. CASE UNCHANGED clvars
  BY <1>4 DEF clvars, ClInv, CapturedUnlessCut, EchoOnlyByReset
<1> QED
  BY <1>1, <1>2, <1>3, <1>4 DEF ClNext, Prompt, Work, Block

\* It always holds.
LEMMA ClAlways == ClSpec => []ClInv
<1>1. ClInit => ClInv
  BY FS_EmptySet DEF ClInit, ClInv, CapturedUnlessCut, EchoOnlyByReset
<1> QED
  BY <1>1, ClStep, PTL DEF ClSpec

\* What was said up to the end of a turn that succeeded is captured, but for
\* requests that failed and for what the number of messages and the budget of
\* agent_end cut off (openclaw/src/hooks.ts:111-157).
THEOREM CapturedOrCut == ClSpec => []CapturedUnlessCut
<1>1. ClInv => CapturedUnlessCut
  BY DEF ClInv
<1> QED
  BY <1>1, ClAlways, PTL

\* Injected memories come back as if they had been said only by a reset, which
\* does not strip them (openclaw/src/hooks.ts:159-187).
THEOREM EchoesAreOfResets == ClSpec => []EchoOnlyByReset
<1>1. ClInv => EchoOnlyByReset
  BY DEF ClInv
<1> QED
  BY <1>1, ClAlways, PTL

\* Together, as the runs check it (openclaw/src/hooks.ts:111-187).
THEOREM CapturesAreHonest == ClSpec => []CapturesHonest
<1>1. CapturedUnlessCut /\ EchoOnlyByReset => CapturesHonest
  BY DEF CapturesHonest
<1> QED
  BY <1>1, CapturedOrCut, EchoesAreOfResets, PTL
=============================================================================
