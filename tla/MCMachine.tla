------------------------------- MODULE MCMachine -------------------------------
(***************************************************************************)
(* The parts of the plugins that live on the user's machine beside the     *)
(* hooks of a conversation: ZCode's archive, the web server, the update,   *)
(* the dreams and their merge.  They share no state, so that a behaviour   *)
(* of one of them at a time shows all there is: `part` says whose the      *)
(* behaviour is.  The web server has two: with opencode and one session,   *)
(* and without opencode and two sessions of the first window.              *)
(***************************************************************************)
EXTENDS ZCode, WebServer, Updater, Dreams, ApplyDream

VARIABLE part

MCSidsOf == [w \in Windows |-> IF w = "w1" THEN Sids ELSE {"s1"}]
MCSlug == [n \in Names |-> IF n = "a" THEN "a.md" ELSE "memory.md"]
MCLinkText == [n \in Names |-> IF n = "b" THEN "a" ELSE n]

mvars == <<zvars, wvars, uvars, dvars, avars, part>>

MInit ==
  /\ part \in {"zcode", "web", "windows", "update", "dream", "apply"}
  /\ ZInit /\ WInit /\ UInit /\ DInit /\ AInit
  /\ part \notin {"web", "windows"} => port = Nobody
  /\ part # "apply" => /\ dir = [f \in MemFiles |-> Absent]
                       /\ archive = <<[name |-> "a", act |-> "kept", size |-> 0, desc |-> FALSE]>>

Web(A) ==
  /\ part \in {"web", "windows"} /\ A
  /\ IF part = "web" THEN \A w \in Windows : sidOf'[w] = "s1" ELSE UNCHANGED oc
  /\ UNCHANGED <<zvars, uvars, dvars, avars, part>>

MNext ==
  \/ Web(WNext)
  \/ part = "zcode" /\ ZNext /\ UNCHANGED <<wvars, uvars, dvars, avars, part>>
  \/ part = "update" /\ UNext /\ UNCHANGED <<zvars, wvars, dvars, avars, part>>
  \/ part = "dream" /\ DNext /\ UNCHANGED <<zvars, wvars, uvars, avars, part>>
  \/ part = "apply" /\ Apply /\ UNCHANGED <<zvars, wvars, uvars, dvars, part>>

MFair ==
  /\ \A o \in OCs : WF_mvars(Web(OcStep(o)))
  /\ \A w \in Windows : WF_mvars(Web(Spawn(w)))
  /\ \A d \in Daemons : WF_mvars(Web(DaemonStep(d))) /\ WF_mvars(Web(FallIdle(d)))

MSpec == MInit /\ [][MNext]_mvars /\ MFair
=============================================================================
