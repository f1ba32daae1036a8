-------------------------------- MODULE MCTools --------------------------------
(***************************************************************************)
(* The tools and OpenClaw's hooks for TLC, one of them at a time (`part`). *)
(***************************************************************************)
EXTENDS Tools, OpenClaw

VARIABLE part

\* An agent with a policy of its own, and one that another's fits.
MCAgents == {<<"b">>, <<"x">>}
MCStaticAgent == <<"x">>
MCPolicies == << [name |-> <<"x">>, policy |-> "readwrite"], [name |-> <<"b", "p">>, policy |-> "readonly"] >>

toolvars == <<tvars, clvars, part>>

ToolsInit ==
  /\ part \in {"tools", "openclaw"}
  /\ TInit /\ ClInit
  /\ there \in {{}, {"memory", "copy", "space"}}
  /\ part # "tools" => surface = "openclaw" /\ there = {}

ToolsNext ==
  \/ part = "tools" /\ TNext /\ UNCHANGED <<clvars, part>>
  \/ part = "openclaw" /\ ClNext /\ UNCHANGED <<tvars, part>>

ToolsSpec == ToolsInit /\ [][ToolsNext]_toolvars /\ TFairness
=============================================================================
