---------------------------- MODULE MCControlPlane ----------------------------
(***************************************************************************)
(* Instance of the small protocols around the reviews.  They share no      *)
(* state: a behaviour is one of RoleChanges, FlagFlips,                    *)
(* EmbedderGenerations, Installations, LlmCredentials or GitHubClient,     *)
(* chosen in the initial state.                                            *)
(***************************************************************************)
EXTENDS RoleChanges, FlagFlips, EmbedderGenerations, Installations, LlmCredentials,
        GitHubClient

VARIABLE part   \* the protocol this behaviour is about

vars == <<roleVars, flagVars, embedderVars, installVars, llmVars, githubVars, part>>

Parts == {"roles", "flags", "embedder", "installations", "llm", "github"}

Init ==
  /\ part \in Parts
  /\ RolesInit /\ FlagsInit /\ EmbedderInit /\ InstallationsInit
  /\ LlmInit /\ GitHubClientInit
  /\ part # "flags" => live.value = "off"   \* the flag does not matter to the others

Roles ==
  /\ part = "roles" /\ RolesNext
  /\ UNCHANGED <<flagVars, embedderVars, installVars, llmVars, githubVars, part>>

Flags ==
  /\ part = "flags" /\ FlagsNext
  /\ UNCHANGED <<roleVars, embedderVars, installVars, llmVars, githubVars, part>>

Embedder ==
  /\ part = "embedder" /\ EmbedderNext
  /\ UNCHANGED <<roleVars, flagVars, installVars, llmVars, githubVars, part>>

Installation ==
  /\ part = "installations" /\ InstallationsNext
  /\ UNCHANGED <<roleVars, flagVars, embedderVars, llmVars, githubVars, part>>

Llm ==
  /\ part = "llm" /\ LlmNext
  /\ UNCHANGED <<roleVars, flagVars, embedderVars, installVars, githubVars, part>>

GitHub ==
  /\ part = "github" /\ GitHubClientNext
  /\ UNCHANGED <<roleVars, flagVars, embedderVars, installVars, llmVars, part>>

Next == Roles \/ Flags \/ Embedder \/ Installation \/ Llm \/ GitHub

Spec == Init /\ [][Next]_vars

=============================================================================
