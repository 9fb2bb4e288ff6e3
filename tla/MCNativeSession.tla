--------------------------- MODULE MCNativeSession ---------------------------
(***************************************************************************)
(* A small instance of NativeSession: either runs of the agent are begun   *)
(* or font proposals are made, and beside runs there is one commit, beside *)
(* proposals one caller that asks for pages.  What starts a call is left   *)
(* out by this and never how it goes on, so that the calls that are fair   *)
(* stay possible.                                                          *)
(***************************************************************************)
EXTENDS NativeSession

OneCommitBesideRuns == agent.begun > 0 => issued = << >> /\ actor.revision <= 1
OneRequestBesideProposals == issued # << >> => \E c \in Callers : asked[c] = 0

MCSpec ==
  /\ NativeInit
  /\ [][NativeNext /\ (OneCommitBesideRuns /\ OneRequestBesideProposals)']_nativeVars
  /\ NativeFairness
==============================================================================
