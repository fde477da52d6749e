---------------------------- MODULE MCReconcile ----------------------------
(* Small instances of Reconcile for TLC. *)
EXTENDS Reconcile, TLC

CONSTANTS cOn, cOff, p1, p2, c1, c2

\* One configuration resolves to p1 or p2, as DNS moves; the other has the block
\* switched off.
MCPolicies == {p1, p2}
MCConfigs  == {cOn, cOff}
MCDisabled == {cOff}
MCAnswers  == (cOn :> {p1, p2}) @@ (cOff :> {p1, p2})

\* The two policies may change places, in runs that check no liveness.
MCPolicySymmetry == Permutations(MCPolicies)

\* Two clients, and the two policies, may change places.  For the runs that check
\* no liveness.
MCSymmetry == Permutations({c1, c2}) \union Permutations(MCPolicies)
=============================================================================
