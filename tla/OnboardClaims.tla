---------------------------- MODULE OnboardClaims ----------------------------
(***************************************************************************)
(* What the repository says of gib-onboard, as a property to refute.        *)
(***************************************************************************)
EXTENDS MCOnboard

\* Without somebody else's aggregator, over which the claim fails in a plainer way.
OwnUrls == {u \in MCUrls : u.behind # "stranger"}

\* docs/04-indexer-onboarding.md:14, `gib onboard` prints the block "only if it
\* would actually work": if the gateway runs, no script does, and nothing changed
\* during the run, a block that was printed works.
ReadyWorks ==
  (gateway # {} /\ script.pc = "idle" /\ ~ disturbed) => \A b \in block : WouldWork(b)
=============================================================================
