------------------------- MODULE QosPublisherClaims -------------------------
(***************************************************************************)
(* What the repository's documents and comments say of the publisher, and   *)
(* its loop does not do. Each statement is checked by a run of its own that *)
(* ends in a counterexample; README.md tells each one.                      *)
(***************************************************************************)
EXTENDS QosPublisher

\* docs/08-qos-publishing.md:215, "query_count: count of client queries": a
\* payload counts every message of its window that the process took in before
\* the last one it counted.
CountsEveryQuery ==
  \A i \in DOMAIN published, m \in received :
    (/\ published[i].run = stops
     /\ Within(m, published[i])
     /\ m.off < published[i].msgs[Len(published[i].msgs)].off)
      => m \in Held(published[i].msgs)

\* docs/08-qos-publishing.md:258, "a restart mid-bucket should not lose a
\* window": when the process stops, the offset the group resumes from does not
\* lie beyond a message of the open window, so that each is read again.
RestartKeepsWindow ==
  [][stops' = stops + 1 =>
       \A i \in DOMAIN current.msgs : committed' <= current.msgs[i].off]_vars
=============================================================================
