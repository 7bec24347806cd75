---------------------------- MODULE MCHostServices ----------------------------
(* Small instances of HostServices for TLC. *)
EXTENDS HostServices

CONSTANTS a, b, c, push

NoTranslation ==
  [enabled |-> FALSE, automatic |-> FALSE, pending |-> 1, concurrent |-> 1, batch |-> 1, lookups |-> 0]

\* Push alone; two providers that replace each other; batches and two requests
\* at once; a service that is full.
MCConfigurations == {
  NoTranslation,
  [enabled |-> TRUE, automatic |-> TRUE, pending |-> 1, concurrent |-> 1, batch |-> 1, lookups |-> 1],
  [enabled |-> TRUE, automatic |-> FALSE, pending |-> 2, concurrent |-> 2, batch |-> 2, lookups |-> 2],
  [enabled |-> TRUE, automatic |-> FALSE, pending |-> 1, concurrent |-> 1, batch |-> 1, lookups |-> 3]}
=============================================================================
