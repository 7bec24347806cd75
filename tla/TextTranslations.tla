--------------------------- MODULE TextTranslations ---------------------------
(***************************************************************************)
(* What the translation service promises to those who draw text.  A text   *)
(* that is not known is asked for once, whoever asks; a request ends with  *)
(* the translation or without it; and when a text arrives that somebody    *)
(* has drawn meanwhile, the generation tells him to draw again.            *)
(***************************************************************************)
EXTENDS Naturals

CONSTANT Texts

VARIABLES
  status,    \* of a text: unknown, requested or known
  drawn,     \* requested texts that were drawn as they are
  generation \* only its changes count

vars == <<status, drawn, generation>>

Of(kind) == {x \in Texts : status[x] = kind}

Init ==
  /\ status \in [Texts -> {"unknown", "known"}]
  /\ drawn = {} /\ generation \in {0, 1}

\* A text that is about to be drawn is asked for, or one that might be soon.
Request(x) ==
  /\ status[x] = "unknown" /\ status' = [status EXCEPT ![x] = "requested"]
  /\ drawn' \in {drawn, drawn \cup {x}} /\ UNCHANGED generation

Draw(x) ==
  /\ status[x] = "requested" /\ drawn' = drawn \cup {x}
  /\ UNCHANGED <<status, generation>>

End(xs, kind) ==
  /\ xs # {} /\ xs \subseteq Of("requested")
  /\ status' = [x \in Texts |-> IF x \in xs THEN kind ELSE status[x]]
  /\ drawn' = drawn \ xs

Arrive(xs) ==
  /\ End(xs, "known")
  /\ generation' = IF drawn \cap xs = {} THEN generation ELSE 1 - generation

Fail(xs) == End(xs, "unknown") /\ UNCHANGED generation

Settle(x) == \E xs \in SUBSET Texts : x \in xs /\ (Arrive(xs) \/ Fail(xs))

Next == \E x \in Texts : Request(x) \/ Draw(x) \/ Settle(x)

Spec == Init /\ [][Next]_vars

\* A text that somebody has drawn does not stay requested.
FairSpec == Spec /\ \A x \in Texts : WF_vars(x \in drawn /\ Settle(x))
=============================================================================
