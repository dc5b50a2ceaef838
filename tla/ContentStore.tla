---------------------------- MODULE ContentStore ----------------------------
(***************************************************************************)
(* What a content addressed store promises its callers: a set of names     *)
(* that only grows, and calls that are answered.  A call answered with     *)
(* success names something the store holds when the answer is given, and   *)
(* so ever after.  CorpusStore implements this when every stream delivers  *)
(* what its digest promises, whatever dies and whatever the filesystem     *)
(* refuses.                                                                *)
(***************************************************************************)
CONSTANTS
  Process,
  Digest,
  Successes,   \* the answers that say the bytes are in the store
  Answers,     \* every answer
  Silent       \* no answer outstanding

VARIABLES
  held,      \* the digests whose bytes the store holds
  answer     \* answer[p]: what p's call was answered, and for which digest

contentVars == <<held, answer>>

ContentInit ==
  /\ held = {}
  /\ answer = [p \in Process |-> Silent]

\* The bytes of d become readable before anybody has been answered.
Hold(d) ==
  /\ held' = held \cup {d}
  /\ UNCHANGED answer

\* A call for d is answered, perhaps holding its bytes in the same step.
Answer(p, d, how) ==
  /\ answer[p] = Silent
  /\ held' \in {held, held \cup {d}}
  /\ how \in Successes => d \in held'
  /\ answer' = [answer EXCEPT ![p] = <<d, how>>]

Taken(p) ==
  /\ answer' = [answer EXCEPT ![p] = Silent]
  /\ UNCHANGED held

ContentNext ==
  \/ \E d \in Digest : Hold(d)
  \/ \E p \in Process, d \in Digest, how \in Answers : Answer(p, d, how)
  \/ \E p \in Process : Taken(p)

ContentSpec == ContentInit /\ [][ContentNext]_contentVars

=============================================================================
