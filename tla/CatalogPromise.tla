--------------------------- MODULE CatalogPromise ---------------------------
(***************************************************************************)
(* What the system catalogue promises: a projection is defined once, by    *)
(* one call and with all of its columns; a lookup answers what is defined  *)
(* at the moment it returns; and what is defined survives a crash.         *)
(***************************************************************************)
CONSTANTS Makers, Names, Nobody

VARIABLES
  catalog,  \* the caller that defined each projection, Nobody if none did
  answer    \* the last answer of a lookup by each caller

vars == <<catalog, answer>>

NoAnswer == [name |-> Nobody, by |-> Nobody]

Init ==
  /\ catalog = [n \in Names |-> Nobody]
  /\ answer = [m \in Makers |-> NoAnswer]

Define(m, n) ==
  /\ catalog[n] = Nobody
  /\ catalog' = [catalog EXCEPT ![n] = m]
  /\ UNCHANGED answer

Look(m, n) ==
  /\ answer' = [answer EXCEPT ![m] = [name |-> n, by |-> catalog[n]]]
  /\ UNCHANGED catalog

\* A caller goes on to its next call, or all of them end in a crash.
Forget(S) ==
  /\ answer' = [m \in Makers |-> IF m \in S THEN NoAnswer ELSE answer[m]]
  /\ UNCHANGED catalog

Next ==
  \/ \E m \in Makers, n \in Names : Define(m, n) \/ Look(m, n)
  \/ \E S \in SUBSET Makers : Forget(S)

Spec == Init /\ [][Next]_vars
=============================================================================
