------------------------- MODULE MCLargeFileClient -------------------------
(***************************************************************************)
(* One tab whose objects and jobs are interchangeable.                     *)
(***************************************************************************)
EXTENDS LargeFileClient, TLC

\* What is left in an object nothing refers to has no effect.
\* Likewise for the history of a job that is gone.  What an invariant says of either is
\* kept, so that no violation looks like a state that has been seen.
Seen == <<srv, net, locator, hook, left, known \cap Live, asked \cap Live, CredentialsShortLived,
          [r \in Run |-> IF Free(r) THEN NoObject ELSE run[r]]>>

\* The histories known and asked have no effect either.
SeenNow == <<srv, net, locator, hook, left, [r \in Run |-> IF Free(r) THEN NoObject ELSE run[r]]>>

\* A bound: how many requests and answers are on their way at the same time.
ThreeOnTheWay == Cardinality(net) <= 3

Alike == Permutations(Run) \cup Permutations(Job)
=============================================================================
