----------------------- MODULE MCCustomerAutoAnalysis -----------------------
(***************************************************************************)
(* Values for the constants of CustomerAutoAnalysis.                       *)
(***************************************************************************)
EXTENDS CustomerAutoAnalysisProps, TLC

OneSize == {1}
\* An empty text, one that leaves room in a budget of two, and one that fills it.
ThreeSizes == 0..2

\* A debounce below the longest wait, and the two equal.
OnePace == {[debounce |-> 1, maxWait |-> 1]}
SlackPace == {[debounce |-> 1, maxWait |-> 2]}
TwoPaces == OnePace \cup SlackPace

\* The scopes are only compared with each other.
ScopeSymmetry == Permutations(Scopes)
=============================================================================
