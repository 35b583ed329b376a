--------------------------- MODULE MCBrowserPool ---------------------------
(***************************************************************************)
(* Instances of BrowserPool for TLC.                                       *)
(***************************************************************************)
EXTENDS BrowserPool, TLC

\* crawls and profile keys are interchangeable; used by runs that check safety
PoolSymmetry == Permutations(Crawls) \cup Permutations(Keys)

=============================================================================
