--------------------------- MODULE MCCrawlQueue ---------------------------
(***************************************************************************)
(* Instances of CrawlQueue for TLC.                                        *)
(***************************************************************************)
EXTENDS CrawlQueue, TLC

CONSTANTS app, once

\* every task belongs to the app
InApp == [t \in Tasks |-> app]

\* the runners of app and once, one each; requests go to the app
CONSTANTS r1, r2
Shared == [t \in Tasks |-> IF t = r2 THEN once ELSE app]

\* request slots are interchangeable, and so are the URLs and the runners of
\* an app that serves no request; used by runs that check safety only
ClientSymmetry == Permutations(Clients)
WorkerSymmetry == Permutations(Urls) \cup Permutations(Runners)

=============================================================================
