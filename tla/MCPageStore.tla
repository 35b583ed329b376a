---------------------------- MODULE MCPageStore ----------------------------
(***************************************************************************)
(* Instances of PageStore for TLC.  1 is a variant of 2, 4 a short URL of  *)
(* 3, and 5 normalizes to 1, though that normalizes to 2.                  *)
(***************************************************************************)
EXTENDS PageStore

Variant == 2 :> 2 @@ 1 :> 2 @@ 3 :> 3 @@ 4 :> 4 @@ 5 :> 1
Leads   == 2 :> 2 @@ 1 :> 1 @@ 3 :> 3 @@ 4 :> 3 @@ 5 :> 5

Changes == 2 :> 1 @@ 3 :> 2

OldRow  == [md |-> 1, model |-> "old", last |-> 1, by |-> "crawl"]
\* there are rows of the earlier model; the dashboard may empty the table
Holds(urls) == [u \in Urls |-> IF u \in urls THEN OldRow ELSE None]
Earlier == {Holds({2, 3, 4}), Holds({1, 2, 5})}

\* Pages of every shape are cut into chunks before the writers start.
Lines(kinds) == [i \in DOMAIN kinds |-> [kind |-> kinds[i].kind, len |-> kinds[i].len, at |-> i]]
LineKinds ==
  [kind : {"text"}, len : {40, 240, 900}]
  \cup [kind : Fences, len : {3}] \cup [kind : {"heading"}, len : {12}] \cup [kind : {"blank"}, len : {0}]

CONSTANTS c1, c2
VARIABLE sample
Samples == {Lines(kinds) : kinds \in SeqOf(LineKinds, 4)}

Symmetric == Permutations(Crawls)

MCInit == Init /\ sample \in Samples
\* bound: three pages are stored at most, crawls that overlap work on the same one, and
\* once the re-embedding has failed on one, or a merge has run, they overlap no more
Few ==
  /\ Cardinality(Stored) <= 3
  /\ \A c, d \in Crawls :
       c # d /\ job[c].stage # "idle" /\ job[d].stage # "idle" =>
         failed = {} /\ ~tidy /\ job[c].url = job[d].url
Cut    == sample # <<>> /\ sample' = <<>> /\ UNCHANGED vars
MCNext == Cut \/ (sample = <<>> /\ Next /\ Few' /\ UNCHANGED sample)
MCSpec == MCInit /\ [][MCNext]_<<vars, sample>>

\* The chunks of a page are the page: see ChunksWhole.
ChunksSound == ChunksWhole(sample)

=============================================================================
