-------------------------- MODULE PageStoreProofs --------------------------
(***************************************************************************)
(* Theorems about PageStore, for any URLs, any canonical form of them,     *)
(* idempotent or not, any redirects, any consistent table to start from,   *)
(* any number of processes and of overlapping crawls; and, in the last     *)
(* part, about the chunks of any page and any budget (Chunker).            *)
(***************************************************************************)
EXTENDS MCPageStore, SequenceLemmas, FiniteSetTheorems, WellFoundedInduction, TLAPS

Busy(w) == job[w].stage # "idle"

\* INFLIGHT holds it.
Storing(w) == job[w].stage \notin {"idle", "tail"}

AnyJob == [stage : {"idle", "check", "unchanged", "embed", "tail"}, process : Processes \cup {None},
           key : Urls \cup {0}, url : Urls \cup {0}, md : Nat, form : Urls \cup {0}]

Pages  == [Urls -> AnyRow \cup {None}]
Chunks == [Urls -> [md : Nat, model : {"old", Model}] \cup {None}]

Shapes ==
  /\ pages \in Pages
  /\ chunks \in Chunks
  /\ site \in [Finals -> Nat]
  /\ job \in [Writers -> AnyJob]
  /\ batch \subseteq [url : Urls, md : Nat]
  /\ up \in BOOLEAN /\ tidy \in BOOLEAN

\* A URL that some URL normalizes to.
Image(u) == \E v \in Urls : Canonical[v] = u

\* What a writer works on: a URL that some URL normalizes to, for a crawl the one of its
\* key, which no other crawl of its process has while it stores; and nothing while the
\* service is stopped.
JobsApart ==
  /\ \A w \in Writers : Busy(w) => up /\ job[w].url \in Urls /\ Image(job[w].url)
  /\ \A c \in Crawls : Busy(c) =>
       job[c].process \in Processes /\ job[c].key \in Keys /\ job[c].url = Home(job[c].key)
  /\ \A c, d \in Crawls : Storing(c) /\ Storing(d) /\ c # d =>
       job[c].process # job[d].process \/ job[c].key # job[d].key

\* A crawl that found its page unchanged: what is there now is what it found,
\* or what the re-embedding put there, or nothing.
UnchangedHolds ==
  \A c \in Crawls :
    job[c].stage = "unchanged" /\ job[c].url \in Guarded /\ pages[job[c].url] # None =>
      pages[job[c].url].md = job[c].md \/ pages[job[c].url].by = "reembed"

StoreInv == Shapes /\ JobsApart /\ UnchangedHolds /\ ChunksMatchPage /\ StampedContentIsFresh

---------------------------------------------------------------------------
\* The tables may hold anything that is consistent at first.
LEMMA InitStore == Init => StoreInv
<1> SUFFICES ASSUME Init PROVE StoreInv
  OBVIOUS
<1>1. pages \in Pages
  BY TablesAssumption DEF Init, Pages
<1>2. \A u \in Urls : pages[u] # None => pages[u] \in AnyRow
  BY <1>1 DEF Pages
<1>3. job \in [Writers -> AnyJob] /\ \A w \in Writers : job[w].stage = "idle"
  BY DEF Init, Idle, AnyJob
<1>4. chunks \in Chunks
  BY <1>1, <1>2 DEF Init, ChunksOf, AnyRow, Model, Chunks
<1>5. Shapes
  BY <1>1, <1>3, <1>4 DEF Init, Shapes
<1>6. StampedContentIsFresh
  BY TablesAssumption DEF Init, StampedContentIsFresh, StampTrue, Stored
<1> QED
  BY <1>3, <1>5, <1>6
     DEF StoreInv, JobsApart, Busy, Storing, UnchangedHolds, Init, Writers, ChunksMatchPage

\* The rows a batch is read from.
LEMMA BatchShape ==
  ASSUME Shapes
  PROVE  stale_batch \subseteq [url : Urls, md : Nat]
<1>1. \A u \in Stored : u \in Urls /\ pages[u].md \in Nat
  BY DEF Shapes, AnyRow, Stored, Pages
<1> DEFINE near(u) == u > cursor
              /\ Cardinality({v \in Urls : Stale(v) /\ cursor < v /\ v < u}) < BatchSize
           urls == {u \in Urls : Stale(u) /\ near(u)}
<1>2. stale_batch = RowsOf(urls)
  BY DEF stale_batch
<1> HIDE DEF near
<1>3. urls \subseteq Stored
  BY DEF Stale
<1> HIDE DEF urls
<1> QED
  BY <1>1, <1>2, <1>3 DEF RowsOf

\* Where a crawl is heading: a URL that some URL normalizes to.
LEMMA KeyFacts ==
  ASSUME NEW form \in Urls
  PROVE  /\ KeyOf(form) \in Keys /\ KeyOf(form) \in Urls /\ Canonical[form] \in Urls
         /\ Canonical[KeyOf(form)] \in Finals
         /\ Home(KeyOf(form)) \in Urls /\ Image(Home(KeyOf(form)))
<1>1. KeyOf(form) \in Urls /\ Canonical[form] \in Urls
  BY PageStoreAssumption DEF KeyOf
<1>2. KeyOf(form) \in Keys
  BY DEF Keys
<1>3. Canonical[KeyOf(form)] \in Urls
  BY <1>1, PageStoreAssumption
<1> QED
  BY <1>1, <1>2, <1>3, PageStoreAssumption DEF Finals, Home, Image

\* Two crawls that store under one guarded URL have one process and one key.
LEMMA GuardedApart ==
  ASSUME NEW u \in Guarded,
         NEW p \in Processes, NEW q \in Processes, NEW k \in Keys, NEW l \in Keys,
         Home(k) = u, Home(l) = u
  PROVE  p = q /\ k = l
BY DEF Guarded

\* What merging moves to a guarded URL was stored under one.
LEMMA GuardedBefore ==
  ASSUME NEW v \in Urls, Canonical[v] \in Guarded
  PROVE  v \in Guarded
BY DEF Guarded

\* Steps that leave both tables and all crawls alone.
LEMMA QuietKeeps ==
  ASSUME StoreInv, UNCHANGED <<pages, chunks, job, up>>,
         site' \in [Finals -> Nat], batch' \subseteq [url : Urls, md : Nat], tidy' \in BOOLEAN
  PROVE  StoreInv'
<1>1. Shapes'
  BY DEF StoreInv, Shapes
<1>2. JobsApart' /\ UnchangedHolds'
  BY DEF StoreInv, JobsApart, UnchangedHolds, Busy, Storing
<1>3. ChunksMatchPage' /\ StampedContentIsFresh'
  BY DEF StoreInv, ChunksMatchPage, StampedContentIsFresh, StampTrue, Stored
<1> QED
  BY <1>1, <1>2, <1>3 DEF StoreInv

\* A writer that ends, or goes on to a stage that claims nothing.
LEMMA JobKeeps ==
  ASSUME StoreInv, NEW w \in Writers, NEW j \in AnyJob,
         job' = [job EXCEPT ![w] = j], UNCHANGED <<pages, chunks, site, up, tidy>>,
         batch' \subseteq batch,
         j.stage # "idle" => /\ Busy(w) /\ j.url = job[w].url
                             /\ j.process = job[w].process /\ j.key = job[w].key,
         j.stage \notin {"idle", "tail"} => Storing(w),
         j.stage = "unchanged" => \/ w = Reindex
                                  \/ pages[j.url] # None /\ pages[j.url].md = j.md
  PROVE  StoreInv'
<1>1. Shapes'
  BY DEF StoreInv, Shapes
<1>2. JobsApart'
  BY DEF StoreInv, Shapes, JobsApart, Busy, Storing, Writers
<1>3. UnchangedHolds'
  BY WritersAssumption DEF StoreInv, Shapes, UnchangedHolds, Writers, Reindex
<1>4. ChunksMatchPage' /\ StampedContentIsFresh'
  BY DEF StoreInv, ChunksMatchPage, StampedContentIsFresh, StampTrue, Stored
<1> QED
  BY <1>1, <1>2, <1>3, <1>4 DEF StoreInv

---------------------------------------------------------------------------
\* A crawl begins where no other crawl is at work.
LEMMA CrawlKeeps ==
  ASSUME StoreInv, NEW c \in Crawls, Crawl(c)
  PROVE  StoreInv'
<1>1. PICK form \in Urls, p \in Processes :
        LET key == KeyOf(form) IN
        /\ ~ InFlight(p, key)
        /\ job' = [job EXCEPT ![c] = [stage |-> "check", process |-> p, key |-> key,
                                      url |-> Home(key), md |-> site[Canonical[key]],
                                      form |-> Canonical[form]]]
  BY DEF Crawl
<1> DEFINE key == KeyOf(form)
           begun == [stage |-> "check", process |-> p, key |-> key, url |-> Home(key),
                     md |-> site[Canonical[key]], form |-> Canonical[form]]
<1>2. /\ key \in Keys /\ key \in Urls /\ Canonical[form] \in Urls /\ Canonical[key] \in Finals
      /\ Home(key) \in Urls /\ Image(Home(key))
  BY KeyFacts
<1>3. site[Canonical[key]] \in Nat
  BY <1>2 DEF StoreInv, Shapes
<1>4. /\ begun \in AnyJob /\ begun.url = Home(key) /\ begun.stage = "check"
      /\ begun.process = p /\ begun.key = key
  BY <1>2, <1>3 DEF AnyJob
<1> HIDE DEF begun, key
<1>5. /\ up /\ UNCHANGED <<pages, chunks, site, up, batch, tidy>> /\ c \in Writers
      /\ job' = [job EXCEPT ![c] = begun] /\ job \in [Writers -> AnyJob]
      /\ \A d \in Crawls : Storing(d) => job[d].process # p \/ job[d].key # key
  BY <1>1 DEF Crawl, InFlight, Storing, NoTools, toolVars, mergeVars, Writers, StoreInv, Shapes, begun, key
<1>6. Shapes'
  BY <1>4, <1>5 DEF StoreInv, Shapes
<1>7. JobsApart'
  BY <1>2, <1>4, <1>5 DEF StoreInv, JobsApart, Busy, Storing, Writers
<1>8. UnchangedHolds'
  BY <1>4, <1>5 DEF StoreInv, UnchangedHolds, Writers
<1>9. ChunksMatchPage' /\ StampedContentIsFresh'
  BY <1>5 DEF StoreInv, ChunksMatchPage, StampedContentIsFresh, StampTrue, Stored
<1> QED
  BY <1>6, <1>7, <1>8, <1>9 DEF StoreInv

\* The comparison: what it claims holds when it is made.
LEMMA CheckKeeps ==
  ASSUME StoreInv, NEW w \in Writers, Check(w)
  PROVE  StoreInv'
<1>1. job[w].stage = "check" /\ UNCHANGED <<pages, chunks, site, up>> /\ job[w] \in AnyJob
      /\ job \in [Writers -> AnyJob]
  BY DEF Check, StoreInv, Shapes
<1>2. CASE Unchanged(pages[job[w].url], job[w].md) /\ w = Reindex
  <2>1. NextRow
    BY <1>2 DEF Check
  <2>2. Idle \in AnyJob /\ Idle.stage = "idle"
    BY DEF Idle, AnyJob
  <2>3. job' = [job EXCEPT ![w] = Idle] /\ UNCHANGED tidy /\ batch' \subseteq batch
    BY <2>1, <1>2 DEF NextRow, mergeVars
  <2> QED
    BY <1>1, <2>2, <2>3, JobKeeps
<1>3. CASE ~(Unchanged(pages[job[w].url], job[w].md) /\ w = Reindex)
  <2> DEFINE s == IF Unchanged(pages[job[w].url], job[w].md) THEN "unchanged" ELSE "embed"
             j == [job[w] EXCEPT !.stage = s]
  <2>1. job' = [job EXCEPT ![w] = j] /\ UNCHANGED <<batch, tidy>>
    BY <1>1, <1>3 DEF Check, Stage, NoTools, toolVars, mergeVars
  <2>2. /\ j \in AnyJob /\ j.url = job[w].url /\ j.md = job[w].md
        /\ j.process = job[w].process /\ j.key = job[w].key
        /\ j.stage = "unchanged" => pages[j.url] # None /\ pages[j.url].md = j.md
    BY <1>1 DEF AnyJob, Unchanged
  <2>3. Busy(w) /\ Storing(w)
    BY <1>1 DEF Busy, Storing
  <2> HIDE DEF j
  <2> QED
    BY <1>1, <2>1, <2>2, <2>3, JobKeeps
<1> QED
  BY <1>2, <1>3

\* The comparison is as good when the row is stamped as when it was made.
LEMMA StampKeeps ==
  ASSUME StoreInv, NEW c \in Crawls, Stamp(c)
  PROVE  StoreInv'
<1> DEFINE u == job[c].url
           j == [job[c] EXCEPT !.stage = "tail"]
<1>1. /\ job[c].stage = "unchanged" /\ job' = [job EXCEPT ![c] = j]
      /\ UNCHANGED <<chunks, site, up, batch, tidy>>
      /\ job \in [Writers -> AnyJob] /\ c \in Writers /\ job[c] \in AnyJob
  BY DEF Stamp, Stage, NoTools, toolVars, mergeVars, StoreInv, Shapes, Writers
<1>2. u \in Urls /\ job[c].md \in Nat /\ Busy(c)
  BY <1>1 DEF StoreInv, JobsApart, Busy, AnyJob
<1>3. /\ j \in AnyJob /\ j.stage = "tail" /\ j.url = u
      /\ j.process = job[c].process /\ j.key = job[c].key
  BY <1>1 DEF AnyJob
<1>4. CASE pages[u] = None
  <2>1. UNCHANGED pages
    BY <1>4 DEF Stamp
  <2> HIDE DEF j, u
  <2>2. Shapes'
    BY <1>1, <1>3, <2>1 DEF StoreInv, Shapes
  <2>3. JobsApart'
    BY <1>1, <1>2, <1>3 DEF StoreInv, JobsApart, Busy, Storing, Writers, u
  <2>4. UnchangedHolds'
    BY <1>1, <1>3, <2>1 DEF StoreInv, UnchangedHolds, Writers
  <2>5. ChunksMatchPage' /\ StampedContentIsFresh'
    BY <1>1, <2>1 DEF StoreInv, ChunksMatchPage, StampedContentIsFresh, StampTrue, Stored
  <2> QED
    BY <2>2, <2>3, <2>4, <2>5 DEF StoreInv
<1>5. CASE pages[u] # None
  <2> DEFINE row == [pages[u] EXCEPT !.last = job[c].md]
  <2>1. pages' = [pages EXCEPT ![u] = row] /\ pages[u] \in AnyRow
    BY <1>2, <1>5 DEF Stamp, StoreInv, Shapes, Pages
  <2>2. /\ row \in AnyRow /\ row.md = pages[u].md /\ row.by = pages[u].by
        /\ row.model = pages[u].model /\ row.last = job[c].md /\ row # None
    BY <1>2, <2>1, TablesAssumption DEF AnyRow
  <2>3. u \in Guarded => row.md = job[c].md \/ row.by = "reembed"
    BY <1>1, <1>5, <2>2 DEF StoreInv, UnchangedHolds
  <2> HIDE DEF row, j, u
  <2>4. Shapes'
    BY <1>1, <1>3, <2>1, <2>2 DEF StoreInv, Shapes, Pages
  <2>5. JobsApart'
    BY <1>1, <1>2, <1>3 DEF StoreInv, JobsApart, Busy, Storing, Writers, u
  <2>6. pages \in [Urls -> AnyRow \cup {None}]
    BY DEF StoreInv, Shapes, Pages
  <2>7. UnchangedHolds'
    BY <1>1, <1>2, <1>3, <1>5, <2>1, <2>2, <2>6 DEF StoreInv, UnchangedHolds, Writers
  <2>8. ChunksMatchPage'
    BY <1>1, <1>2, <1>5, <2>1, <2>2, <2>6 DEF StoreInv, ChunksMatchPage, ChunksOf
  <2>9. StampedContentIsFresh'
    BY <1>2, <2>1, <2>2, <2>3, <2>6 DEF StoreInv, StampedContentIsFresh, StampTrue, Stored
  <2> QED
    BY <2>4, <2>5, <2>7, <2>8, <2>9 DEF StoreInv
<1> QED
  BY <1>4, <1>5

\* The transaction of a store: it leaves a row and its chunks, and a row that
\* another crawl has found unchanged is not its own.
LEMMA CommitKeeps ==
  ASSUME StoreInv, NEW w \in Writers, Commit(w)
  PROVE  StoreInv'
<1> DEFINE u   == job[w].url
           old == IF pages[u] = None THEN [md |-> -1, last |-> 0, by |-> "reembed"] ELSE pages[u]
           row == [md |-> job[w].md, model |-> Model,
                   last |-> IF w = Reindex THEN old.last ELSE job[w].md,
                   by |-> IF w # Reindex THEN "crawl"
                          ELSE IF old.md = job[w].md THEN old.by ELSE "reembed"]
<1>1. /\ job[w].stage = "embed" /\ UNCHANGED <<site, up, tidy>>
      /\ pages' = [pages EXCEPT ![u] = row] /\ chunks' = [chunks EXCEPT ![u] = ChunksOf(row)]
      /\ job \in [Writers -> AnyJob] /\ job[w] \in AnyJob
      /\ pages \in [Urls -> AnyRow \cup {None}]
  BY DEF Commit, Upsert, recut, Put, NoTools, toolVars, mergeVars, NextRow, StoreInv, Shapes, Pages
<1>2. u \in Urls /\ job[w].md \in Nat /\ Busy(w)
  BY <1>1 DEF StoreInv, JobsApart, Busy, AnyJob
<1>3. pages[u] # None => pages[u] \in AnyRow
  BY <1>1, <1>2
<1>4. row \in AnyRow /\ row # None /\ row.md = job[w].md /\ row.model = Model
  BY <1>2, <1>3, TablesAssumption DEF AnyRow, Model
<1>5. u \in Guarded => row.last <= row.md \/ row.by = "reembed"
  BY <1>2, <1>3 DEF StoreInv, StampedContentIsFresh, StampTrue, Stored, AnyRow
<1>6. w = Reindex /\ pages[u] # None => row.by = "reembed" \/ (row.md = pages[u].md /\ row.by = pages[u].by)
  OBVIOUS
<1>7. PICK j \in AnyJob : /\ job' = [job EXCEPT ![w] = j]
                          /\ j.stage \in {"idle", "tail"}
                          /\ j.stage # "idle" => /\ j.url = u /\ j.key = job[w].key
                                                 /\ j.process = job[w].process
  <2>1. CASE w = Reindex
    <3>1. job' = [job EXCEPT ![w] = Idle] /\ Idle \in AnyJob /\ Idle.stage = "idle"
      BY <2>1 DEF Commit, NextRow, Idle, AnyJob
    <3> QED
      BY <3>1
  <2>2. CASE w # Reindex
    <3> DEFINE j == [job[w] EXCEPT !.stage = "tail"]
    <3>1. job' = [job EXCEPT ![w] = j]
      BY <2>2 DEF Commit, Stage
    <3>2. /\ j \in AnyJob /\ j.stage = "tail" /\ j.url = u
          /\ j.key = job[w].key /\ j.process = job[w].process
      BY <1>1 DEF AnyJob
    <3> QED
      BY <3>1, <3>2
  <2> QED
    BY <2>1, <2>2
<1>8. batch' \subseteq batch
  BY DEF Commit, NextRow, NoTools, toolVars, mergeVars
<1>9. ChunksOf(row) \in [md : Nat, model : {"old", Model}]
  BY <1>2, <1>4 DEF ChunksOf, Model
<1> HIDE DEF row, u
<1>10. Shapes'
  BY <1>1, <1>2, <1>4, <1>7, <1>8, <1>9 DEF StoreInv, Shapes, Pages, Chunks
<1>11. JobsApart'
  BY <1>1, <1>2, <1>7 DEF StoreInv, JobsApart, Busy, Storing, Writers, u
<1>12. UnchangedHolds'
  <2> SUFFICES ASSUME NEW c \in Crawls, job'[c].stage = "unchanged", job'[c].url \in Guarded,
                      pages'[job'[c].url] # None
               PROVE  pages'[job'[c].url].md = job'[c].md \/ pages'[job'[c].url].by = "reembed"
    BY DEF UnchangedHolds
  <2>1. c # w /\ job'[c] = job[c] /\ c \in Writers /\ Busy(c) /\ Storing(c)
    BY <1>1, <1>7 DEF Writers, Busy, Storing
  <2>2. CASE job[c].url # u
    BY <1>1, <2>1, <2>2 DEF StoreInv, UnchangedHolds
  <2>3. CASE job[c].url = u
    <3>1. w = Reindex
      <4> SUFFICES ASSUME w \in Crawls  PROVE FALSE
        BY DEF Writers
      <4>1. /\ u \in Guarded /\ Home(job[c].key) = u /\ Home(job[w].key) = u
            /\ job[c].key \in Keys /\ job[w].key \in Keys
            /\ job[c].process \in Processes /\ job[w].process \in Processes
        BY <1>2, <2>1, <2>3 DEF StoreInv, JobsApart, u
      <4>2. job[c].process = job[w].process /\ job[c].key = job[w].key
        BY <4>1, GuardedApart
      <4>3. Storing(w)
        BY <1>1 DEF Storing
      <4> QED
        BY <2>1, <4>2, <4>3 DEF StoreInv, JobsApart
    <3>2. pages'[u] = row
      BY <1>1, <1>2
    <3>3. CASE pages[u] = None
      <4>1. row.by = "reembed"
        BY <1>2, <3>1, <3>3 DEF row
      <4> QED
        BY <2>1, <2>3, <3>2, <4>1
    <3>4. CASE pages[u] # None
      BY <1>6, <2>1, <2>3, <3>1, <3>2, <3>4 DEF StoreInv, UnchangedHolds
    <3> QED
      BY <3>3, <3>4
  <2> QED
    BY <2>2, <2>3
<1>13. ChunksMatchPage'
  BY <1>1, <1>2, <1>4 DEF StoreInv, Shapes, Chunks, ChunksMatchPage
<1>14. StampedContentIsFresh'
  BY <1>1, <1>2, <1>4, <1>5 DEF StoreInv, StampedContentIsFresh, StampTrue, Stored
<1> QED
  BY <1>10, <1>11, <1>12, <1>13, <1>14 DEF StoreInv

\* A failed embedding leaves the table as it was.
LEMMA StoreFailsKeeps ==
  ASSUME StoreInv, NEW w \in Writers, StoreFails(w)
  PROVE  StoreInv'
<1>1. /\ job' = [job EXCEPT ![w] = Idle] /\ batch' \subseteq batch
      /\ UNCHANGED <<pages, chunks, site, up, tidy>>
  BY DEF StoreFails, NextRow, NoTools, toolVars, mergeVars
<1>2. Idle \in AnyJob /\ Idle.stage = "idle"
  BY DEF Idle, AnyJob
<1> QED
  BY <1>1, <1>2, JobKeeps

\* A row that goes takes its chunks with it, whoever still works on it.
LEMMA DropKeeps ==
  ASSUME StoreInv, NEW u, Drop(u), UNCHANGED <<job, site, up, batch, tidy>>
  PROVE  StoreInv'
<1> USE DEF Drop, Pages, Chunks
<1>1. Shapes'
  BY DEF StoreInv, Shapes
<1>2. JobsApart'
  BY DEF StoreInv, JobsApart, Busy, Storing
<1>3. UnchangedHolds'
  BY DEF StoreInv, Shapes, UnchangedHolds, JobsApart, Busy, Writers
<1>4. ChunksMatchPage'
  BY DEF StoreInv, Shapes, ChunksMatchPage
<1>5. StampedContentIsFresh'
  BY DEF StoreInv, Shapes, StampedContentIsFresh, StampTrue, Stored
<1> QED
  BY <1>1, <1>2, <1>3, <1>4, <1>5 DEF StoreInv

\* A crawl of a short URL deletes the row under the short URL at its end.
LEMMA CrawlDoneKeeps ==
  ASSUME StoreInv, NEW c \in Crawls, CrawlDone(c)
  PROVE  StoreInv'
<1>1. /\ job' = [job EXCEPT ![c] = Idle] /\ UNCHANGED <<site, up, batch, tidy>> /\ c \in Writers
      /\ Idle \in AnyJob /\ Idle.stage = "idle"
  BY DEF CrawlDone, NoTools, toolVars, mergeVars, Writers, Idle, AnyJob
<1>2. CASE UNCHANGED <<pages, chunks>>
  BY <1>1, <1>2, JobKeeps
<1>3. CASE Drop(job[c].form)
  <2> USE <1>3 DEF Drop, Pages, Chunks
  <2>1. Shapes'
    BY <1>1 DEF StoreInv, Shapes
  <2>2. JobsApart'
    BY <1>1 DEF StoreInv, Shapes, JobsApart, Busy, Storing, Writers
  <2>3. UnchangedHolds'
    BY <1>1 DEF StoreInv, Shapes, UnchangedHolds, JobsApart, Busy, Writers
  <2>4. ChunksMatchPage'
    BY DEF StoreInv, Shapes, ChunksMatchPage
  <2>5. StampedContentIsFresh'
    BY DEF StoreInv, Shapes, StampedContentIsFresh, StampTrue, Stored
  <2> QED
    BY <2>1, <2>2, <2>3, <2>4, <2>5 DEF StoreInv
<1> QED
  BY <1>2, <1>3 DEF CrawlDone

---------------------------------------------------------------------------
\* The re-embedding takes up a row of its batch.
LEMMA ReembedKeeps ==
  ASSUME StoreInv, Reembed, up
  PROVE  StoreInv'
<1>1. PICK r \in batch :
        job' = [job EXCEPT ![Reindex] = [stage |-> "check", process |-> None, key |-> 0,
                                                   url |-> Canonical[r.url], md |-> r.md, form |-> r.url]]
  BY DEF Reembed
<1> DEFINE j == [stage |-> "check", process |-> None, key |-> 0, url |-> Canonical[r.url],
                 md |-> r.md, form |-> r.url]
<1>2. r.url \in Urls /\ r.md \in Nat
  BY DEF StoreInv, Shapes
<1>3. j \in AnyJob /\ j.url \in Urls /\ Image(j.url) /\ j.stage = "check"
  BY <1>2, PageStoreAssumption DEF AnyJob, Idle, Image
<1>4. /\ job' = [job EXCEPT ![Reindex] = j] /\ Reindex \in Writers
      /\ UNCHANGED <<pages, chunks, site, up, batch, tidy>>
  BY <1>1 DEF Reembed, NoTools, toolVars, mergeVars, Writers
<1> HIDE DEF j
<1>5. Shapes'
  BY <1>3, <1>4 DEF StoreInv, Shapes
<1>6. JobsApart'
  BY <1>3, <1>4, WritersAssumption DEF StoreInv, Shapes, JobsApart, Busy, Storing, Writers, Reindex
<1>7. UnchangedHolds'
  BY <1>3, <1>4, WritersAssumption DEF StoreInv, Shapes, UnchangedHolds, Writers, Reindex
<1>8. ChunksMatchPage' /\ StampedContentIsFresh'
  BY <1>4 DEF StoreInv, ChunksMatchPage, StampedContentIsFresh, StampTrue, Stored
<1> QED
  BY <1>5, <1>6, <1>7, <1>8 DEF StoreInv

\* Everything that runs in the container ends with it.
LEMMA StopKeeps ==
  ASSUME StoreInv, Stop
  PROVE  StoreInv'
<1>1. \A w \in Writers : job'[w].stage = "idle"
  BY DEF Stop, Idle
<1>2. Shapes'
  BY DEF Stop, StoreInv, Shapes, Idle, AnyJob, mergeVars
<1>3. JobsApart' /\ UnchangedHolds'
  BY <1>1 DEF JobsApart, UnchangedHolds, Busy, Storing, Writers
<1>4. ChunksMatchPage' /\ StampedContentIsFresh'
  BY DEF Stop, StoreInv, ChunksMatchPage, StampedContentIsFresh, StampTrue, Stored
<1> QED
  BY <1>2, <1>3, <1>4 DEF StoreInv

\* Starting the service changes no row.
LEMMA StartKeeps ==
  ASSUME StoreInv, Start
  PROVE  StoreInv'
<1>1. UNCHANGED <<pages, chunks, site, job, batch, tidy>> /\ up' = TRUE
  BY DEF Start, NoTools, toolVars, mergeVars
<1>2. Shapes' /\ JobsApart' /\ UnchangedHolds'
  BY <1>1 DEF StoreInv, Shapes, JobsApart, UnchangedHolds, Busy, Storing
<1>3. ChunksMatchPage' /\ StampedContentIsFresh'
  BY <1>1 DEF StoreInv, ChunksMatchPage, StampedContentIsFresh, StampTrue, Stored
<1> QED
  BY <1>2, <1>3 DEF StoreInv

\* A tool is executed in the container: it runs no longer than the service.
LEMMA ToolKeeps ==
  ASSUME StoreInv, ReindexStart \/ ReadBatch \/ ReindexEnd \/ MergeRead \/ MergeGroup \/ MergeFails
  PROVE  StoreInv'
<1>1. /\ UNCHANGED <<pages, chunks, job, up, site, tidy>>
      /\ batch' \in {batch, stale_batch}
  BY DEF ReindexStart, ReadBatch, ReindexEnd, MergeRead, MergeGroup, MergeFails, Rollback, Away,
         mergeVars
<1>2. site' \in [Finals -> Nat] /\ tidy' \in BOOLEAN /\ batch' \subseteq [url : Urls, md : Nat]
  BY <1>1, BatchShape DEF StoreInv, Shapes
<1> QED
  BY <1>1, <1>2, QuietKeeps

ToolInside == phase # "idle" => up

\* The re-embedding ends when the service is stopped.
LEMMA ToolStaysInside ==
  ASSUME ToolInside, Next
  PROVE  ToolInside'
<1> USE DEF ToolInside
<1>1. CASE UNCHANGED <<phase, up>>
  BY <1>1
<1>2. CASE ReindexStart \/ ReadBatch \/ ReindexEnd \/ Stop \/ Start
  BY <1>2 DEF ReindexStart, ReadBatch, ReindexEnd, Stop, Start
<1>3. CASE \/ \E u \in Finals : SiteChanges(u)
           \/ \E u \in Urls : Delete(u)
           \/ \E c \in Crawls : Crawl(c) \/ Stamp(c) \/ CrawlDone(c)
  BY <1>1, <1>3 DEF SiteChanges, Delete, Crawl, Stamp, CrawlDone, NoTools, toolVars
<1>4. CASE \E w \in Writers : Check(w) \/ Commit(w) \/ StoreFails(w)
  BY <1>1, <1>4 DEF Check, Commit, StoreFails, NoTools, toolVars, NextRow
<1>5. CASE Reembed \/ MergeRead \/ MergeGroup \/ MergeEnd \/ MergeFails
  BY <1>1, <1>5 DEF Reembed, MergeRead, MergeGroup, MergeEnd, MergeFails, Away, NoTools, toolVars
<1> QED
  BY <1>2, <1>3, <1>4, <1>5 DEF Next

\* The transaction of the merge, group by group.  A page is ahead of it while its group is
\* still to be merged; until then its draft is what is stored, and any group it is the
\* name of is still to be merged too: its name is taken.
Ahead(u) == u \in Stored /\ Canonical[u] \in plan

DraftOf(u) ==
  IF Ahead(u) THEN draft.pages[u] = pages[u] /\ draft.chunks[u] = chunks[u]
  ELSE IF Group(u) # {} /\ u \notin plan
  THEN \E v \in Group(u) : draft.pages[u] = pages[v] /\ draft.chunks[u] = chunks[v]
  ELSE draft.pages[u] = None /\ draft.chunks[u] = None

Drafted ==
  /\ plan \subseteq pending
  /\ draft \in [pages : Pages, chunks : Chunks]
  /\ \A u \in Urls : DraftOf(u) /\ (Ahead(u) /\ u \in pending => u \in plan)

\* What the transaction has made of the tables while everything else is stopped; and once
\* a merge has run no other form of a URL is stored again.
MergeInv ==
  /\ merge = "running" => ~up /\ Drafted
  /\ tidy => \A u \in Stored : Image(u)

MergeStep ==
  /\ ~up => \/ UNCHANGED pages
            \/ /\ Stored' = {Canonical[u] : u \in Stored}
               /\ \A u \in Stored' : \E v \in Group(u) : pages'[u] = pages[v]
  /\ merge' = "refused" /\ merge # "refused" =>
       \E u, v \in Stored : Canonical[v] = u /\ Canonical[u] # u
  /\ tidy' => \A u \in Stored' : Image(u)

\* Members of a group, and the groups that are to be merged.
LEMMA GroupFacts ==
  /\ \A u, v : v \in Group(u) <=> v \in Urls /\ pages[v] # None /\ Canonical[v] = u
  /\ \A u \in pending : u \in Urls /\ Group(u) # {} /\ Group(u) # {u}
BY DEF Group, Stored, pending

\* At first the draft is what is stored.
LEMMA ReadDrafts ==
  ASSUME StoreInv, MergeRead
  PROVE  Drafted'
<1>1. /\ UNCHANGED <<pages, chunks>> /\ plan' = pending
      /\ draft' = [pages |-> pages, chunks |-> chunks]
  BY DEF MergeRead
<1>2. Stored' = Stored /\ pending' = pending /\ \A u : Group(u)' = Group(u)
  BY <1>1 DEF Stored, pending, Group
<1>3. draft' \in [pages : Pages, chunks : Chunks]
  BY <1>1 DEF StoreInv, Shapes
<1>4. ASSUME NEW u \in Urls
      PROVE  DraftOf(u)' /\ (Ahead(u)' /\ u \in pending' => u \in plan')
  <2>2. draft'.pages[u] = pages[u] /\ draft'.chunks[u] = chunks[u]
    BY <1>1
  <2>3. CASE u \notin Stored
    <3>1. pages[u] = None /\ chunks[u] = None
      BY <2>3 DEF Stored, StoreInv, ChunksMatchPage
    <3>2. Group(u) # {u}
      BY <3>1, GroupFacts
    <3>3. Group(u) # {} => u \in pending
      BY <3>2 DEF pending
    <3> QED
      BY <1>1, <1>2, <2>2, <2>3, <3>1, <3>3 DEF DraftOf, Ahead
  <2>4. CASE u \in Stored /\ Canonical[u] \notin pending
    <3>1. u \in Group(Canonical[u]) /\ Canonical[u] \in Urls
      BY <2>4, PageStoreAssumption DEF Group
    <3>2. Group(Canonical[u]) = {Canonical[u]}
      BY <2>4, <3>1 DEF pending
    <3>3. Canonical[u] = u /\ u \in Group(u)
      BY <3>1, <3>2
    <3> QED
      BY <1>1, <1>2, <2>2, <2>4, <3>3 DEF DraftOf, Ahead
  <2>5. CASE u \in Stored /\ Canonical[u] \in pending
    BY <1>1, <1>2, <2>2, <2>5 DEF DraftOf, Ahead
  <2> QED
    BY <2>3, <2>4, <2>5
<1> QED
  BY <1>1, <1>2, <1>3, <1>4 DEF Drafted

\* The database refuses a new name only where a page is stored under it that has another
\* name still to come.
LEMMA RefusedOnlyThen ==
  ASSUME Drafted, NEW g \in plan, NEW keep \in Group(g), refused(draft, g, keep)
  PROVE  g \in Stored /\ keep \in Stored /\ Canonical[keep] = g /\ Canonical[g] # g
<1> DEFINE rest == Erased(draft, Group(g) \ {keep})
<1>1. g \in Urls /\ keep # g /\ keep \in Stored /\ Canonical[keep] = g
  BY GroupFacts DEF Drafted, refused, Stored
<1>2. rest.pages[g] # None \/ rest.chunks[g] # None
  BY DEF refused, Occupied
<1>3. g \notin Group(g) /\ (draft.pages[g] # None \/ draft.chunks[g] # None)
  BY <1>1, <1>2 DEF Erased
<1>4. Ahead(g)
  BY <1>1, <1>3 DEF Drafted, DraftOf
<1> QED
  BY <1>1, <1>3, <1>4, GroupFacts DEF Ahead, Stored

\* What merging one group makes of the draft.
LEMMA MergedTables ==
  ASSUME Drafted, NEW g \in plan, NEW keep \in Group(g)
  PROVE  /\ merged(draft, g, keep) \in [pages : Pages, chunks : Chunks]
         /\ merged(draft, g, keep).pages[g] = draft.pages[keep]
         /\ merged(draft, g, keep).chunks[g] = draft.chunks[keep]
         /\ \A u \in Group(g) \ {g} : /\ merged(draft, g, keep).pages[u] = None
                                      /\ merged(draft, g, keep).chunks[u] = None
         /\ \A u \in Urls : u \notin Group(g) /\ u # g =>
              /\ merged(draft, g, keep).pages[u] = draft.pages[u]
              /\ merged(draft, g, keep).chunks[u] = draft.chunks[u]
<1>1. g \in Urls /\ keep \in Urls /\ Group(g) \subseteq Urls
  BY GroupFacts DEF Drafted
<1>2. draft \in [pages : Pages, chunks : Chunks]
  BY DEF Drafted
<1> DEFINE lost == Group(g) \ {keep}
           rest == Erased(draft, lost)
<1>3. /\ rest \in [pages : Pages, chunks : Chunks]
      /\ \A u \in Urls : /\ rest.pages[u] = IF u \in lost THEN None ELSE draft.pages[u]
                         /\ rest.chunks[u] = IF u \in lost THEN None ELSE draft.chunks[u]
  BY <1>2 DEF Erased, Pages, Chunks
<1> HIDE DEF rest
<1>4. CASE keep = g
  <2>1. merged(draft, g, keep) = rest
    BY <1>4 DEF merged, rest
  <2> QED
    BY <1>1, <1>3, <1>4, <2>1
<1>5. CASE keep # g
  <2> DEFINE moved == Renamed(rest, keep, g)
  <2>1. merged(draft, g, keep) = moved
    BY <1>5 DEF merged, rest
  <2>2. /\ moved \in [pages : Pages, chunks : Chunks]
        /\ moved.pages[g] = rest.pages[keep] /\ moved.chunks[g] = rest.chunks[keep]
        /\ moved.pages[keep] = None /\ moved.chunks[keep] = None
        /\ \A u \in Urls \ {g, keep} : moved.pages[u] = rest.pages[u] /\ moved.chunks[u] = rest.chunks[u]
    BY <1>1, <1>3, <1>5 DEF Renamed, Pages, Chunks
  <2> HIDE DEF moved
  <2> QED
    BY <1>1, <1>3, <1>5, <2>1, <2>2
<1> QED
  BY <1>4, <1>5

\* Merging one group: its row gets its name, and nothing else of the draft changes.
LEMMA GroupDrafts ==
  ASSUME Drafted, NEW g \in plan, NEW keep \in Group(g), ~ refused(draft, g, keep),
         draft' = merged(draft, g, keep), plan' = plan \ {g}, UNCHANGED <<pages, chunks>>
  PROVE  Drafted'
<1>1. Stored' = Stored /\ pending' = pending /\ \A u : Group(u)' = Group(u)
  BY DEF Stored, pending, Group
<1>2. /\ g \in Urls /\ keep \in Urls /\ plan \subseteq pending /\ Canonical[keep] = g
      /\ keep \in Stored /\ draft \in [pages : Pages, chunks : Chunks]
  BY GroupFacts DEF Drafted, Stored
<1>3. Ahead(keep) /\ draft.pages[keep] = pages[keep] /\ draft.chunks[keep] = chunks[keep]
  BY <1>2 DEF Ahead, Drafted, DraftOf
<1>4. ASSUME NEW u \in Urls
      PROVE  DraftOf(u)' /\ (Ahead(u)' /\ u \in pending' => u \in plan')
  <2>1. Ahead(u)' <=> Ahead(u) /\ Canonical[u] # g
    BY <1>1 DEF Ahead
  <2>2. CASE Ahead(u) /\ Canonical[u] # g
    <3>1. u \notin Group(g) /\ u \in Stored /\ Canonical[u] \in plan
      BY <2>2, GroupFacts DEF Ahead
    <3>2. draft.pages[u] = pages[u] /\ draft.chunks[u] = chunks[u] /\ (u \in pending => u \in plan)
      BY <2>2 DEF Drafted, DraftOf
    <3>3. u # g
      <4> SUFFICES ASSUME u = g  PROVE FALSE
        OBVIOUS
      <4>1. keep # g
        BY <1>2, <2>2
      <4>2. Erased(draft, Group(g) \ {keep}).pages[g] = pages[g] /\ pages[g] # None
        BY <1>2, <3>1, <3>2 DEF Erased, Stored
      <4> QED
        BY <4>1, <4>2 DEF refused, Occupied
    <3>4. draft'.pages[u] = pages[u] /\ draft'.chunks[u] = chunks[u]
      BY <3>1, <3>2, <3>3, MergedTables
    <3> QED
      BY <1>1, <2>1, <2>2, <3>2, <3>3, <3>4 DEF DraftOf
  <2>3. CASE u = g /\ Canonical[u] = g
    <3>1. draft'.pages[g] = pages[keep] /\ draft'.chunks[g] = chunks[keep]
      BY <1>3, MergedTables
    <3> QED
      BY <1>1, <2>1, <2>3, <3>1 DEF DraftOf
  <2>4. CASE u = g /\ Canonical[u] # g /\ ~ Ahead(u)
    <3>1. draft'.pages[g] = pages[keep] /\ draft'.chunks[g] = chunks[keep]
      BY <1>3, MergedTables
    <3> QED
      BY <1>1, <2>1, <2>4, <3>1 DEF DraftOf
  <2>5. CASE u # g /\ u \in Group(g)
    <3>1. draft'.pages[u] = None /\ draft'.chunks[u] = None
      BY <2>5, MergedTables
    <3>2. u \in Stored /\ Canonical[u] = g /\ Ahead(u)
      BY <2>5, GroupFacts DEF Stored, Ahead
    <3>3. Group(u) # {u}
      BY <2>5, <3>2, GroupFacts
    <3>4. Group(u) # {} => u \in plan /\ u \in plan'
      BY <2>5, <3>2, <3>3 DEF Drafted, pending
    <3> QED
      BY <1>1, <2>1, <3>1, <3>2, <3>4 DEF DraftOf
  <2>6. CASE u # g /\ u \notin Group(g) /\ ~ Ahead(u)
    <3>1. draft'.pages[u] = draft.pages[u] /\ draft'.chunks[u] = draft.chunks[u]
      BY <2>6, MergedTables
    <3>2. u \in plan' <=> u \in plan
      BY <2>6
    <3>3. DraftOf(u)
      BY DEF Drafted
    <3> QED
      BY <1>1, <2>1, <2>6, <3>1, <3>2, <3>3 DEF DraftOf
  <2>7. Ahead(u) /\ Canonical[u] = g => u \in Group(g)
    BY GroupFacts DEF Ahead, Stored
  <2> QED
    BY <2>2, <2>3, <2>4, <2>5, <2>6, <2>7
<1>5. draft' \in [pages : Pages, chunks : Chunks]
  BY MergedTables
<1> QED
  BY <1>1, <1>2, <1>4, <1>5 DEF Drafted

\* In the end every URL that a stored one normalizes to has a row of its group, and its
\* chunks, and nothing else is left.
LEMMA MergeEndMoves ==
  ASSUME StoreInv, MergeInv, MergeEnd
  PROVE  /\ pages' = draft.pages /\ chunks' = draft.chunks /\ merge' = "idle" /\ tidy' = TRUE
         /\ pages' \in Pages /\ chunks' \in Chunks
         /\ \A u \in Urls :
              IF Group(u) # {}
              THEN \E v \in Group(u) : pages'[u] = pages[v] /\ chunks'[u] = chunks[v]
              ELSE pages'[u] = None /\ chunks'[u] = None
<1>1. Drafted /\ plan = {}
  BY DEF MergeEnd, MergeInv
<1>2. draft.pages \in Pages /\ draft.chunks \in Chunks
  BY <1>1 DEF Drafted
<1>3. ASSUME NEW u \in Urls
      PROVE  IF Group(u) # {}
             THEN \E v \in Group(u) : draft.pages[u] = pages[v] /\ draft.chunks[u] = chunks[v]
             ELSE draft.pages[u] = None /\ draft.chunks[u] = None
  BY <1>1 DEF Drafted, DraftOf, Ahead
<1>4. Orphans(draft) = {}
  <2> SUFFICES ASSUME NEW u \in Urls, draft.chunks[u] # None, draft.pages[u] = None
               PROVE  FALSE
    BY DEF Orphans
  <2>1. PICK v \in Group(u) : draft.pages[u] = pages[v]
    BY <1>3
  <2> QED
    BY <2>1, GroupFacts
<1>5. pages' = draft.pages /\ chunks' = draft.chunks /\ merge' = "idle" /\ tidy' = TRUE
  BY <1>4 DEF MergeEnd
<1> QED
  BY <1>2, <1>3, <1>5

\* The merge moves a page and its chunks alike.
LEMMA MergeEndKeeps ==
  ASSUME StoreInv, MergeInv, MergeEnd
  PROVE  StoreInv'
<1>1. UNCHANGED <<site, job, up, batch>> /\ ~up
  BY DEF MergeEnd, Away, MergeInv
<1>2. \A w \in Writers : ~Busy(w)
  BY <1>1 DEF StoreInv, JobsApart
<1>3. JobsApart' /\ UnchangedHolds'
  BY <1>1, <1>2 DEF JobsApart, UnchangedHolds, Busy, Storing, Writers
<1>4. \A u \in Urls : \/ pages'[u] = None /\ chunks'[u] = None
                     \/ \E v \in Urls : /\ Canonical[v] = u /\ pages[v] # None
                                        /\ pages'[u] = pages[v] /\ chunks'[u] = chunks[v]
  BY MergeEndMoves, GroupFacts
<1>5. Shapes'
  BY <1>1, MergeEndMoves DEF StoreInv, Shapes
<1>6. ChunksMatchPage'
  BY <1>4 DEF StoreInv, ChunksMatchPage
<1>7. StampedContentIsFresh'
  <2> SUFFICES ASSUME NEW u \in Urls, pages'[u] # None, u \in Guarded
               PROVE  StampTrue(u)'
    BY DEF StampedContentIsFresh, Stored
  <2>1. PICK v \in Urls : Canonical[v] = u /\ pages[v] # None /\ pages'[u] = pages[v]
    BY <1>4
  <2>2. v \in Guarded
    BY <2>1, GuardedBefore
  <2>3. StampTrue(v)
    BY <2>1, <2>2 DEF StoreInv, StampedContentIsFresh, Stored
  <2> QED
    BY <2>1, <2>3 DEF StampTrue
<1> QED
  BY <1>3, <1>5, <1>6, <1>7 DEF StoreInv

\* Every action keeps the invariant.
LEMMA StoreStep ==
  ASSUME StoreInv, ToolInside, MergeInv, Next
  PROVE  StoreInv'
<1>1. ASSUME NEW u \in Finals, SiteChanges(u)
      PROVE  StoreInv'
  <2>1. UNCHANGED <<pages, chunks, job, up, batch, tidy>> /\ site' \in [Finals -> Nat]
    BY <1>1 DEF SiteChanges, NoTools, toolVars, mergeVars, StoreInv, Shapes
  <2> QED
    BY <2>1, QuietKeeps DEF StoreInv, Shapes
<1>2. ASSUME NEW u \in Urls, Delete(u)
      PROVE  StoreInv'
  BY <1>2, DropKeeps DEF Delete, NoTools, toolVars, mergeVars
<1>3. ASSUME NEW c \in Crawls, Crawl(c) \/ Stamp(c) \/ CrawlDone(c)
      PROVE  StoreInv'
  BY <1>3, CrawlKeeps, StampKeeps, CrawlDoneKeeps
<1>4. ASSUME NEW w \in Writers, Check(w) \/ Commit(w) \/ StoreFails(w)
      PROVE  StoreInv'
  BY <1>4, CheckKeeps, CommitKeeps, StoreFailsKeeps
<1>5. CASE ReindexStart \/ ReadBatch \/ ReindexEnd \/ MergeRead \/ MergeGroup \/ MergeFails
  BY <1>5, ToolKeeps
<1>6. CASE Reembed
  BY <1>6, ReembedKeeps DEF Reembed, ToolInside
<1>7. CASE Stop \/ Start \/ MergeEnd
  BY <1>7, StopKeeps, StartKeeps, MergeEndKeeps
<1> QED
  BY <1>1, <1>2, <1>3, <1>4, <1>5, <1>6, <1>7 DEF Next

\* Steps that leave both tables and the merge alone.
LEMMA SameMerge ==
  ASSUME MergeInv, UNCHANGED <<pages, chunks, mergeVars>>, up' => up
  PROVE  MergeInv' /\ MergeStep
<1>1. Stored' = Stored /\ pending' = pending /\ \A u : Group(u)' = Group(u)
  BY DEF Stored, pending, Group
<1>2. UNCHANGED <<pages, chunks, merge, plan, draft, tidy>>
  BY DEF mergeVars
<1>3. \A u : (Ahead(u)' <=> Ahead(u)) /\ (DraftOf(u)' <=> DraftOf(u))
  BY <1>1, <1>2 DEF Ahead, DraftOf
<1>4. Drafted => Drafted'
  BY <1>1, <1>2, <1>3 DEF Drafted
<1> QED
  BY <1>1, <1>2, <1>4 DEF MergeInv, MergeStep

\* Steps that leave the tables alone while no transaction runs afterwards.
LEMMA NoMerge ==
  ASSUME MergeInv, UNCHANGED <<pages, tidy>>, merge' # "running",
         merge' = "refused" /\ merge # "refused" =>
           \E u, v \in Stored : Canonical[v] = u /\ Canonical[u] # u
  PROVE  MergeInv' /\ MergeStep
<1>1. Stored' = Stored
  BY DEF Stored
<1> QED
  BY <1>1 DEF MergeInv, MergeStep

\* While the service runs, rows go, and rows that a store names come.
LEMMA CanonicalPages ==
  ASSUME MergeInv, up, up', UNCHANGED <<tidy, merge>>,
         \A u \in Stored' : u \in Stored \/ Image(u)
  PROVE  MergeInv' /\ MergeStep
  BY DEF MergeInv, MergeStep

\* The steps of the merge itself.
LEMMA MergeMoves ==
  ASSUME StoreInv, MergeInv, MergeRead \/ MergeGroup \/ MergeEnd \/ MergeFails
  PROVE  MergeInv' /\ MergeStep
<1>1. UNCHANGED up
  BY DEF MergeRead, MergeGroup, MergeEnd, MergeFails, Away
<1>2. CASE MergeRead
  <2>1. ~up /\ merge' = "running" /\ UNCHANGED <<pages, tidy>>
    BY <1>2 DEF MergeRead
  <2>2. Stored' = Stored
    BY <2>1 DEF Stored
  <2> QED
    BY <1>1, <1>2, <2>1, <2>2, ReadDrafts DEF MergeInv, MergeStep
<1>3. CASE MergeGroup
  <2>1. merge = "running" /\ ~up /\ Drafted
    BY <1>3 DEF MergeGroup, MergeInv
  <2>2. PICK g \in plan : \E keep \in Group(g) :
          \/ refused(draft, g, keep) /\ Rollback("refused")
          \/ /\ ~ refused(draft, g, keep)
             /\ draft' = merged(draft, g, keep) /\ plan' = plan \ {g}
             /\ UNCHANGED <<pages, chunks, merge, tidy>>
    BY <1>3 DEF MergeGroup
  <2>3. PICK keep \in Group(g) :
          \/ refused(draft, g, keep) /\ Rollback("refused")
          \/ /\ ~ refused(draft, g, keep)
             /\ draft' = merged(draft, g, keep) /\ plan' = plan \ {g}
             /\ UNCHANGED <<pages, chunks, merge, tidy>>
    BY <2>2
  <2>4. CASE refused(draft, g, keep) /\ Rollback("refused")
    BY <2>1, <2>4, RefusedOnlyThen, NoMerge DEF Rollback
  <2>5. CASE /\ ~ refused(draft, g, keep)
             /\ draft' = merged(draft, g, keep) /\ plan' = plan \ {g}
             /\ UNCHANGED <<pages, chunks, merge, tidy>>
    <3>1. Drafted' /\ Stored' = Stored
      BY <2>1, <2>5, GroupDrafts DEF Stored
    <3> QED
      BY <1>1, <2>1, <2>5, <3>1 DEF MergeInv, MergeStep
  <2> QED
    BY <2>3, <2>4, <2>5
<1>4. CASE MergeEnd
  <2>1. ASSUME NEW u \in Stored'
        PROVE  Image(u) /\ u \in {Canonical[v] : v \in Stored}
               /\ \E v \in Group(u) : pages'[u] = pages[v]
    <3>1. u \in Urls /\ pages'[u] # None
      BY <2>1 DEF Stored
    <3>2. PICK v \in Group(u) : pages'[u] = pages[v]
      BY <1>4, <3>1, MergeEndMoves
    <3> QED
      BY <3>2, GroupFacts DEF Image, Stored
  <2>2. ASSUME NEW v \in Stored
        PROVE  Canonical[v] \in Stored'
    <3>1. Canonical[v] \in Urls /\ v \in Group(Canonical[v])
      BY PageStoreAssumption DEF Group, Stored
    <3>2. PICK w \in Group(Canonical[v]) : pages'[Canonical[v]] = pages[w]
      BY <1>4, <3>1, MergeEndMoves
    <3> QED
      BY <3>1, <3>2, GroupFacts DEF Stored
  <2>3. Stored' = {Canonical[v] : v \in Stored}
    BY <2>1, <2>2
  <2>4. merge' = "idle"
    BY <1>4, MergeEndMoves
  <2> QED
    BY <2>1, <2>3, <2>4 DEF MergeInv, MergeStep
<1>5. CASE MergeFails
  BY <1>5, NoMerge DEF MergeFails, Rollback
<1> QED
  BY <1>2, <1>3, <1>4, <1>5

\* Every step keeps the transaction apart, and a merge loses no page.
LEMMA MergeKept ==
  ASSUME StoreInv, ToolInside, MergeInv, Next
  PROVE  MergeInv' /\ MergeStep
<1>1. CASE MergeRead \/ MergeGroup \/ MergeEnd \/ MergeFails
  BY <1>1, MergeMoves
<1>2. CASE Stop
  BY <1>2, SameMerge DEF Stop
<1>3. CASE Start
  BY <1>3, NoMerge DEF Start
<1>4. CASE ReindexStart \/ ReadBatch \/ Reembed \/ ReindexEnd
  <2>1. UNCHANGED <<pages, chunks, mergeVars, up>>
    BY <1>4 DEF ReindexStart, ReadBatch, Reembed, ReindexEnd, NoTools, toolVars, mergeVars
  <2> QED
    BY <2>1, SameMerge
<1>5. ASSUME NEW u \in Finals, SiteChanges(u)
      PROVE  MergeInv' /\ MergeStep
  BY <1>5, SameMerge DEF SiteChanges, NoTools, toolVars
<1>6. ASSUME NEW u \in Urls, Delete(u)
      PROVE  MergeInv' /\ MergeStep
  <2>1. up /\ up' /\ UNCHANGED <<tidy, merge>> /\ Stored' \subseteq Stored
    BY <1>6 DEF Delete, Drop, NoTools, toolVars, mergeVars, Stored, StoreInv, Shapes, Pages
  <2> QED
    BY <2>1, CanonicalPages
<1>7. ASSUME NEW c \in Crawls, Crawl(c)
      PROVE  MergeInv' /\ MergeStep
  BY <1>7, SameMerge DEF Crawl, NoTools, toolVars
<1>8. ASSUME NEW c \in Crawls, Stamp(c) \/ CrawlDone(c)
      PROVE  MergeInv' /\ MergeStep
  <2>1. c \in Writers /\ Busy(c) /\ up /\ up' /\ UNCHANGED <<tidy, merge>>
    BY <1>8 DEF Stamp, CrawlDone, NoTools, toolVars, mergeVars, Writers, Busy, StoreInv, JobsApart
  <2>2. pages \in [Urls -> AnyRow \cup {None}]
    BY DEF StoreInv, Shapes, Pages
  <2>3. Stored' \subseteq Stored
    BY <1>8, <2>2 DEF Stamp, CrawlDone, Drop, Stored
  <2> QED
    BY <2>1, <2>3, CanonicalPages
<1>9. ASSUME NEW w \in Writers, Check(w) \/ StoreFails(w)
      PROVE  MergeInv' /\ MergeStep
  <2>1. UNCHANGED <<pages, chunks, mergeVars, up>>
    BY <1>9 DEF Check, StoreFails, NextRow, NoTools, toolVars
  <2> QED
    BY <2>1, SameMerge
<1>10. ASSUME NEW w \in Writers, Commit(w)
       PROVE  MergeInv' /\ MergeStep
  <2>1. Busy(w) /\ up /\ up' /\ UNCHANGED <<tidy, merge>>
    BY <1>10 DEF Commit, NextRow, NoTools, toolVars, mergeVars, Busy, StoreInv, JobsApart
  <2>2. Image(job[w].url)
    BY <2>1 DEF StoreInv, JobsApart
  <2>3. \A u \in Urls : u # job[w].url => pages'[u] = pages[u]
    BY <1>10 DEF Commit, Upsert, Put, StoreInv, Shapes, Pages
  <2>4. \A u \in Stored' : u \in Stored \/ Image(u)
    BY <2>2, <2>3 DEF Stored
  <2> QED
    BY <2>1, <2>4, CanonicalPages
<1> QED
  BY <1>1, <1>2, <1>3, <1>4, <1>5, <1>6, <1>7, <1>8, <1>9, <1>10 DEF Next

---------------------------------------------------------------------------
\* A stutter changes nothing.
LEMMA StoreStutter ==
  ASSUME StoreInv, ToolInside, MergeInv, UNCHANGED vars
  PROVE  StoreInv' /\ ToolInside' /\ MergeInv'
<1>1. UNCHANGED <<pages, chunks, site, job, up, batch, tidy, phase, mergeVars>>
  BY DEF vars, toolVars, mergeVars
<1>2. StoreInv'
  BY <1>1, QuietKeeps DEF StoreInv, Shapes
<1>3. MergeInv'
  BY <1>1, SameMerge
<1> QED
  BY <1>1, <1>2, <1>3 DEF ToolInside

StoreKept == StoreInv /\ ToolInside /\ MergeInv

\* The conjunction of all that is kept holds in every reachable state.
LEMMA StoreAlways == Spec => []StoreKept
<1>1. Init => StoreKept
  BY InitStore DEF Init, ToolInside, MergeInv, StoreKept
<1>2. StoreKept /\ [Next]_vars => StoreKept'
  BY StoreStep, ToolStaysInside, MergeKept, StoreStutter DEF StoreKept
<1> QED
  BY <1>1, <1>2, PTL DEF Spec

\* The chunks of a page are made of what its row holds, whoever stored,
\* stamped, re-embedded, deleted or merged last (index.py:98, db.py).
THEOREM ChunksFollowPages == Spec => []ChunksMatchPage
<1>1. StoreKept => ChunksMatchPage
  BY DEF StoreInv, StoreKept
<1> QED
  BY <1>1, StoreAlways, PTL

\* Where one process crawls, and no two of its keys are stored under one URL, no page is
\* stamped with a crawl that is newer than its content, but for what the re-embedding has
\* put back (index.py:84, reindex.py:112).
THEOREM StampsAreTrue == Spec => []StampedContentIsFresh
<1>1. StoreKept => StampedContentIsFresh
  BY DEF StoreInv, StoreKept
<1> QED
  BY <1>1, StoreAlways, PTL

\* Merging loses no page, leaves only URLs that some URL normalizes to, and is refused only
\* by a name that is a page's own and normalizes on (merge_dupes.py:101); and nothing that
\* is stored later undoes that.
THEOREM MergeLosesNoPage == Spec => MergeKeepsPages
<1>1. StoreKept /\ [Next]_vars => [MergeStep]_vars
  BY MergeKept DEF StoreKept
<1>2. [][MergeStep]_vars => MergeKeepsPages
  BY DEF MergeStep, MergeKeepsPages, Image
<1> QED
  BY <1>1, <1>2, StoreAlways, PTL DEF Spec
---------------------------------------------------------------------------
(* How far the re-embedding has come.                                      *)

\* A page it has still to reach: of an earlier model, not counted as failed,
\* and stored under the URL it will be stored under again.
Left(u) ==
  u \in Stored /\ pages[u].model # Model /\ u \notin failed /\ Canonical[u] = u
Batched == {r.url : r \in batch}

\* What is left is in the batch, or behind the cursor and behind all of the
\* batch; a page leaves the batch when it is not left any more.
Reaching ==
  /\ phase \in {"idle", "batch", "done"} /\ cursor \in Nat
  /\ phase # "idle" => up
  /\ phase # "batch" => batch = {}
  /\ Busy(Reindex) => /\ phase = "batch" /\ job[Reindex].form \in Batched
                      /\ job[Reindex].url = Canonical[job[Reindex].form]
  /\ phase = "batch" =>
       \A u \in Urls : Left(u) => \/ u \in Batched
                                  \/ u > cursor /\ \A r \in batch : u > r.url
  /\ phase = "done" => \A u \in Urls : ~Left(u)

\* Nobody stores with an earlier model.
NoneAges ==
  \A u \in Stored' : pages'[u].model # Model => u \in Stored /\ pages[u].model # Model

\* The tool has not started.
LEMMA ReachingInit == Init => Reaching
BY DEF Init, Reaching, Busy, Writers, Idle

\* Steps of the others.
LEMMA OthersReach ==
  ASSUME Reaching, NoneAges, UNCHANGED <<up, phase, cursor, batch, failed>>,
         job'[Reindex] = job[Reindex]
  PROVE  Reaching'
<1>1. \A u : Left(u)' => Left(u)
  BY DEF Left, NoneAges
<1>2. Busy(Reindex)' <=> Busy(Reindex)
  BY DEF Busy, Reindex
<1>3. Batched' = Batched
  BY DEF Batched
<1>4. job[Reindex]' = job'[Reindex]
  BY DEF Reindex
<1> QED
  BY <1>1, <1>2, <1>3, <1>4 DEF Reaching

\* Whatever the crawls and the dashboard do, no row gets an earlier model.
LEMMA CrawlsAgeNothing ==
  ASSUME StoreInv,
         \/ \E u \in Finals : SiteChanges(u)
         \/ \E u \in Urls : Delete(u)
         \/ \E c \in Crawls : Crawl(c) \/ Stamp(c) \/ CrawlDone(c)
         \/ \E w \in Writers : Check(w) \/ Commit(w) \/ StoreFails(w)
  PROVE  NoneAges /\ up' = up
<1>0. pages \in [Urls -> AnyRow \cup {None}] /\ None \notin AnyRow
  BY TablesAssumption DEF StoreInv, Shapes, Pages
<1>1. CASE UNCHANGED pages /\ up' = up
  BY <1>1 DEF NoneAges, Stored
<1>2. CASE \/ \E u \in Finals : SiteChanges(u)
           \/ \E c \in Crawls : Crawl(c)
           \/ \E w \in Writers : Check(w) \/ StoreFails(w)
  BY <1>1, <1>2 DEF SiteChanges, Crawl, Check, StoreFails
<1>3. ASSUME NEW u, Drop(u), up' = up  PROVE NoneAges /\ up' = up
  BY <1>0, <1>3 DEF Drop, NoneAges, Stored
<1>4. CASE (\E u \in Urls : Delete(u)) \/ \E c \in Crawls : CrawlDone(c)
  BY <1>1, <1>3, <1>4 DEF Delete, CrawlDone
<1>5. ASSUME NEW c \in Crawls, Stamp(c)  PROVE NoneAges /\ up' = up
  <2> DEFINE u == job[c].url
  <2>1. CASE pages[u] = None
    BY <1>1, <1>5, <2>1 DEF Stamp
  <2>2. CASE pages[u] # None
    <3>1. pages' = [pages EXCEPT ![u].last = job[c].md] /\ up' = up
      BY <1>5, <2>2 DEF Stamp
    <3>2. \A v \in Urls : v # u => pages'[v] = pages[v]
      BY <1>0, <3>1
    <3>3. u \in Urls => pages'[u].model = pages[u].model
      <4>1. u \in Urls => pages[u] \in AnyRow
        BY <1>0, <2>2
      <4>2. u \in Urls => pages'[u] = [pages[u] EXCEPT !.last = job[c].md]
        BY <1>0, <3>1
      <4> QED
        BY <4>1, <4>2 DEF AnyRow
    <3> QED
      BY <2>2, <3>1, <3>2, <3>3 DEF NoneAges, Stored
  <2> QED
    BY <2>1, <2>2
<1>6. ASSUME NEW w \in Writers, Commit(w)  PROVE NoneAges /\ up' = up
  <2> DEFINE u == job[w].url
             old == IF pages[u] = None THEN [md |-> -1, last |-> 0, by |-> "reembed"] ELSE pages[u]
             row == [md |-> job[w].md, model |-> Model,
                     last |-> IF w = Reindex THEN old.last ELSE job[w].md,
                     by |-> IF w # Reindex THEN "crawl"
                            ELSE IF old.md = job[w].md THEN old.by ELSE "reembed"]
  <2>1. pages' = [pages EXCEPT ![u] = row] /\ row.model = Model
    BY <1>6 DEF Commit, Upsert, Put, recut
  <2> HIDE DEF row, u
  <2>2. up' = up
    BY <1>6 DEF Commit
  <2> QED
    BY <1>0, <2>1, <2>2 DEF NoneAges, Stored
<1> QED
  BY <1>2, <1>4, <1>5, <1>6

\* So they put nothing in the way of the tool.
LEMMA OutsidersReach ==
  ASSUME StoreInv, Reaching,
         \/ \E u \in Finals : SiteChanges(u)
         \/ \E u \in Urls : Delete(u)
         \/ \E c \in Crawls : \/ Crawl(c) \/ Stamp(c) \/ CrawlDone(c)
                              \/ Check(c) \/ Commit(c) \/ StoreFails(c)
  PROVE  Reaching'
<1>1. NoneAges /\ up' = up
  BY CrawlsAgeNothing DEF Writers
<1>2. UNCHANGED <<phase, cursor, batch, failed>>
  BY WritersAssumption
     DEF SiteChanges, Delete, Crawl, Stamp, CrawlDone, Check, Commit, StoreFails,
         NoTools, toolVars, mergeVars, Reindex
<1>3. job' = job \/ \E c \in Crawls : \E j : job' = [job EXCEPT ![c] = j]
  BY WritersAssumption
     DEF SiteChanges, Delete, Crawl, Stamp, CrawlDone, Check, Commit, StoreFails,
         Stage, Reindex
<1>4. job \in [Writers -> AnyJob] /\ Reindex \in Writers /\ Reindex \notin Crawls
  BY WritersAssumption DEF StoreInv, Shapes, Writers, Reindex
<1>5. job'[Reindex] = job[Reindex]
  BY <1>3, <1>4
<1> QED
  BY <1>1, <1>2, <1>5, OthersReach

\* The first few of a set of numbers, each with few of the set before it: what
\* is left out is behind all of them, and there are some.
LEMMA FirstFew ==
  ASSUME NEW S \in SUBSET Nat, NEW few \in Nat \ {0},
         NEW first, first = {x \in S : Cardinality({v \in S : v < x}) < few},
         NEW u \in S, u \notin first
  PROVE  first # {} /\ \A x \in first : u > x
<1> DEFINE Before(x) == {v \in S : v < x}
<1>0. \A x \in S : x \in Nat
  OBVIOUS
<1>1. ASSUME NEW x \in S
      PROVE  IsFiniteSet(Before(x)) /\ Cardinality(Before(x)) \in Nat
  <2>1. 0 \in Int /\ x \in Int
    BY <1>0
  <2>2. Before(x) \in SUBSET (0 .. x)
    <3>1. \A v \in Before(x) : v \in Nat /\ v < x
      BY <1>0
    <3> HIDE DEF Before
    <3> QED
      BY <1>0, <3>1
  <2> HIDE DEF Before
  <2>3. IsFiniteSet(0 .. x)
    BY <2>1, FS_Interval
  <2> QED
    BY <2>2, <2>3, FS_Subset, FS_CardinalityType
<1>2. \A x \in S : x \in first <=> Cardinality(Before(x)) < few
  OBVIOUS
<1>3. Cardinality(Before(u)) >= few
  <2> HIDE DEF Before
  <2> QED
    BY <1>1, <1>2
<1>4. ASSUME NEW x \in first
      PROVE  u > x
  <2>1. CASE x > u
    <3>1. x \in S
      OBVIOUS
    <3>2. \A v \in S : v < u => v < x
      BY <1>0, <2>1, <3>1
    <3>3. Before(u) \in SUBSET Before(x)
      BY <3>2
    <3> HIDE DEF Before
    <3>4. Cardinality(Before(u)) <= Cardinality(Before(x))
      BY <1>1, <3>1, <3>3, FS_Subset
    <3> QED
      BY <1>1, <1>2, <1>3, <3>1, <3>4
  <2>2. x \in S /\ x # u
    OBVIOUS
  <2> QED
    BY <1>0, <2>1, <2>2
<1>5. first # {}
  <2>1. PICK m \in S : \A x \in S : m <= x
    <3>1. PICK R : R = OpToRel(<, Nat)
      OBVIOUS
    <3>2. IsWellFoundedOn(R, Nat)
      BY <3>1, NatLessThanWellFounded
    <3>3. S \subseteq Nat /\ S # {}
      OBVIOUS
    <3>4. PICK m \in S : \A x \in S : <<x, m>> \notin R
      BY <3>2, <3>3, WFMin
    <3>5. \A x \in S : ~(x < m)
      BY <1>0, <3>1, <3>4 DEF OpToRel
    <3> QED
      BY <1>0, <3>4, <3>5
  <2>2. \A v \in S : ~(v < m)
    BY <1>0, <2>1
  <2>3. Before(m) = {}
    BY <2>2
  <2> HIDE DEF Before
  <2>4. Cardinality(Before(m)) = 0
    BY <2>3, FS_EmptySet
  <2>5. Cardinality(Before(m)) < few
    BY <2>4
  <2> QED
    BY <1>2, <2>5
<1> QED
  BY <1>4, <1>5

\* The batch holds the first stale pages behind the cursor, so whatever is left
\* out is behind all of it, and nothing is left out of an empty batch.
LEMMA BatchIsFirst ==
  ASSUME StoreInv, cursor \in Nat, batch' = stale_batch,
         NEW u \in Stored, pages[u].model # Model, u > cursor,
         u \notin {r.url : r \in batch'}
  PROVE  batch' # {} /\ \A r \in batch' : u > r.url
<1> DEFINE behind == {v \in Urls : Stale(v) /\ cursor < v}
           few(x) == Cardinality({v \in behind : v < x}) < BatchSize
           urls == {x \in behind : few(x)}
<1>1. Urls \subseteq Nat \ {0} /\ BatchSize \in Nat \ {0} /\ u \in Urls /\ Stale(u)
  BY PageStoreAssumption DEF Stored, Stale
<1>2. behind \in SUBSET Nat /\ u \in behind
  BY <1>1
<1>3. batch' = RowsOf(urls)
  <2>1. \A x : {v \in behind : v < x} = {v \in Urls : Stale(v) /\ cursor < v /\ v < x}
    OBVIOUS
  <2>2. \A x : few(x) <=> Cardinality({v \in Urls : Stale(v) /\ cursor < v /\ v < x}) < BatchSize
    BY <2>1
  <2> HIDE DEF few
  <2>3. urls = {x \in Urls : Stale(x) /\ x > cursor
                  /\ Cardinality({v \in Urls : Stale(v) /\ cursor < v /\ v < x}) < BatchSize}
    BY <1>1, <2>2
  <2> HIDE DEF urls
  <2> QED
    BY <2>3 DEF stale_batch
<1> HIDE DEF behind
<1>4. urls = {x \in behind : Cardinality({v \in behind : v < x}) < BatchSize}
  OBVIOUS
<1> HIDE DEF urls
<1>5. u \notin urls /\ (batch' = {} => urls = {}) /\ \A r \in batch' : r.url \in urls
  <2>1. batch' = {[url |-> v, md |-> pages[v].md] : v \in urls}
    BY <1>3 DEF RowsOf
  <2>2. \A v \in urls : [url |-> v, md |-> pages[v].md].url = v
    OBVIOUS
  <2>3. \A v \in urls : \E r \in batch' : r.url = v
    BY <2>1, <2>2
  <2>4. \A r \in batch' : \E v \in urls : r.url = v
    BY <2>1, <2>2
  <2> QED
    BY <2>3, <2>4
<1>6. PICK S : S = behind
  OBVIOUS
<1>7. PICK first : first = urls
  OBVIOUS
<1>8. first # {} /\ \A x \in first : u > x
  BY <1>1, <1>2, <1>4, <1>5, <1>6, <1>7, FirstFew
<1> QED
  BY <1>5, <1>7, <1>8

\* The cursor starts before the first URL.
LEMMA StartReaches ==
  ASSUME StoreInv, Reaching, ReindexStart
  PROVE  Reaching'
<1>1. /\ up /\ up' = up /\ cursor' = 0 /\ failed' = {} /\ batch = {} /\ batch' = batch
      /\ UNCHANGED <<pages, job>> /\ ~Busy(Reindex) /\ phase' \in {"batch", "done"}
      /\ phase' = "done" => \A u \in Urls : ~Stale(u)
  BY DEF ReindexStart, Reaching
<1>2. ~Busy(Reindex)'
  BY <1>1 DEF Busy, Reindex
<1>3. \A u \in Urls : u > 0
  BY PageStoreAssumption
<1>4. \A u \in Urls : Left(u)' => Stale(u)
  BY <1>1 DEF Left, Stored, Stale
<1> QED
  BY <1>1, <1>2, <1>3, <1>4 DEF Reaching

\* A batch holds the first old rows behind the cursor, or there are none.
LEMMA ReadReaches ==
  ASSUME StoreInv, Reaching, ReadBatch
  PROVE  Reaching'
<1>1. /\ phase = "batch" /\ batch = {} /\ batch' = stale_batch
      /\ phase' = IF batch' = {} THEN "done" ELSE "batch"
      /\ UNCHANGED <<pages, job, up, cursor, failed>>
  BY DEF ReadBatch
<1>2. cursor \in Nat /\ up /\ Batched = {}
  BY <1>1 DEF Reaching, Batched
<1>3. ~Busy(Reindex) /\ ~Busy(Reindex)'
  BY <1>1, <1>2 DEF Reaching, Busy, Reindex
<1>4. ASSUME NEW u \in Urls, Left(u)'
      PROVE  /\ u > cursor /\ batch' # {}
             /\ u \in Batched' \/ \A r \in batch' : u > r.url
  <2>1. Left(u) /\ u \in Stored /\ pages[u].model # Model
    BY <1>1, <1>4 DEF Left, Stored
  <2>2. u > cursor
    BY <1>1, <1>2, <2>1 DEF Reaching
  <2>3. CASE u \in {r.url : r \in batch'}
    BY <2>2, <2>3 DEF Batched
  <2>4. CASE u \notin {r.url : r \in batch'}
    BY <1>1, <1>2, <2>1, <2>2, <2>4, BatchIsFirst
  <2> QED
    BY <2>3, <2>4
<1> QED
  BY <1>1, <1>2, <1>3, <1>4 DEF Reaching

\* A row that is taken for re-embedding is still on the list of the batch.
LEMMA ReembedReaches ==
  ASSUME StoreInv, Reaching, Reembed
  PROVE  Reaching'
<1>1. PICK row \in batch :
        job' = [job EXCEPT ![Reindex] = [stage |-> "check", process |-> None, key |-> 0,
                                                   url |-> Canonical[row.url], md |-> row.md, form |-> row.url]]
  BY DEF Reembed
<1>2. phase = "batch" /\ UNCHANGED <<pages, up, phase, cursor, batch, failed>>
  BY DEF Reembed, NoTools, toolVars, mergeVars
<1>3. /\ job'[Reindex].form = row.url /\ job'[Reindex].url = Canonical[row.url]
  BY <1>1 DEF StoreInv, Shapes, Writers, Idle
<1>4. Batched' = Batched /\ row.url \in Batched
  BY <1>2 DEF Batched
<1>5. \A u : Left(u)' <=> Left(u)
  BY <1>2 DEF Left, Stored
<1>6. job[Reindex]' = job'[Reindex]
  BY DEF Reindex
<1> QED
  BY <1>2, <1>3, <1>4, <1>5, <1>6 DEF Reaching

\* A page leaves the batch when it is not left any more, and the last one takes
\* the cursor along.
LEMMA NextReaches ==
  ASSUME StoreInv, Reaching, NextRow, NoneAges, Busy(Reindex), UNCHANGED up,
         failed \subseteq failed', NEW f, f = job[Reindex].form, ~Left(f)'
  PROVE  Reaching'
<1> DEFINE form == job[Reindex].form
<1>1. /\ phase = "batch" /\ up /\ form \in Batched /\ cursor \in Nat
      /\ \A u \in Urls : Left(u) => \/ u \in Batched
                                    \/ u > cursor /\ \A r \in batch : u > r.url
  BY DEF Reaching
<1>2. /\ UNCHANGED <<up, phase>> /\ batch' = {r \in batch : r.url # form}
      /\ cursor' = IF batch' = {} THEN form ELSE cursor
      /\ job' = [job EXCEPT ![Reindex] = Idle]
  BY DEF NextRow
<1>3. ~Busy(Reindex)'
  BY <1>2 DEF Busy, Reindex, Idle, StoreInv, Shapes, Writers
<1>4. \A u : Left(u)' => Left(u)
  BY DEF Left, NoneAges
<1>5. PICK k \in batch : k.url = form
  BY <1>1 DEF Batched
<1>6. form \in Urls /\ form \in Nat
  BY <1>5, PageStoreAssumption DEF StoreInv, Shapes
<1>9. ASSUME NEW u \in Urls, Left(u)'
      PROVE  u \in Batched' \/ (u > cursor' /\ \A r \in batch' : u > r.url)
  <2>1. Left(u) /\ u # f
    BY <1>4, <1>9
  <2>2. CASE u \in Batched
    <3>1. PICK r \in batch : r.url = u
      BY <2>2 DEF Batched
    <3>2. r \in batch'
      BY <1>2, <2>1, <3>1
    <3> QED
      BY <3>1, <3>2 DEF Batched
  <2>3. CASE u > cursor /\ \A r \in batch : u > r.url
    <3>1. u > form
      BY <1>5, <2>3
    <3> QED
      BY <1>2, <2>3, <3>1
  <2> QED
    BY <1>1, <2>1, <2>2, <2>3
<1> QED
  BY <1>1, <1>2, <1>3, <1>6, <1>9 DEF Reaching

\* What the tool does to a page: afterwards the page is of the model of now, or
\* failed, or stored under another URL.
LEMMA ToolReaches ==
  ASSUME StoreInv, Reaching, Check(Reindex) \/ Commit(Reindex) \/ StoreFails(Reindex)
  PROVE  Reaching'
<1>1. Busy(Reindex) /\ Reindex \in Writers /\ UNCHANGED up /\ NoneAges
  BY CrawlsAgeNothing DEF Check, Commit, StoreFails, Busy, Writers
<1>2. PICK f : f = job[Reindex].form
  OBVIOUS
<1>3. /\ phase = "batch" /\ f \in Urls /\ job[Reindex].url = Canonical[f]
  BY <1>1, <1>2 DEF Reaching, Batched, StoreInv, Shapes
<1>4. CASE Check(Reindex)
  <2>1. UNCHANGED <<pages, failed>>
    BY <1>4 DEF Check, NoTools, toolVars, mergeVars
  <2>2. CASE Unchanged(pages[job[Reindex].url], job[Reindex].md)
    <3>1. NextRow /\ (Canonical[f] = f => pages[f].model = Model)
      BY <1>3, <1>4, <2>2 DEF Check, Unchanged
    <3>2. ~Left(f)'
      BY <2>1, <3>1 DEF Left
    <3> QED
      BY <1>1, <1>2, <2>1, <3>1, <3>2, NextReaches
  <2>3. CASE ~Unchanged(pages[job[Reindex].url], job[Reindex].md)
    <3>1. Stage(Reindex, "embed") /\ UNCHANGED <<up, phase, cursor, batch, failed>>
      BY <1>4, <2>3 DEF Check, NoTools, toolVars, mergeVars
    <3>2. /\ job'[Reindex].form = job[Reindex].form /\ job'[Reindex].url = job[Reindex].url
      BY <1>1, <3>1 DEF Stage, StoreInv, Shapes, AnyJob
    <3>3. Batched' = Batched /\ job[Reindex]' = job'[Reindex]
      BY <3>1 DEF Batched, Reindex
    <3>4. \A u : Left(u)' => Left(u)
      BY <1>1, <3>1 DEF Left, NoneAges
    <3> QED
      BY <1>1, <3>1, <3>2, <3>3, <3>4 DEF Reaching
  <2> QED
    BY <2>2, <2>3
<1>5. CASE StoreFails(Reindex)
  <2>1. NextRow /\ failed' = failed \cup {f}
    BY <1>2, <1>5 DEF StoreFails
  <2>2. ~Left(f)'
    BY <2>1 DEF Left
  <2> QED
    BY <1>1, <1>2, <2>1, <2>2, NextReaches
<1>6. CASE Commit(Reindex)
  <2> DEFINE old == IF pages[job[Reindex].url] = None
                    THEN [md |-> -1, last |-> 0, by |-> "reembed"] ELSE pages[job[Reindex].url]
             row == [md |-> job[Reindex].md, model |-> Model, last |-> old.last,
                     by |-> IF old.md = job[Reindex].md THEN old.by ELSE "reembed"]
  <2>1. NextRow /\ UNCHANGED failed
    BY <1>6 DEF Commit
  <2>2. pages' = [pages EXCEPT ![job[Reindex].url] = row] /\ row.model = Model
    BY <1>6 DEF Commit, Upsert, Put, recut
  <2> HIDE DEF row
  <2>3. Canonical[f] = f => pages'[f].model = Model
    BY <1>3, <2>2 DEF StoreInv, Shapes, Pages
  <2>4. ~Left(f)'
    BY <2>3 DEF Left
  <2> QED
    BY <1>1, <1>2, <2>1, <2>4, NextReaches
<1> QED
  BY <1>4, <1>5, <1>6

\* Steps after which the tool does not run.
LEMMA AwayReaches ==
  ASSUME StoreInv, ToolInside, MergeInv, Reaching,
         \/ Stop \/ Start \/ ReindexEnd \/ UNCHANGED vars
         \/ MergeRead \/ MergeGroup \/ MergeEnd \/ MergeFails
  PROVE  Reaching'
<1>1. CASE UNCHANGED vars
  <2>1. UNCHANGED <<pages, job, up, phase, cursor, batch, failed>>
    BY <1>1 DEF vars, toolVars, mergeVars
  <2>2. NoneAges
    BY <2>1 DEF NoneAges, Stored
  <2> QED
    BY <2>1, <2>2, OthersReach
<1>2. CASE Stop
  <2>1. /\ phase' = "idle" /\ cursor' = 0 /\ batch' = {}
        /\ job' = [w \in Writers |-> Idle] /\ Reindex \in Writers
    BY <1>2 DEF Stop, Writers
  <2>2. ~Busy(Reindex)'
    BY <2>1 DEF Busy, Idle, Reindex
  <2> QED
    BY <2>1, <2>2 DEF Reaching
<1>3. CASE ReindexEnd
  <2>1. phase = "done" /\ phase' = "idle" /\ cursor' = 0 /\ UNCHANGED <<job, batch>>
    BY <1>3 DEF ReindexEnd
  <2>2. ~Busy(Reindex) /\ batch = {} /\ (Busy(Reindex)' <=> Busy(Reindex))
    BY <2>1 DEF Reaching, Busy, Reindex
  <2> QED
    BY <2>1, <2>2 DEF Reaching
<1>4. CASE Start \/ MergeRead \/ MergeGroup \/ MergeEnd \/ MergeFails
  <2>1. ~up /\ phase = "idle" /\ UNCHANGED <<phase, cursor, batch, job>>
    BY <1>4 DEF Start, MergeRead, MergeGroup, MergeEnd, MergeFails, Away, MergeInv, ToolInside
  <2>2. ~Busy(Reindex) /\ batch = {} /\ (Busy(Reindex)' <=> Busy(Reindex))
    BY <2>1 DEF Reaching, Busy, Reindex
  <2> QED
    BY <2>1, <2>2 DEF Reaching
<1> QED
  BY <1>1, <1>2, <1>3, <1>4

\* Every step keeps the old rows in front of the tool.
LEMMA ReachingStep ==
  ASSUME StoreInv, ToolInside, MergeInv, Reaching, Next
  PROVE  Reaching'
<1>1. CASE \/ \E u \in Finals : SiteChanges(u)
           \/ \E u \in Urls : Delete(u)
           \/ \E c \in Crawls : \/ Crawl(c) \/ Stamp(c) \/ CrawlDone(c)
                                \/ Check(c) \/ Commit(c) \/ StoreFails(c)
  BY <1>1, OutsidersReach
<1>2. CASE Check(Reindex) \/ Commit(Reindex) \/ StoreFails(Reindex)
  BY <1>2, ToolReaches
<1>3. CASE ReindexStart \/ ReadBatch \/ Reembed
  BY <1>3, StartReaches, ReadReaches, ReembedReaches
<1>4. CASE ReindexEnd \/ Stop \/ Start \/ MergeRead \/ MergeGroup \/ MergeEnd \/ MergeFails
  BY <1>4, AwayReaches
<1> QED
  BY <1>1, <1>2, <1>3, <1>4 DEF Next, Writers

\* A run of the re-embedding that ends by itself has reached every page that
\* was of an earlier model (reindex.py:132), but those it counts as failed and
\* those whose URL is not canonical, whatever else was stored, crawled, deleted
\* or renamed while it went through the table.
THEOREM ReindexReaches == Spec => []ReindexReachesAll
<1>1. Reaching => ReindexReachesAll
  BY DEF Reaching, ReindexReachesAll, Left, Stored
<1>2. StoreKept /\ Reaching /\ [Next]_vars => Reaching'
  BY ReachingStep, AwayReaches DEF StoreKept
<1> QED
  BY <1>1, <1>2, ReachingInit, StoreAlways, PTL DEF Spec

---------------------------------------------------------------------------
(* The types.                                                              *)

\* What is stored, or on its way to be, is no version beyond the last that the
\* sites serve, and the tool goes through URLs of the table.
Known ==
  /\ \A u \in Urls : pages[u] # None =>
       pages[u].md <= MaxVersion /\ pages[u].last <= MaxVersion
  /\ \A u \in Finals : site[u] \in 1 .. MaxVersion
  /\ \A w \in Writers : job[w].md <= MaxVersion
  /\ \A r \in batch : r.md <= MaxVersion
  /\ cursor \in Urls \cup {0} /\ failed \subseteq Urls /\ force \in BOOLEAN
  /\ merge \in {"idle", "running", "refused"} /\ plan \subseteq Urls

\* The last version is one of those the sites serve.
LEMMA LastVersion ==
  MaxVersion \in Nat \ {0} /\ \A u \in Finals : Versions[u] <= MaxVersion
<1> DEFINE last(n) == n \in {Versions[u] : u \in Finals} /\ \A u \in Finals : n >= Versions[u]
<1>1. \E n : last(n)
  BY VersionsAssumption
<1>2. MaxVersion = CHOOSE n : last(n)
  BY DEF MaxVersion
<1>3. last(MaxVersion)
  BY <1>1, <1>2
<1> QED
  BY <1>3, VersionsAssumption

\* So are the rows of the table at the start.
LEMMA KnownInit == Init => Known
<1> SUFFICES ASSUME Init PROVE Known
  OBVIOUS
<1>1. MaxVersion \in Nat \ {0}
  BY LastVersion
<1>2. ASSUME NEW u \in Urls, pages[u] # None
      PROVE  pages[u].md <= MaxVersion /\ pages[u].last <= MaxVersion
  <2>1. pages[u] \in AnyRow /\ pages[u].last <= pages[u].md /\ pages[u].md <= MaxVersion
    BY <1>2, TablesAssumption, VersionsAssumption DEF Init
  <2> QED
    BY <1>1, <2>1 DEF AnyRow
<1>3. /\ \A u \in Finals : site[u] \in 1 .. MaxVersion
      /\ \A w \in Writers : job[w].md <= MaxVersion
  BY <1>1 DEF Init, Idle
<1> QED
  BY <1>2, <1>3 DEF Init, Known

\* What a page is made of: the next version, or one the table or a job holds.
LEMMA WritesKnown ==
  ASSUME StoreInv, Known, Reaching,
         \/ \E u \in Finals : SiteChanges(u)
         \/ \E u \in Urls : Delete(u)
         \/ \E c \in Crawls : Crawl(c) \/ Stamp(c) \/ CrawlDone(c)
  PROVE  Known'
<1>0. /\ MaxVersion \in Nat \ {0} /\ \A u \in Finals : Versions[u] <= MaxVersion
      /\ pages \in [Urls -> AnyRow \cup {None}] /\ job \in [Writers -> AnyJob]
      /\ site \in [Finals -> Nat] /\ Crawls \subseteq Writers
  BY LastVersion DEF StoreInv, Shapes, Pages, Writers
<1>1. UNCHANGED <<batch, cursor, failed, force, merge, plan>>
  BY DEF SiteChanges, Delete, Crawl, Stamp, CrawlDone, NoTools, toolVars, mergeVars
<1>2. ASSUME NEW u \in Finals, SiteChanges(u) PROVE Known'
  <2>1. site[u] < Versions[u] /\ site' = [site EXCEPT ![u] = site[u] + 1] /\ UNCHANGED <<pages, job>>
    BY <1>2 DEF SiteChanges
  <2>2. Versions[u] \in Nat /\ site[u] \in 1 .. MaxVersion
    BY VersionsAssumption DEF Known
  <2>3. site[u] + 1 \in 1 .. MaxVersion
    BY <1>0, <2>1, <2>2
  <2>4. \A v \in Finals : site'[v] \in 1 .. MaxVersion
    BY <1>0, <2>1, <2>3 DEF Known
  <2> QED
    BY <1>1, <2>1, <2>4 DEF Known
<1>3. ASSUME NEW c \in Crawls, Crawl(c) PROVE Known'
  <2>1. PICK form \in Urls, p \in Processes :
          LET key == KeyOf(form) IN
          job' = [job EXCEPT ![c] = [stage |-> "check", process |-> p, key |-> key,
                                     url |-> Home(key), md |-> site[Canonical[key]],
                                     form |-> Canonical[form]]]
    BY <1>3 DEF Crawl
  <2>2. UNCHANGED <<pages, site>>
    BY <1>3 DEF Crawl
  <2>3. site[Canonical[KeyOf(form)]] <= MaxVersion
    BY <1>0, KeyFacts DEF Known
  <2>4. \A w \in Writers : job'[w].md <= MaxVersion
    BY <1>0, <2>1, <2>3 DEF Known
  <2> QED
    BY <1>1, <2>2, <2>4 DEF Known
<1>4. ASSUME NEW c \in Crawls, Stamp(c) PROVE Known'
  <2>1. /\ \A w \in Writers : job'[w].md = job[w].md
        /\ \A u \in Urls : pages'[u] # None =>
             /\ pages[u] # None /\ pages'[u].md = pages[u].md
             /\ pages'[u].last \in {pages[u].last, job[c].md}
        /\ UNCHANGED site
    BY <1>0, <1>4 DEF Stamp, Stage, AnyRow
  <2> QED
    BY <1>0, <1>1, <2>1 DEF Known
<1>5. ASSUME \/ \E u \in Urls : Delete(u)
             \/ \E c \in Crawls : CrawlDone(c)
      PROVE  Known'
  <2>1. /\ \A w \in Writers : job'[w].md \in {job[w].md, 0}
        /\ \A u \in Urls : pages'[u] \in {pages[u], None}
        /\ UNCHANGED site
    BY <1>0, <1>5 DEF Delete, CrawlDone, Drop, Idle
  <2> QED
    BY <1>0, <1>1, <2>1 DEF Known
<1> QED
  BY <1>2, <1>3, <1>4, <1>5

\* The end of a page in its batch.
LEMMA NextKnown ==
  ASSUME StoreInv, Known, Reaching, Busy(Reindex), NextRow
  PROVE  /\ \A w \in Writers : job'[w].md \in {job[w].md, 0}
         /\ batch' \subseteq batch /\ cursor' \in Urls \cup {0}
         /\ UNCHANGED <<force, merge, plan>>
         /\ job[Reindex].form \in Urls
<1>1. job[Reindex].form \in Urls
  BY DEF Reaching, Batched, StoreInv, Shapes
<1> QED
  BY <1>1 DEF NextRow, mergeVars, Idle, Known, StoreInv, Shapes

\* A row that is written holds what its job does, and no later crawl.
LEMMA UpsertKnown ==
  ASSUME StoreInv, Known, NEW w \in Writers, Upsert(w)
  PROVE  \A u \in Urls : pages'[u] # None =>
           pages'[u].md <= MaxVersion /\ pages'[u].last <= MaxVersion
<1> DEFINE url == job[w].url
           old == IF pages[url] = None THEN [md |-> -1, last |-> 0, by |-> "reembed"] ELSE pages[url]
           row == [md |-> job[w].md, model |-> Model,
                   last |-> IF w = Reindex THEN old.last ELSE job[w].md,
                   by |-> IF w # Reindex THEN "crawl"
                          ELSE IF old.md = job[w].md THEN old.by ELSE "reembed"]
<1>0. MaxVersion \in Nat \ {0} /\ pages \in [Urls -> AnyRow \cup {None}]
  BY LastVersion DEF StoreInv, Shapes, Pages
<1>1. pages' = [pages EXCEPT ![url] = row]
  BY DEF Upsert, Put
<1>2. job[w].md <= MaxVersion
  BY DEF Known
<1>3. url \in Urls => old.last <= MaxVersion
  BY <1>0 DEF Known
<1> HIDE DEF old
<1>4. url \in Urls => row.md <= MaxVersion /\ row.last <= MaxVersion
  BY <1>2, <1>3
<1> HIDE DEF url, row
<1>5. \A u \in Urls : pages'[u] = IF u = url THEN row ELSE pages[u]
  BY <1>0, <1>1
<1> QED
  BY <1>4, <1>5 DEF Known

\* The statements of store_page.
LEMMA StoreKnown ==
  ASSUME StoreInv, Known, Reaching, NEW w \in Writers, Check(w) \/ Commit(w) \/ StoreFails(w)
  PROVE  Known'
<1>0. /\ MaxVersion \in Nat \ {0} /\ pages \in [Urls -> AnyRow \cup {None}]
      /\ job \in [Writers -> AnyJob] /\ None \notin AnyRow
  BY LastVersion, TablesAssumption DEF StoreInv, Shapes, Pages
<1>1. w = Reindex => Busy(Reindex)
  BY DEF Check, Commit, StoreFails, Busy
<1>2. UNCHANGED site
  BY DEF Check, Commit, StoreFails
<1>3. CASE NextRow /\ w = Reindex
  <2>1. /\ \A x \in Writers : job'[x].md \in {job[x].md, 0}
        /\ batch' \subseteq batch /\ cursor' \in Urls \cup {0}
         /\ UNCHANGED <<force, merge, plan>>
        /\ job[Reindex].form \in Urls
    BY <1>1, <1>3, NextKnown
  <2>2. failed' \subseteq Urls
    BY <1>3, <2>1 DEF Check, Commit, StoreFails, NoTools, toolVars, mergeVars, Known
  <2>3. \A u \in Urls : pages'[u] # None =>
          pages'[u].md <= MaxVersion /\ pages'[u].last <= MaxVersion
    <3>1. CASE UNCHANGED pages
      BY <3>1 DEF Known
    <3>2. Upsert(w) => \A u \in Urls : pages'[u] # None =>
             pages'[u].md <= MaxVersion /\ pages'[u].last <= MaxVersion
      BY UpsertKnown
    <3> QED
      BY <3>1, <3>2 DEF Check, Commit, StoreFails
  <2> QED
    BY <1>0, <1>2, <2>1, <2>2, <2>3 DEF Known
<1>4. CASE NoTools
  <2>1. UNCHANGED <<batch, cursor, failed, force, merge, plan>>
    BY <1>4 DEF NoTools, toolVars, mergeVars
  <2>2. \A x \in Writers : job'[x].md \in {job[x].md, 0}
    <3>1. \/ job' = [job EXCEPT ![w] = Idle] \/ job' = [job EXCEPT ![Reindex] = Idle]
          \/ \E stage : job' = [job EXCEPT ![w].stage = stage]
      BY DEF Check, Commit, StoreFails, Stage, NextRow
    <3>2. Idle.md = 0
      BY DEF Idle
    <3> QED
      BY <1>0, <3>1, <3>2 DEF AnyJob
  <2>3. \A u \in Urls : pages'[u] # None =>
          pages'[u].md <= MaxVersion /\ pages'[u].last <= MaxVersion
    <3>1. CASE UNCHANGED pages
      BY <3>1 DEF Known
    <3>2. Upsert(w) => \A u \in Urls : pages'[u] # None =>
             pages'[u].md <= MaxVersion /\ pages'[u].last <= MaxVersion
      BY UpsertKnown
    <3> QED
      BY <3>1, <3>2 DEF Check, Commit, StoreFails
  <2> QED
    BY <1>0, <1>2, <2>1, <2>2, <2>3 DEF Known
<1> QED
  BY <1>3, <1>4 DEF Check, Commit, StoreFails

\* The tools and the life of the service.
LEMMA ToolsKnown ==
  ASSUME StoreInv, Known,
         \/ ReindexStart \/ ReadBatch \/ Reembed \/ ReindexEnd \/ Stop \/ Start
         \/ MergeRead \/ MergeGroup \/ MergeFails
  PROVE  Known'
<1>0. /\ MaxVersion \in Nat \ {0} /\ job \in [Writers -> AnyJob]
      /\ UNCHANGED <<pages, site>>
  <2>1. UNCHANGED <<pages, site>>
    BY DEF ReindexStart, ReadBatch, Reembed, ReindexEnd, Stop, Start, MergeRead, MergeGroup,
           MergeFails, Rollback, Away
  <2> QED
    BY <2>1, LastVersion DEF StoreInv, Shapes
<1>1. \A r \in stale_batch : r.md <= MaxVersion
  <2> DEFINE near(u) == u > cursor
                /\ Cardinality({v \in Urls : Stale(v) /\ cursor < v /\ v < u}) < BatchSize
             urls == {u \in Urls : Stale(u) /\ near(u)}
  <2>1. stale_batch = RowsOf(urls)
    BY DEF stale_batch
  <2> HIDE DEF near
  <2>2. urls \subseteq Stored
    BY DEF Stale
  <2> HIDE DEF urls
  <2> QED
    BY <2>1, <2>2 DEF RowsOf, Stored, Known
<1>2. CASE ReindexStart \/ ReadBatch \/ ReindexEnd \/ Start \/ MergeRead \/ MergeGroup \/ MergeFails
  <2>1. /\ UNCHANGED job /\ batch' \in {batch, stale_batch} /\ cursor' \in {cursor, 0}
        /\ failed' \in {failed, {}} /\ force' \in BOOLEAN
    BY <1>2 DEF ReindexStart, ReadBatch, ReindexEnd, Start, MergeRead, MergeGroup, MergeFails, Away,
                Known
  <2>2. merge' \in {"idle", "running", "refused"} /\ plan' \subseteq Urls
    BY <1>2 DEF ReindexStart, ReadBatch, ReindexEnd, Start, MergeRead, MergeGroup, MergeFails,
                Rollback, pending, mergeVars, Known
  <2> QED
    BY <1>0, <1>1, <2>1, <2>2 DEF Known
<1>3. CASE Stop
  <2>1. UNCHANGED <<merge, plan>>
    BY <1>3 DEF Stop, mergeVars
  <2>2. /\ \A w \in Writers : job'[w].md = 0
        /\ cursor' = 0 /\ failed' = {} /\ batch' = {} /\ force' = FALSE
    BY <1>3 DEF Stop, Idle
  <2>3. \A w \in Writers : job'[w].md <= MaxVersion
    BY <1>0, <2>2
  <2>4. UNCHANGED <<pages, site>>
    BY <1>0
  <2> QED
    BY <2>1, <2>2, <2>3, <2>4 DEF Known
<1>4. CASE Reembed
  <2>1. PICK row \in batch :
          job' = [job EXCEPT ![Reindex] = [stage |-> "check", process |-> None, key |-> 0,
                                                     url |-> Canonical[row.url], md |-> row.md, form |-> row.url]]
    BY <1>4 DEF Reembed
  <2>2. UNCHANGED <<batch, cursor, failed, force, merge, plan>>
    BY <1>4 DEF Reembed, NoTools, toolVars, mergeVars
  <2>3. \A w \in Writers : job'[w].md \in {job[w].md, row.md}
    BY <1>0, <2>1 DEF Idle
  <2> QED
    BY <1>0, <2>2, <2>3 DEF Known
<1> QED
  BY <1>2, <1>3, <1>4

\* A merge makes no row of its own.
LEMMA MergeKnown ==
  ASSUME StoreInv, MergeInv, Known, MergeEnd
  PROVE  Known'
<1>1. UNCHANGED <<site, job, batch, cursor, failed, force>>
  BY DEF MergeEnd, Away
<1>2. \A u \in Urls : pages'[u] = None \/ \E v \in Urls : pages'[u] = pages[v]
  BY MergeEndMoves, GroupFacts
<1>3. merge' \in {"idle", "refused"} /\ plan' = {}
  BY DEF MergeEnd, Rollback
<1> QED
  BY <1>1, <1>2, <1>3 DEF Known

\* Every step keeps what is known.
LEMMA KnownStep ==
  ASSUME StoreInv, MergeInv, Reaching, Known, [Next]_vars
  PROVE  Known'
<1>1. CASE Next
  BY <1>1, WritesKnown, StoreKnown, ToolsKnown, MergeKnown DEF Next
<1>2. CASE UNCHANGED vars
  BY <1>2 DEF vars, toolVars, mergeVars, Known
<1> QED
  BY <1>1, <1>2

\* Rows, jobs and tools keep their shape for any tables and sites (index.py:62,
\* reindex.py:104, merge_dupes.py:110): the tool re-embeds only while the
\* service runs and a page of its batch at a time, a merge is under way only
\* while it is stopped, and no page holds a version beyond the last there is.
THEOREM StoreTypeCorrect == Spec => []TypeOK
<1>1. StoreKept /\ Reaching /\ Known => TypeOK
  <2> SUFFICES ASSUME StoreInv, ToolInside, Reaching, MergeInv, Known PROVE TypeOK
    BY DEF StoreKept
  <2>0. /\ MaxVersion \in Nat \ {0} /\ None \notin AnyRow
    BY LastVersion, TablesAssumption
  <2>1. \A u \in Urls : pages[u] # None => pages[u] \in Row
    <3>1. \A u \in Urls : pages[u] # None => /\ pages[u] \in AnyRow
                                             /\ pages[u].md \in 0 .. MaxVersion
                                             /\ pages[u].last \in 0 .. MaxVersion
      BY <2>0 DEF StoreInv, Shapes, Pages, Known, AnyRow
    <3> QED
      BY <3>1 DEF AnyRow, Row, Model
  <2>2. pages \in [Urls -> Row \cup {None}]
    BY <2>1 DEF StoreInv, Shapes, Pages
  <2>3. chunks \in [Urls -> [md : 0 .. MaxVersion, model : {"old", Model}] \cup {None}]
    <3>1. \A u \in Urls : pages[u] # None =>
            ChunksOf(pages[u]) \in [md : 0 .. MaxVersion, model : {"old", Model}]
      BY <2>1 DEF ChunksOf, Row
    <3> QED
      BY <3>1 DEF StoreInv, Shapes, Chunks, ChunksMatchPage
  <2>4. site \in [Finals -> 1 .. MaxVersion]
    BY DEF StoreInv, Shapes, Known
  <2>5. \A w \in Writers : job[w] \in Job
    <3>1. \A w \in Writers : job[w] \in AnyJob /\ job[w].md \in 0 .. MaxVersion
      BY <2>0 DEF StoreInv, Shapes, Known, AnyJob
    <3> QED
      BY <3>1 DEF AnyJob, Job
  <2>6. job \in [Writers -> Job]
    BY <2>5 DEF StoreInv, Shapes
  <2>7. job[Reindex].stage # "idle" => job[Reindex].form \in {r.url : r \in batch}
    BY DEF Reaching, Busy, Batched
  <2>8. /\ phase \in {"idle", "batch", "done"} /\ cursor \in Urls \cup {0} /\ failed \subseteq Urls
        /\ merge \in {"idle", "running", "refused"} /\ plan \subseteq Urls
        /\ (merge = "running" => ~up) /\ (phase # "idle" => up) /\ {up, force, tidy} \subseteq BOOLEAN
    BY DEF Reaching, ToolInside, MergeInv, Known, StoreInv, Shapes
  <2> QED
    BY <2>2, <2>3, <2>4, <2>6, <2>7, <2>8 DEF TypeOK
<1>2. StoreKept /\ Reaching /\ [Next]_vars => Reaching'
  BY ReachingStep, AwayReaches DEF StoreKept
<1>3. StoreKept /\ Reaching /\ Known /\ [Next]_vars => Known'
  BY KnownStep DEF StoreKept
<1> QED
  BY <1>1, <1>2, <1>3, ReachingInit, KnownInit, StoreAlways, PTL DEF Spec

---------------------------------------------------------------------------
(***************************************************************************)
(* The chunks of a page.                                                   *)
(***************************************************************************)
\* The lines of a page, and what the chunker remembers.
Line  == [kind : Kinds, len : Nat, at : Nat]
Scans == [chunks : Seq(Seq(Line)), current : Seq(Line), tokens : Nat, fence : {""} \cup Fences]

\* out is what text holds from its first line that is not blank to its last.
Between(text, a, b, out) ==
  /\ out = SubSeq(text, a, b) /\ Solid(text[a]) /\ Solid(text[b])
  /\ \A i \in 1 .. Len(text) : Solid(text[i]) => a <= i /\ i <= b
AllBlank(text) == \A i \in 1 .. Len(text) : ~ Solid(text[i])

\* What strip drops.
LEMMA StripFacts ==
  ASSUME NEW text \in Seq(Line), NEW n, n = Len(text)
  PROVE  \/ AllBlank(text) /\ Strip(text) = <<>>
         \/ \E a \in 1 .. n : \E b \in a .. n : Between(text, a, b, Strip(text))
<1>1. n \in Nat /\ DOMAIN text = 1 .. n
  OBVIOUS
<1>2. PICK S : S = {i \in DOMAIN text : text[i].kind # "blank"}
  OBVIOUS
<1>3. S \in SUBSET (1 .. n) /\ \A i \in 1 .. n : Solid(text[i]) <=> i \in S
  BY ONLY <1>1, <1>2 DEF Solid
<1>4. CASE S = {}
  <2>1. Strip(text) = <<>>  BY <1>2, <1>4 DEF Strip
  <2>2. AllBlank(text)  BY <1>3, <1>4 DEF AllBlank
  <2>3. QED  BY <2>1, <2>2
<1>5. CASE S # {}
  <2>1. PICK a : a = CHOOSE i \in S : \A j \in S : i <= j
    OBVIOUS
  <2>2. PICK b : b = CHOOSE i \in S : \A j \in S : i >= j
    OBVIOUS
  <2>3. a \in S /\ \A j \in S : a <= j
    <3>1. \E i \in S : \A j \in S : i <= j  BY <1>1, <1>3, <1>5, FirstExists
    <3>2. QED  BY ONLY <2>1, <3>1
  <2>4. b \in S /\ \A j \in S : b >= j
    <3>1. \E i \in S : \A j \in S : i >= j  BY <1>1, <1>3, <1>5, LastExists
    <3>2. QED  BY ONLY <2>2, <3>1
  <2>5. Strip(text) = SubSeq(text, a, b)
    BY <1>2, <1>5, <2>1, <2>2 DEF Strip
  <2>6. a \in 1 .. n /\ b \in a .. n  BY ONLY <1>1, <1>3, <2>3, <2>4
  <2>7. Between(text, a, b, Strip(text))
    <3>1. \A i \in S : a <= i /\ i <= b  BY ONLY <1>1, <1>3, <2>3, <2>4
    <3>2. QED  BY <1>3, <2>3, <2>4, <2>5, <3>1 DEF Between
  <2>8. QED  BY <2>6, <2>7
<1>6. QED  BY <1>4, <1>5

\* Strip keeps a list of lines one.
LEMMA StripTyped == \A text \in Seq(Line) : Strip(text) \in Seq(Line)
<1> SUFFICES ASSUME NEW text \in Seq(Line)  PROVE Strip(text) \in Seq(Line)
  OBVIOUS
<1>1. PICK n \in Nat : n = Len(text)
  OBVIOUS
<1>2. CASE Strip(text) = <<>>  BY <1>2
<1>3. ASSUME NEW a \in 1 .. n, NEW b \in a .. n, Between(text, a, b, Strip(text))
      PROVE  Strip(text) \in Seq(Line)
  <2>1. a \in Nat \ {0} /\ b \in Nat /\ a <= b + 1 /\ b <= Len(text)  BY ONLY <1>1, <1>3
  <2>2. SubSeq(text, a, b) \in Seq(Line)  BY <2>1, PartFacts, Zenon
  <2>3. QED  BY ONLY <1>3, <2>2 DEF Between
<1>4. QED  BY <1>1, <1>2, <1>3, StripFacts

\* What flush and Take do to the state of a scan.
Flushed(s, t) ==
  /\ t.chunks = IF Strip(s.current) = <<>> THEN s.chunks ELSE Append(s.chunks, Strip(s.current))
  /\ t.current = <<>> /\ t.tokens = 0 /\ t.fence = s.fence
Taken(s, line, t) ==
  /\ t.chunks = s.chunks /\ t.current = Append(s.current, line)
  /\ t.tokens = s.tokens + Cost(line) /\ t.fence = s.fence

\* A cost is a positive number, and so is a length.
LEMMA CostTyped == \A line \in Line : Cost(line) \in Nat /\ Cost(line) >= 1 /\ line.len \in Nat
BY DEF Cost, Tokens, Line

\* A flush leaves the state of a scan.
LEMMA FlushTyped ==
  ASSUME NEW s \in Scans
  PROVE  flush(s) \in Scans /\ Flushed(s, flush(s))
<1>1. PICK part : part = Strip(s.current)
  OBVIOUS
<1>2. part \in Seq(Line)  BY <1>1, StripTyped DEF Scans
<1>3. Append(s.chunks, part) \in Seq(Seq(Line))
  <2>1. PICK T : T = Seq(Line)
    OBVIOUS
  <2>2. s.chunks \in Seq(T) /\ part \in T  BY <1>2, <2>1 DEF Scans
  <2>3. QED  BY ONLY <2>1, <2>2
<1>4. PICK list : list = IF part = <<>> THEN s.chunks ELSE Append(s.chunks, part)
  OBVIOUS
<1>5. list \in Seq(Seq(Line))
  <2>1. s.chunks \in Seq(Seq(Line))  BY DEF Scans
  <2>2. QED  BY ONLY <1>3, <1>4, <2>1
<1>6. flush(s) = [s EXCEPT !.chunks = list, !.current = <<>>, !.tokens = 0]
  BY ONLY <1>1, <1>4 DEF flush
<1>7. PICK none, no, L : none = <<>> /\ no = 0 /\ L = Seq(Line) /\ none \in L /\ no \in Nat
  <2>1. \A T : <<>> \in Seq(T)
    OBVIOUS
  <2>2. <<>> \in Seq(Line)  BY ONLY <2>1
  <2>3. QED  BY <2>2
<1>8. flush(s) = [s EXCEPT !.chunks = list, !.current = none, !.tokens = no]
  BY ONLY <1>6, <1>7
<1>9. s \in [chunks : Seq(L), current : L, tokens : Nat, fence : {""} \cup Fences]
  BY <1>7 DEF Scans
<1>10. list \in Seq(L)  BY ONLY <1>5, <1>7
<1>11. /\ flush(s) \in [chunks : Seq(L), current : L, tokens : Nat, fence : {""} \cup Fences]
       /\ flush(s).chunks = list /\ flush(s).current = none /\ flush(s).tokens = no
       /\ flush(s).fence = s.fence
  BY ONLY <1>7, <1>8, <1>9, <1>10
<1>12. QED  BY <1>1, <1>4, <1>7, <1>11 DEF Scans, Flushed

\* So does one line more.
LEMMA TakeTyped ==
  ASSUME NEW s \in Scans, NEW line \in Line
  PROVE  Take(s, line) \in Scans /\ Taken(s, line, Take(s, line))
<1>1. PICK text, n : text = Append(s.current, line) /\ n = s.tokens + Cost(line)
  OBVIOUS
<1>2. PICK L : L = Seq(Line)
  OBVIOUS
<1>3. s \in [chunks : Seq(L), current : L, tokens : Nat, fence : {""} \cup Fences]
  BY <1>2 DEF Scans
<1>4. text \in L
  <2>1. s.current \in Seq(Line)  BY ONLY <1>2, <1>3
  <2>2. QED  BY ONLY <1>1, <1>2, <2>1, line \in Line
<1>5. n \in Nat
  <2>1. s.tokens \in Nat  BY ONLY <1>3
  <2>2. Cost(line) \in Nat  BY CostTyped
  <2>3. QED  BY ONLY <1>1, <2>1, <2>2
<1>6. Take(s, line) = [s EXCEPT !.current = text, !.tokens = n]  BY ONLY <1>1 DEF Take
<1>7. /\ Take(s, line) \in [chunks : Seq(L), current : L, tokens : Nat, fence : {""} \cup Fences]
      /\ Take(s, line).chunks = s.chunks /\ Take(s, line).current = text
      /\ Take(s, line).tokens = n /\ Take(s, line).fence = s.fence
  BY ONLY <1>3, <1>4, <1>5, <1>6
<1>8. QED  BY <1>1, <1>2, <1>7 DEF Scans, Taken

\* What a line does: it goes to the current text, or starts it, and may open or
\* close a code block.
Opening(s, line) == s.fence = "" /\ line.kind \in Fences
Closing(s, line) == s.fence # "" /\ line.kind = s.fence
Flushes(s, line) ==
  s.fence = "" /\ (line.kind \in Fences \cup {"heading"} \/ s.tokens + Cost(line) > Budget)
Kept(s, line)    == IF Flushes(s, line) THEN flush(s) ELSE s
NextFence(s, line) ==
  IF Opening(s, line) THEN line.kind ELSE IF Closing(s, line) THEN "" ELSE s.fence
Added(s, line, t) ==
  /\ t.chunks = Kept(s, line).chunks
  /\ t.current = Append(Kept(s, line).current, line)
  /\ t.tokens = Kept(s, line).tokens + Cost(line)
  /\ t.fence = NextFence(s, line)

\* A line leaves the state of a scan, the one that Added says.
LEMMA AddTyped ==
  ASSUME NEW s \in Scans, NEW line \in Line
  PROVE  Add(s, line) \in Scans /\ Added(s, line, Add(s, line))
<1>1. PICK k : k = Kept(s, line)
  OBVIOUS
<1>2. k \in Scans /\ k.fence = s.fence
  BY <1>1, FlushTyped DEF Kept, Flushed
<1>3. PICK t : t = Take(k, line)
  OBVIOUS
<1>4. t \in Scans /\ Taken(k, line, t)  BY <1>2, <1>3, TakeTyped
<1>5. PICK f : f = NextFence(s, line)
  OBVIOUS
<1>6. f \in {""} \cup Fences  BY <1>5 DEF NextFence, Opening, Scans
<1>7. Add(s, line) = [t EXCEPT !.fence = f]
  <2>1. t.fence = s.fence  BY ONLY <1>2, <1>4 DEF Taken
  <2>2. k = IF Opening(s, line) \/ (s.fence = "" /\ s.tokens + Cost(line) > Budget)
                \/ (s.fence = "" /\ line.kind = "heading") THEN flush(s) ELSE s
    BY <1>1 DEF Kept, Flushes, Opening
  <2>3. QED  BY <1>3, <1>5, <2>1, <2>2 DEF Add, NextFence, Opening, Closing
<1>8. PICK L : L = Seq(Line)
  OBVIOUS
<1>9. t \in [chunks : Seq(L), current : L, tokens : Nat, fence : {""} \cup Fences]
  BY <1>4, <1>8 DEF Scans
<1>10. /\ Add(s, line) \in [chunks : Seq(L), current : L, tokens : Nat, fence : {""} \cup Fences]
       /\ Add(s, line).chunks = t.chunks /\ Add(s, line).current = t.current
       /\ Add(s, line).tokens = t.tokens /\ Add(s, line).fence = f
  BY ONLY <1>6, <1>7, <1>9
<1>11. QED  BY <1>1, <1>4, <1>5, <1>8, <1>10 DEF Scans, Added, Taken

Adding == [sl \in Scans \X Line |-> Add(sl[1], sl[2])]
Scanned(lines, n, h) ==
  /\ h \in [0 .. n -> Scans] /\ h[0] = Empty
  /\ h[n] = FoldLeft(Add, Empty, lines)
  /\ \A i \in 1 .. n : h[i] = Add(h[i - 1], lines[i])

\* The scan of a page goes line by line.
LEMMA ScanExists ==
  ASSUME NEW lines \in Seq(Line), NEW n, n = Len(lines)
  PROVE  \E h : Scanned(lines, n, h)
<1>1. PICK A, T, step, a : A = Scans /\ T = Line /\ step = Adding /\ a = Empty
  OBVIOUS
<1>2. step \in [A \X T -> A] /\ \A s \in A : \A e \in T : step[<<s, e>>] = Add(s, e)
  BY <1>1, AddTyped DEF Adding
<1>3. a \in A
  <2>0. \A S : <<>> \in Seq(S)
    OBVIOUS
  <2>1. PICK L, none : L = Seq(Line) /\ none = <<>> /\ none \in L /\ none \in Seq(L)
    BY <2>0, Zenon
  <2>2. a = [chunks |-> none, current |-> none, tokens |-> 0, fence |-> ""]
    BY ONLY <1>1, <2>1 DEF Empty
  <2>3. a \in [chunks : Seq(L), current : L, tokens : Nat, fence : {""} \cup Fences]
    BY ONLY <2>1, <2>2
  <2>4. QED  BY ONLY <1>1, <2>1, <2>3 DEF Scans
<1>4. lines \in Seq(T)  BY <1>1
<1> DEFINE iter == CHOOSE it : it = [t \in SUBSET DOMAIN lines |->
                     IF t = {} THEN Empty ELSE Add(it[t \ {Max(t)}], lines[Max(t)])]
<1>5. FoldLeft(Add, Empty, lines) = iter[DOMAIN lines]
  BY Zenon DEF FoldLeft, MapThenFoldSet
<1>6. PICK g : Solved(A, T, step, lines, a, g)
  BY <1>2, <1>3, <1>4, FoldSolved, Zenon
<1>7. g = [t \in SUBSET DOMAIN lines |->
            IF t = {} THEN Empty ELSE Add(g[t \ {Max(t)}], lines[Max(t)])]
  BY ONLY <1>1, <1>2, <1>6 DEF Solved
<1>8. iter = [t \in SUBSET DOMAIN lines |->
               IF t = {} THEN Empty ELSE Add(iter[t \ {Max(t)}], lines[Max(t)])]
  BY ONLY <1>7
<1> HIDE DEF iter
<1>9. iter[{}] = a
  <2>1. {} \in SUBSET DOMAIN lines
    OBVIOUS
  <2>2. QED  BY ONLY <1>1, <1>8, <2>1
<1>10. ASSUME NEW t \in SUBSET DOMAIN lines,
              t # {} /\ iter[t \ {Max(t)}] \in A /\ lines[Max(t)] \in T
       PROVE  iter[t] = step[<<iter[t \ {Max(t)}], lines[Max(t)]>>]
  <2>1. iter[t] = Add(iter[t \ {Max(t)}], lines[Max(t)])
    BY ONLY <1>8, <1>10
  <2>2. QED  BY ONLY <1>2, <1>10, <2>1
<1>11. PICK end : end = FoldLeft(Add, Empty, lines)
  OBVIOUS
<1>12. end = Ends(step, A, lines, a)
  <2>1. Follows(A, T, step, lines, a, iter)  BY ONLY <1>9, <1>10 DEF Follows
  <2>2. PICK D : D = DOMAIN lines
    OBVIOUS
  <2>3. EndsAt(step, A, lines, a, iter, D)
    BY <1>2, <1>3, <1>4, <2>1, <2>2, FoldEnds, Zenon
  <2>4. QED  BY ONLY <1>5, <1>11, <2>2, <2>3 DEF EndsAt
<1>13. PICK h : Through(step, A, lines, a, h)  BY <1>2, <1>3, <1>4, ThroughFacts, Zenon
<1>14. Passes(step, lines, n, a, h, end)
  <2>1. Passes(step, lines, n, a, h, Ends(step, A, lines, a))
    BY <1>2, <1>3, <1>4, <1>13, ThroughEnds, Zenon
  <2>2. QED  BY ONLY <1>12, <2>1
<1>15. h[0] = a /\ h[n] = end /\ \A i \in 1 .. n : h[i] = step[<<h[i - 1], lines[i]>>]
  BY ONLY <1>14 DEF Passes
<1>16. h \in [0 .. n -> A]  BY <1>1, <1>13 DEF Through, Runs
<1>17. \A i \in 1 .. n : h[i] = Add(h[i - 1], lines[i])
  <2> SUFFICES ASSUME NEW i \in 1 .. n  PROVE h[i] = Add(h[i - 1], lines[i])
    OBVIOUS
  <2>1. n \in Nat /\ lines[i] \in T  BY <1>4
  <2>2. i - 1 \in 0 .. n  BY ONLY <2>1, i \in 1 .. n
  <2>3. h[i - 1] \in A  BY ONLY <1>16, <2>2
  <2>4. QED  BY ONLY <1>2, <1>15, <2>1, <2>3, i \in 1 .. n
<1>18. Scanned(lines, n, h)  BY ONLY <1>1, <1>11, <1>15, <1>16, <1>17 DEF Scanned
<1>19. QED  BY <1>18

\* The code block open after a line is the one the scan of the page has open there.
LEMMA OpenedIs ==
  ASSUME NEW lines \in Seq(Line), NEW n, n = Len(lines), NEW h, Scanned(lines, n, h), NEW i \in 0 .. n
  PROVE  Opened(lines, i) = h[i].fence
<1>1. PICK u : u = SubSeq(lines, 1, i)
  OBVIOUS
<1>2. n \in Nat /\ i \in Nat /\ i <= n
  OBVIOUS
<1>3. u \in Seq(Line) /\ i = Len(u) /\ \A j \in 1 .. i : u[j] = lines[j]
  <2>1. 1 \in Nat \ {0} /\ i \in Nat /\ 1 <= i + 1 /\ i <= Len(lines)  BY ONLY <1>2, n = Len(lines)
  <2>2. /\ u \in Seq(Line) /\ Len(u) = i - 1 + 1
        /\ \A j \in 1 .. i - 1 + 1 : u[j] = lines[1 + j - 1]
    BY ONLY <1>1, <2>1, PartFacts, lines \in Seq(Line)
  <2>3. QED  BY ONLY <1>2, <2>2
<1>4. PICK g : Scanned(u, i, g)  BY <1>3, ScanExists, Zenon
<1>5. g[0] = Empty /\ g[i] = FoldLeft(Add, Empty, u) /\ \A j \in 1 .. i : g[j] = Add(g[j - 1], u[j])
  BY ONLY <1>4 DEF Scanned
<1>6. h[0] = Empty /\ \A j \in 1 .. n : h[j] = Add(h[j - 1], lines[j])
  BY ONLY Scanned(lines, n, h) DEF Scanned
<1>7. h[0] = g[0]  BY ONLY <1>5, <1>6
<1>8. \A j \in 1 .. i : h[j - 1] = g[j - 1] => h[j] = g[j]
  <2>1. \A j \in 1 .. i : j \in 1 .. n  BY ONLY <1>2
  <2>2. QED  BY ONLY <1>3, <1>5, <1>6, <2>1
<1>9. h[i] = g[i]  BY ONLY <1>2, <1>7, <1>8, RunsMeet, Zenon
<1>10. Opened(lines, i) = FoldLeft(Add, Empty, u).fence  BY <1>1 DEF Opened
<1>11. QED  BY ONLY <1>5, <1>9, <1>10

---------------------------------------------------------------------------
(* Costs and lengths.                                                      *)

\* What the first lines of a page cost, and how long they are.
Sums(lines, n, K, W) ==
  /\ K \in [0 .. n -> Nat] /\ W \in [0 .. n -> Nat] /\ K[0] = 0 /\ W[0] = 0
  /\ \A i \in 1 .. n : K[i] = K[i - 1] + Cost(lines[i]) /\ W[i] = W[i - 1] + lines[i].len

\* Every page has such sums.
LEMMA SumsExist ==
  ASSUME NEW lines \in Seq(Line), NEW n, n = Len(lines)
  PROVE  \E K, W : Sums(lines, n, K, W)
<1>1. n \in Nat /\ \A i \in 1 .. n : lines[i] \in Line
  OBVIOUS
<1>2. PICK f, g : f = [i \in 1 .. n |-> Cost(lines[i])] /\ g = [i \in 1 .. n |-> lines[i].len]
  OBVIOUS
<1>3. f \in [1 .. n -> Nat] /\ g \in [1 .. n -> Nat]
  <2>1. \A i \in 1 .. n : Cost(lines[i]) \in Nat /\ lines[i].len \in Nat  BY <1>1, CostTyped
  <2>2. QED  BY ONLY <1>2, <2>1
<1>4. PICK K : K \in [0 .. n -> Nat] /\ K[0] = 0 /\ \A i \in 1 .. n : K[i] = K[i - 1] + f[i]
  BY <1>1, <1>3, SumUp
<1>5. PICK W : W \in [0 .. n -> Nat] /\ W[0] = 0 /\ \A i \in 1 .. n : W[i] = W[i - 1] + g[i]
  BY <1>1, <1>3, SumUp
<1>6. Sums(lines, n, K, W)  BY ONLY <1>2, <1>4, <1>5 DEF Sums
<1>7. QED  BY <1>6

SumsBound(K, W, c, b) ==
  W[b] - W[c] <= 4 * (K[b] - K[c]) + 3 * (b - c) /\ K[b] - K[c] >= b - c /\ W[b] >= W[c]

\* Rounding costs less than four characters a line, and every line costs something.
LEMMA SumsBounded ==
  ASSUME NEW lines \in Seq(Line), NEW n, n = Len(lines), NEW K, NEW W, Sums(lines, n, K, W),
         NEW c \in 0 .. n, NEW b \in c .. n
  PROVE  SumsBound(K, W, c, b)
<1>1. n \in Nat /\ c \in Nat /\ \A i \in 1 .. n : lines[i] \in Line
  OBVIOUS
<1>2. /\ \A i \in 0 .. n : K[i] \in Nat /\ W[i] \in Nat
      /\ \A i \in 1 .. n : K[i] = K[i - 1] + Cost(lines[i]) /\ W[i] = W[i - 1] + lines[i].len
  BY ONLY Sums(lines, n, K, W) DEF Sums
<1>3. \A i \in 1 .. n : /\ Cost(lines[i]) \in Nat /\ Cost(lines[i]) >= 1 /\ lines[i].len \in Nat
                        /\ lines[i].len <= 4 * Cost(lines[i]) + 3
  <2> SUFFICES ASSUME NEW i \in 1 .. n
               PROVE  /\ Cost(lines[i]) \in Nat /\ Cost(lines[i]) >= 1 /\ lines[i].len \in Nat
                      /\ lines[i].len <= 4 * Cost(lines[i]) + 3
    OBVIOUS
  <2>1. lines[i] \in Line  BY <1>1
  <2>2. Cost(lines[i]) \in Nat /\ Cost(lines[i]) >= 1 /\ lines[i].len \in Nat  BY <2>1, CostTyped
  <2>3. Cost(lines[i]) >= lines[i].len \div 4  BY <2>2 DEF Cost, Tokens
  <2>4. QED  BY ONLY <2>2, <2>3
<1> DEFINE S == {d \in 0 .. n - c : SumsBound(K, W, c, c + d)}
<1>4. 0 \in S
  <2>1. c + 0 = c /\ c \in 0 .. n /\ 0 \in 0 .. n - c  BY <1>1
  <2>2. K[c] \in Nat /\ W[c] \in Nat  BY <1>2
  <2>3. SumsBound(K, W, c, c)  BY ONLY <1>1, <2>2 DEF SumsBound
  <2>4. QED  BY <2>1, <2>3
<1>5. ASSUME NEW d \in Nat, d < n - c, d \in S  PROVE d + 1 \in S
  <2>1. PICK i : i = c + d + 1
    OBVIOUS
  <2>2. i \in 1 .. n /\ i - 1 = c + d /\ i - 1 \in 0 .. n /\ i \in 0 .. n /\ i = c + (d + 1)
    BY <1>1, <1>5, <2>1
  <2>3. SumsBound(K, W, c, i - 1)  BY <1>5, <2>2
  <2>4. /\ K[i] = K[i - 1] + Cost(lines[i]) /\ W[i] = W[i - 1] + lines[i].len
        /\ K[i - 1] \in Nat /\ W[i - 1] \in Nat /\ K[c] \in Nat /\ W[c] \in Nat
    BY <1>2, <2>2
  <2>5. /\ Cost(lines[i]) \in Nat /\ Cost(lines[i]) >= 1 /\ lines[i].len \in Nat
        /\ lines[i].len <= 4 * Cost(lines[i]) + 3
    BY <1>3, <2>2
  <2>6. PICK k0, k1, k2, w0, w1, w2, x, y :
          /\ k0 = K[c] /\ k1 = K[i - 1] /\ k2 = K[i] /\ w0 = W[c] /\ w1 = W[i - 1] /\ w2 = W[i]
          /\ x = Cost(lines[i]) /\ y = lines[i].len
    OBVIOUS
  <2>7. /\ W[i - 1] - W[c] <= 4 * (K[i - 1] - K[c]) + 3 * (i - 1 - c)
        /\ K[i - 1] - K[c] >= i - 1 - c /\ W[i - 1] >= W[c]
    BY ONLY <2>3 DEF SumsBound
  <2>12. w1 - w0 <= 4 * (k1 - k0) + 3 * (i - 1 - c) /\ k1 - k0 >= i - 1 - c /\ w1 >= w0
    BY ONLY <2>6, <2>7
  <2>13. /\ k2 = k1 + x /\ w2 = w1 + y /\ y <= 4 * x + 3 /\ x >= 1
         /\ x \in Nat /\ y \in Nat /\ k0 \in Nat /\ k1 \in Nat /\ w0 \in Nat /\ w1 \in Nat
    BY ONLY <2>4, <2>5, <2>6
  <2>14. i \in Nat /\ c \in Nat  BY ONLY <1>1, <2>2
  <2>15. w2 - w0 <= 4 * (k2 - k0) + 3 * (i - c) /\ k2 - k0 >= i - c /\ w2 >= w0
    BY ONLY <2>12, <2>13, <2>14
  <2>8. W[i] - W[c] <= 4 * (K[i] - K[c]) + 3 * (i - c) /\ K[i] - K[c] >= i - c /\ W[i] >= W[c]
    BY ONLY <2>6, <2>15
  <2>9. SumsBound(K, W, c, i)  BY ONLY <2>8 DEF SumsBound
  <2>10. d + 1 \in 0 .. n - c  BY <1>1, <1>5
  <2>11. QED  BY <2>2, <2>9, <2>10
<1> HIDE DEF S
<1>6. n - c \in Nat
  OBVIOUS
<1>7. \A d \in 0 .. n - c : d \in S  BY <1>4, <1>5, <1>6, UpTo
<1>8. b - c \in S /\ c + (b - c) = b  BY <1>1, <1>7
<1>9. QED  BY <1>8 DEF S

Lengths(text, p, w) ==
  /\ w \in [0 .. p -> Int] /\ w[0] = p - 1 /\ w[p] = Length(text)
  /\ \A i \in 1 .. p : w[i] = w[i - 1] + text[i].len

\* The length of a text is its line ends and its lines, added one by one.
LEMMA LengthEnds ==
  ASSUME NEW text \in Seq(Line), NEW p, p = Len(text)
  PROVE  \E w : Lengths(text, p, w)
<1>1. PICK A, T, step, a : /\ A = Int /\ T = Line /\ a = p - 1
                           /\ step = [sl \in A \X T |-> sl[1] + sl[2].len]
  OBVIOUS
<1>2. step \in [A \X T -> A] /\ \A s \in A : \A e \in T : step[<<s, e>>] = s + e.len
  <2>1. \A e \in T : e.len \in Nat  BY <1>1, CostTyped
  <2>2. QED  BY ONLY <1>1, <2>1
<1>3. a \in A  BY <1>1
<1>4. text \in Seq(T)  BY <1>1
<1> DEFINE iter == CHOOSE it : it = [t \in SUBSET DOMAIN text |->
                     IF t = {} THEN Len(text) - 1 ELSE it[t \ {Max(t)}] + text[Max(t)].len]
<1>5. Length(text) = iter[DOMAIN text]
  BY Zenon DEF Length, FoldLeft, MapThenFoldSet
<1>6. PICK g : Solved(A, T, step, text, a, g)
  BY <1>2, <1>3, <1>4, FoldSolved, Zenon
<1>7. g = [t \in SUBSET DOMAIN text |->
            IF t = {} THEN Len(text) - 1 ELSE g[t \ {Max(t)}] + text[Max(t)].len]
  BY ONLY <1>1, <1>2, <1>6, p = Len(text) DEF Solved
<1>8. iter = [t \in SUBSET DOMAIN text |->
               IF t = {} THEN Len(text) - 1 ELSE iter[t \ {Max(t)}] + text[Max(t)].len]
  BY ONLY <1>7
<1> HIDE DEF iter
<1>9. iter[{}] = a
  <2>1. {} \in SUBSET DOMAIN text
    OBVIOUS
  <2>2. QED  BY ONLY <1>1, <1>8, <2>1, p = Len(text)
<1>10. ASSUME NEW t \in SUBSET DOMAIN text,
              t # {} /\ iter[t \ {Max(t)}] \in A /\ text[Max(t)] \in T
       PROVE  iter[t] = step[<<iter[t \ {Max(t)}], text[Max(t)]>>]
  <2>1. iter[t] = iter[t \ {Max(t)}] + text[Max(t)].len
    BY ONLY <1>8, <1>10
  <2>2. QED  BY ONLY <1>2, <1>10, <2>1
<1>11. PICK end : end = Length(text)
  OBVIOUS
<1>12. end = Ends(step, A, text, a)
  <2>1. Follows(A, T, step, text, a, iter)  BY ONLY <1>9, <1>10 DEF Follows
  <2>2. PICK D : D = DOMAIN text
    OBVIOUS
  <2>3. EndsAt(step, A, text, a, iter, D)
    BY <1>2, <1>3, <1>4, <2>1, <2>2, FoldEnds, Zenon
  <2>4. QED  BY ONLY <1>5, <1>11, <2>2, <2>3 DEF EndsAt
<1>13. PICK w : Through(step, A, text, a, w)  BY <1>2, <1>3, <1>4, ThroughFacts, Zenon
<1>14. Passes(step, text, p, a, w, end)
  <2>1. Passes(step, text, p, a, w, Ends(step, A, text, a))
    BY <1>2, <1>3, <1>4, <1>13, ThroughEnds, Zenon
  <2>2. QED  BY ONLY <1>12, <2>1
<1>15. w[0] = a /\ w[p] = end /\ \A i \in 1 .. p : w[i] = step[<<w[i - 1], text[i]>>]
  BY ONLY <1>14 DEF Passes
<1>16. w \in [0 .. p -> A]  BY <1>1, <1>13 DEF Through, Runs
<1>17. \A i \in 1 .. p : w[i] = w[i - 1] + text[i].len
  <2> SUFFICES ASSUME NEW i \in 1 .. p  PROVE w[i] = w[i - 1] + text[i].len
    OBVIOUS
  <2>1. p \in Nat /\ text[i] \in T  BY <1>4
  <2>2. i - 1 \in 0 .. p  BY ONLY <2>1, i \in 1 .. p
  <2>3. w[i - 1] \in A  BY ONLY <1>16, <2>2
  <2>4. QED  BY ONLY <1>2, <1>15, <2>1, <2>3, i \in 1 .. p
<1>18. Lengths(text, p, w)  BY ONLY <1>1, <1>11, <1>15, <1>16, <1>17 DEF Lengths
<1>19. QED  BY <1>18

---------------------------------------------------------------------------
(* Pieces of a page.                                                       *)

Placed(lines)   == \A k \in DOMAIN lines : lines[k].at = k
Top(x)          == x[1].at
Bottom(x)       == x[Len(x)].at
Carries(x, line) == \E i \in DOMAIN x : x[i] = line

\* x is what the page holds from line a to line b.
Stretch(lines, a, b, x) ==
  /\ x \in Seq(Line) /\ Len(x) = b - a + 1 /\ DOMAIN x = 1 .. b - a + 1
  /\ \A i \in 1 .. b - a + 1 : x[i] = lines[a + i - 1] /\ x[i].at = a + i - 1
  /\ Top(x) = a /\ Bottom(x) = b
  /\ \A k \in a .. b : Carries(x, lines[k])

\* A part of the page is a stretch of it.
LEMMA PieceFacts ==
  ASSUME NEW lines \in Seq(Line), NEW n, n = Len(lines), Placed(lines),
         NEW a \in 1 .. n, NEW b \in a .. n
  PROVE  Stretch(lines, a, b, SubSeq(lines, a, b))
<1>1. n \in Nat /\ DOMAIN lines = 1 .. n /\ a \in Nat \ {0} /\ b \in Nat /\ a <= b + 1 /\ b <= Len(lines)
  OBVIOUS
<1>2. PICK x, p : x = SubSeq(lines, a, b) /\ p = b - a + 1
  OBVIOUS
<1>3. x \in Seq(Line) /\ Len(x) = p /\ DOMAIN x = 1 .. p /\ \A i \in 1 .. p : x[i] = lines[a + i - 1]
  BY ONLY <1>1, <1>2, PartFacts, lines \in Seq(Line)
<1>4. p \in Nat /\ p >= 1 /\ a + p - 1 = b /\ a \in Nat /\ a + 1 - 1 = a  BY ONLY <1>1, <1>2, b \in a .. n
<1>5. \A i \in 1 .. p : x[i].at = a + i - 1
  <2>1. \A i \in 1 .. p : a + i - 1 \in 1 .. n  BY ONLY <1>1, <1>4, b \in a .. n
  <2>2. \A k \in 1 .. n : lines[k].at = k  BY <1>1 DEF Placed
  <2>3. QED  BY ONLY <1>3, <2>1, <2>2
<1>6. Top(x) = a /\ Bottom(x) = b
  <2>1. 1 \in 1 .. p /\ p \in 1 .. p  BY ONLY <1>4
  <2>2. QED  BY ONLY <1>3, <1>4, <1>5, <2>1 DEF Top, Bottom
<1>7. ASSUME NEW k \in a .. b  PROVE Carries(x, lines[k])
  <2>1. PICK i : i = k - a + 1
    OBVIOUS
  <2>2. i \in 1 .. p /\ a + i - 1 = k  BY ONLY <1>1, <1>2, <2>1, k \in a .. b
  <2>3. x[i] = lines[k]  BY ONLY <1>3, <2>2
  <2>4. QED  BY ONLY <1>3, <2>2, <2>3 DEF Carries
<1>8. QED  BY ONLY <1>2, <1>3, <1>5, <1>6, <1>7 DEF Stretch

LengthFits(W, a, b, x) == Length(x) = W[b] - W[a - 1] + (b - a)

\* How long a stretch of the page is.
LEMMA LengthIs ==
  ASSUME NEW lines \in Seq(Line), NEW n, n = Len(lines), NEW K, NEW W, Sums(lines, n, K, W),
         NEW a \in 1 .. n, NEW b \in a .. n, NEW x, Stretch(lines, a, b, x)
  PROVE  LengthFits(W, a, b, x)
<1>1. n \in Nat /\ a \in Nat /\ b \in Nat /\ a >= 1 /\ a <= b /\ b <= n
  OBVIOUS
<1>2. PICK p : p = b - a + 1
  OBVIOUS
<1>3. x \in Seq(Line) /\ p = Len(x) /\ \A i \in 1 .. p : x[i] = lines[a + i - 1]
  BY ONLY <1>2, Stretch(lines, a, b, x) DEF Stretch
<1>4. PICK w : Lengths(x, p, w)  BY <1>3, LengthEnds, Zenon
<1>5. w[0] = p - 1 /\ w[p] = Length(x) /\ \A i \in 1 .. p : w[i] = w[i - 1] + x[i].len
  BY ONLY <1>4 DEF Lengths
<1>6. /\ \A i \in 0 .. n : W[i] \in Nat
      /\ \A i \in 1 .. n : W[i] = W[i - 1] + lines[i].len
  BY ONLY Sums(lines, n, K, W) DEF Sums
<1>7. \A i \in 1 .. n : lines[i].len \in Nat
  <2>1. \A i \in 1 .. n : lines[i] \in Line
    OBVIOUS
  <2>2. QED  BY <2>1, CostTyped
<1>8. PICK z : z = W[a - 1]
  OBVIOUS
<1>9. z \in Nat
  <2>1. a - 1 \in 0 .. n  BY ONLY <1>1
  <2>2. QED  BY ONLY <1>6, <1>8, <2>1
<1> DEFINE S == {i \in 0 .. p : w[i] = (p - 1) + (W[a - 1 + i] - z)}
<1>10. p \in Nat /\ p >= 1 /\ a - 1 + p = b  BY ONLY <1>1, <1>2
<1>11. 0 \in S
  <2>1. a - 1 + 0 = a - 1 /\ 0 \in 0 .. p  BY ONLY <1>1, <1>10
  <2>2. w[0] = (p - 1) + (W[a - 1 + 0] - z)  BY ONLY <1>5, <1>8, <1>9, <1>10, <2>1
  <2>3. QED  BY <2>1, <2>2
<1>12. ASSUME NEW d \in Nat, d < p, d \in S  PROVE d + 1 \in S
  <2>1. d + 1 \in 1 .. p /\ d + 1 \in 0 .. p /\ (d + 1) - 1 = d  BY <1>10, <1>12
  <2>2. PICK k : k = a - 1 + (d + 1)
    OBVIOUS
  <2>3. k \in 1 .. n /\ k \in 0 .. n /\ k - 1 = a - 1 + d /\ k - 1 \in 0 .. n /\ a + (d + 1) - 1 = k
    BY ONLY <1>1, <1>10, <2>1, <2>2, d \in Nat
  <2>4. w[d + 1] = w[d] + lines[k].len  BY ONLY <1>3, <1>5, <2>1, <2>3
  <2>5. w[d] = (p - 1) + (W[k - 1] - z)  BY <1>12, <2>3
  <2>6. PICK w1, w2, v1, v2, y : w1 = w[d] /\ w2 = w[d + 1] /\ v1 = W[k - 1] /\ v2 = W[k] /\ y = lines[k].len
    OBVIOUS
  <2>7. v2 = v1 + y /\ w2 = w1 + y /\ w1 = (p - 1) + (v1 - z) /\ v1 \in Nat /\ y \in Nat
    BY ONLY <1>6, <1>7, <2>3, <2>4, <2>5, <2>6
  <2>8. w2 = (p - 1) + (v2 - z)  BY ONLY <1>9, <1>10, <2>7
  <2>9. QED  BY ONLY <2>1, <2>2, <2>6, <2>8
<1> HIDE DEF S
<1>13. \A i \in 0 .. p : i \in S  BY ONLY <1>10, <1>11, <1>12, UpTo
<1>14. w[p] = (p - 1) + (W[b] - z)  BY <1>10, <1>13 DEF S
<1>15. W[b] \in Nat
  <2>1. b \in 0 .. n  BY ONLY <1>1
  <2>2. QED  BY ONLY <1>6, <2>1
<1>16. (p - 1) + (W[b] - z) = W[b] - z + (b - a)
  <2>1. PICK v : v = W[b]
    OBVIOUS
  <2>2. v \in Nat  BY <1>15, <2>1
  <2>3. (p - 1) + (v - z) = v - z + (b - a)  BY ONLY <1>1, <1>2, <1>9, <2>2
  <2>4. QED  BY <2>1, <2>3
<1>17. QED  BY ONLY <1>5, <1>8, <1>14, <1>16 DEF LengthFits

\* What it costs: not more than its lines do, and their ends.
LEMMA PieceCost ==
  ASSUME NEW lines \in Seq(Line), NEW n, n = Len(lines), NEW K, NEW W, Sums(lines, n, K, W),
         NEW a \in 1 .. n, NEW b \in a .. n, NEW x, Stretch(lines, a, b, x)
  PROVE  Length(x) \in Nat /\ Tokens(Length(x)) <= (K[b] - K[a - 1]) + Len(x)
<1>1. n \in Nat /\ a \in Nat /\ b \in Nat /\ a >= 1 /\ a <= b /\ b <= n /\ Len(x) = b - a + 1
  BY DEF Stretch
<1>2. Length(x) = W[b] - W[a - 1] + (b - a)
  <2>1. LengthFits(W, a, b, x)  BY LengthIs, Zenon
  <2>2. QED  BY ONLY <2>1 DEF LengthFits
<1>3. PICK c : c = a - 1
  OBVIOUS
<1>4. c \in 0 .. n /\ b \in c .. n /\ c \in Nat /\ b \in 0 .. n  BY ONLY <1>1, <1>3
<1>5. SumsBound(K, W, c, b)  BY <1>4, SumsBounded, Zenon
<1>6. K[b] \in Nat /\ K[c] \in Nat /\ W[b] \in Nat /\ W[c] \in Nat
  BY ONLY <1>4, Sums(lines, n, K, W) DEF Sums
<1>7. PICK kb, kc, wb, wc, l : kb = K[b] /\ kc = K[c] /\ wb = W[b] /\ wc = W[c] /\ l = Length(x)
  OBVIOUS
<1>8. /\ wb - wc <= 4 * (kb - kc) + 3 * (b - c) /\ kb - kc >= b - c /\ l = wb - wc + (b - a)
      /\ kb \in Nat /\ kc \in Nat /\ wb \in Nat /\ wc \in Nat
  BY ONLY <1>2, <1>3, <1>5, <1>6, <1>7 DEF SumsBound
<1>9. l \in Nat /\ l < 4 * ((kb - kc) + (b - a + 1)) /\ (kb - kc) + (b - a + 1) >= 1
  <2>1. wb >= wc  BY ONLY <1>5, <1>7 DEF SumsBound
  <2>2. QED  BY ONLY <1>1, <1>3, <1>8, <2>1
<1>10. Tokens(l) <= (kb - kc) + (b - a + 1)
  <2>1. PICK m : m = (kb - kc) + (b - a + 1)
    OBVIOUS
  <2>2. m \in Int /\ l < 4 * m /\ m >= 1  BY ONLY <1>1, <1>8, <1>9, <2>1
  <2>3. l \div 4 <= m  BY ONLY <1>9, <2>2
  <2>4. Tokens(l) <= m  BY <2>2, <2>3 DEF Tokens
  <2>5. QED  BY ONLY <2>1, <2>4
<1>11. QED  BY ONLY <1>1, <1>3, <1>7, <1>9, <1>10

---------------------------------------------------------------------------
(* What the cuts keep.                                                     *)

Frugal(x) == HasFence(x) \/ Len(x) = 1 \/ InBudget(x, 0)
Piece(lines, x) == \E a \in 1 .. Len(lines) : \E b \in a .. Len(lines) : Stretch(lines, a, b, x)

\* A heading outside the code blocks; two lines of one of them.
Headed(lines, O, k) == lines[k].kind = "heading" /\ O[k - 1] = ""
Inside(lines, O, k) == O[k] # "" /\ Solid(lines[k]) /\ Solid(lines[k + 1])

\* The chunks made of the first c lines.
Covered(lines, O, c, made) ==
  /\ \A k \in 1 .. c : Solid(lines[k]) => \E j \in DOMAIN made : Carries(made[j], lines[k])
  /\ \A k \in 1 .. c - 1 : Inside(lines, O, k) =>
       \E j \in DOMAIN made : Carries(made[j], lines[k]) /\ Carries(made[j], lines[k + 1])
  /\ \A k \in 1 .. c : Headed(lines, O, k) =>
       \E j \in DOMAIN made : Carries(made[j], lines[k]) /\ Top(made[j]) = k
Pieces(lines, c, made) ==
  /\ \A j \in DOMAIN made : Piece(lines, made[j]) /\ Bottom(made[j]) <= c /\ Frugal(made[j])
  /\ \A i, j \in DOMAIN made : i < j => Bottom(made[i]) < Top(made[j])
CutAt(lines, O, c, made) ==
  made \in Seq(Seq(Line)) /\ Covered(lines, O, c, made) /\ Pieces(lines, c, made)

\* A chunk of the lines after c, up to i.
Held(lines, O, c, i, x) ==
  /\ Piece(lines, x) /\ Top(x) > c /\ Bottom(x) <= i /\ Frugal(x)
  /\ \A k \in c + 1 .. i : Solid(lines[k]) => Carries(x, lines[k])
  /\ \A k \in c + 1 .. i : Headed(lines, O, k) => Top(x) = k

HasBlock(lines, c, i) == \E k \in c + 1 .. i : lines[k].kind \in Fences

\* What the scan holds back after i lines, when it has cut after line c.
Rest(lines, O, K, c, i, s) ==
  /\ c \in 0 .. i /\ s \in Scans /\ s.current = SubSeq(lines, c + 1, i)
  /\ O[c] = "" /\ O[i] = s.fence /\ (s.fence # "" => HasBlock(lines, c, i))
  /\ s.tokens = K[i] - K[c]
  /\ \A k \in c + 1 .. i : Headed(lines, O, k) => k = c + 1
  /\ HasBlock(lines, c, i) \/ i <= c + 1 \/ s.tokens <= Budget

\* A chunk stands where its lines stand.
LEMMA PieceEnds ==
  ASSUME NEW lines, Len(lines) \in Nat, NEW x, Piece(lines, x)
  PROVE  Top(x) \in Nat /\ Bottom(x) \in Nat /\ Top(x) <= Bottom(x) /\ x \in Seq(Line)
<1>1. PICK a \in 1 .. Len(lines) : \E b \in a .. Len(lines) : Stretch(lines, a, b, x)
  BY DEF Piece
<1>2. PICK b \in a .. Len(lines) : Stretch(lines, a, b, x)  BY <1>1
<1>3. Top(x) = a /\ Bottom(x) = b /\ x \in Seq(Line)  BY ONLY <1>2 DEF Stretch
<1>4. a \in Nat /\ b \in Nat /\ a <= b
  OBVIOUS
<1>5. QED  BY ONLY <1>3, <1>4

\* One chunk more.
LEMMA CutGrows ==
  ASSUME NEW lines \in Seq(Line), NEW O, NEW c \in Nat, NEW i \in c .. Len(lines), O[c] = "",
         NEW made, CutAt(lines, O, c, made), NEW x, Held(lines, O, c, i, x),
         NEW more, more = Append(made, x)
  PROVE  CutAt(lines, O, i, more)
<1>1. PICK m : m = Len(made)
  OBVIOUS
<1>2. made \in Seq(Seq(Line))  BY ONLY CutAt(lines, O, c, made) DEF CutAt
<1>3. m \in Nat /\ DOMAIN made = 1 .. m  BY ONLY <1>1, <1>2
<1>4. Len(lines) \in Nat /\ c \in Nat /\ i \in Nat /\ c <= i
  <2>1. Len(lines) \in Nat  BY ONLY lines \in Seq(Line)
  <2>2. QED  BY ONLY <2>1, c \in Nat, i \in c .. Len(lines)
<1>5. Piece(lines, x) /\ Top(x) > c /\ Bottom(x) <= i /\ Frugal(x)
  BY ONLY Held(lines, O, c, i, x) DEF Held
<1>6. Top(x) \in Nat /\ Bottom(x) \in Nat /\ Top(x) <= Bottom(x) /\ x \in Seq(Line)
  BY ONLY <1>4, <1>5, PieceEnds
<1>7. /\ more \in Seq(Seq(Line)) /\ DOMAIN more = 1 .. m + 1 /\ more[m + 1] = x
      /\ \A j \in 1 .. m : more[j] = made[j]
  <2>1. PICK T : T = Seq(Line)
    OBVIOUS
  <2>2. made \in Seq(T) /\ x \in T  BY ONLY <1>2, <1>6, <2>1
  <2>3. /\ more \in Seq(T) /\ DOMAIN more = 1 .. m + 1 /\ more[m + 1] = x
        /\ \A j \in 1 .. m : more[j] = made[j]
    BY ONLY <1>1, <2>2, more = Append(made, x)
  <2>4. QED  BY ONLY <2>1, <2>3
<1>8. m + 1 \in DOMAIN more /\ \A j \in DOMAIN made : j \in DOMAIN more /\ more[j] = made[j]
  BY ONLY <1>3, <1>7
<1>9. Covered(lines, O, c, made) /\ Pieces(lines, c, made)
  BY ONLY CutAt(lines, O, c, made) DEF CutAt
<1>10. Covered(lines, O, i, more)
  <2>1. ASSUME NEW k \in 1 .. i, Solid(lines[k])
        PROVE  \E j \in DOMAIN more : Carries(more[j], lines[k])
    <3>1. CASE k <= c
      <4>1. k \in 1 .. c  BY ONLY <1>4, <3>1, k \in 1 .. i
      <4>2. PICK j \in DOMAIN made : Carries(made[j], lines[k])
        BY ONLY <1>9, <2>1, <4>1 DEF Covered
      <4>3. QED  BY ONLY <1>8, <4>2
    <3>2. CASE ~(k <= c)
      <4>1. k \in c + 1 .. i  BY ONLY <1>4, <3>2, k \in 1 .. i
      <4>2. Carries(x, lines[k])  BY ONLY <2>1, <4>1, Held(lines, O, c, i, x) DEF Held
      <4>3. QED  BY ONLY <1>7, <1>8, <4>2
    <3>3. QED  BY ONLY <3>1, <3>2
  <2>2. ASSUME NEW k \in 1 .. i - 1, Inside(lines, O, k)
        PROVE  \E j \in DOMAIN more : Carries(more[j], lines[k]) /\ Carries(more[j], lines[k + 1])
    <3>1. CASE k <= c - 1
      <4>1. k \in 1 .. c - 1  BY ONLY <1>4, <3>1, k \in 1 .. i - 1
      <4>2. PICK j \in DOMAIN made : Carries(made[j], lines[k]) /\ Carries(made[j], lines[k + 1])
        BY ONLY <1>9, <2>2, <4>1 DEF Covered
      <4>3. QED  BY ONLY <1>8, <4>2
    <3>2. CASE k = c
      BY ONLY <2>2, <3>2, O[c] = "" DEF Inside
    <3>3. CASE k > c
      <4>1. k \in c + 1 .. i /\ k + 1 \in c + 1 .. i  BY ONLY <1>4, <3>3, k \in 1 .. i - 1
      <4>2. Carries(x, lines[k]) /\ Carries(x, lines[k + 1])
        BY ONLY <2>2, <4>1, Held(lines, O, c, i, x) DEF Held, Inside
      <4>3. QED  BY ONLY <1>7, <1>8, <4>2
    <3>4. k <= c - 1 \/ k = c \/ k > c  BY ONLY <1>4, k \in 1 .. i - 1
    <3>5. QED  BY ONLY <3>1, <3>2, <3>3, <3>4
  <2>3. ASSUME NEW k \in 1 .. i, Headed(lines, O, k)
        PROVE  \E j \in DOMAIN more : Carries(more[j], lines[k]) /\ Top(more[j]) = k
    <3>1. CASE k <= c
      <4>1. k \in 1 .. c  BY ONLY <1>4, <3>1, k \in 1 .. i
      <4>2. PICK j \in DOMAIN made : Carries(made[j], lines[k]) /\ Top(made[j]) = k
        BY ONLY <1>9, <2>3, <4>1 DEF Covered
      <4>3. QED  BY ONLY <1>8, <4>2
    <3>2. CASE ~(k <= c)
      <4>1. k \in c + 1 .. i  BY ONLY <1>4, <3>2, k \in 1 .. i
      <4>2. Solid(lines[k])  BY ONLY <2>3 DEF Headed, Solid
      <4>3. Carries(x, lines[k]) /\ Top(x) = k
        BY ONLY <2>3, <4>1, <4>2, Held(lines, O, c, i, x) DEF Held
      <4>4. QED  BY ONLY <1>7, <1>8, <4>3
    <3>3. QED  BY ONLY <3>1, <3>2
  <2>4. QED  BY ONLY <2>1, <2>2, <2>3 DEF Covered
<1>11. Pieces(lines, i, more)
  <2>1. \A j \in 1 .. m : /\ Piece(lines, made[j]) /\ Bottom(made[j]) <= c /\ Frugal(made[j])
                          /\ Bottom(made[j]) \in Nat
    <3>1. \A j \in 1 .. m : Piece(lines, made[j]) /\ Bottom(made[j]) <= c /\ Frugal(made[j])
      BY ONLY <1>3, <1>9 DEF Pieces
    <3>2. QED  BY ONLY <1>4, <3>1, PieceEnds
  <2>2. \A j \in DOMAIN more : Piece(lines, more[j]) /\ Bottom(more[j]) <= i /\ Frugal(more[j])
    <3> SUFFICES ASSUME NEW j \in DOMAIN more
                 PROVE  Piece(lines, more[j]) /\ Bottom(more[j]) <= i /\ Frugal(more[j])
      OBVIOUS
    <3>1. CASE j = m + 1  BY ONLY <1>5, <1>7, <3>1
    <3>2. CASE j # m + 1
      <4>1. j \in 1 .. m  BY ONLY <1>3, <1>7, <3>2, j \in DOMAIN more
      <4>2. Piece(lines, more[j]) /\ Bottom(more[j]) <= c /\ Frugal(more[j]) /\ Bottom(more[j]) \in Nat
        BY ONLY <1>7, <2>1, <4>1
      <4>3. QED  BY ONLY <1>4, <4>2
    <3>3. QED  BY ONLY <3>1, <3>2
  <2>3. ASSUME NEW d \in DOMAIN more, NEW e \in DOMAIN more, d < e
        PROVE  Bottom(more[d]) < Top(more[e])
    <3>1. d \in 1 .. m  BY ONLY <1>3, <1>7, <2>3, d \in DOMAIN more, e \in DOMAIN more
    <3>2. CASE e = m + 1
      <4>1. more[e] = x /\ more[d] = made[d]  BY ONLY <1>7, <3>1, <3>2
      <4>2. Bottom(made[d]) \in Nat /\ Bottom(made[d]) <= c  BY ONLY <2>1, <3>1
      <4>3. QED  BY ONLY <1>4, <1>5, <1>6, <4>1, <4>2
    <3>3. CASE e # m + 1
      <4>1. e \in 1 .. m  BY ONLY <1>3, <1>7, <3>3, e \in DOMAIN more
      <4>2. Bottom(made[d]) < Top(made[e])  BY ONLY <1>3, <1>9, <2>3, <3>1, <4>1 DEF Pieces
      <4>3. QED  BY ONLY <1>7, <3>1, <4>1, <4>2
    <3>4. QED  BY ONLY <3>2, <3>3
  <2>4. QED  BY ONLY <2>2, <2>3 DEF Pieces
<1>12. QED  BY ONLY <1>7, <1>10, <1>11 DEF CutAt

\* Blank lines more.
LEMMA CutIdles ==
  ASSUME NEW lines, Len(lines) \in Nat, NEW O, NEW c \in Nat, NEW i \in c .. Len(lines),
         NEW made, CutAt(lines, O, c, made), \A k \in c + 1 .. i : ~ Solid(lines[k])
  PROVE  CutAt(lines, O, i, made)
<1>1. c \in Nat /\ i \in Nat /\ c <= i
  OBVIOUS
<1>2. \A k \in 1 .. i : Solid(lines[k]) => k \in 1 .. c
  <2>1. \A k \in 1 .. i : k \in 1 .. c \/ k \in c + 1 .. i  BY ONLY <1>1
  <2>2. QED  BY <2>1
<1>3. made \in Seq(Seq(Line)) /\ Covered(lines, O, c, made) /\ Pieces(lines, c, made)
  BY ONLY CutAt(lines, O, c, made) DEF CutAt
<1>4. Covered(lines, O, i, made)
  <2>1. \A k \in 1 .. i - 1 : Inside(lines, O, k) => k \in 1 .. c - 1
    <3> SUFFICES ASSUME NEW k \in 1 .. i - 1, Inside(lines, O, k)  PROVE k \in 1 .. c - 1
      OBVIOUS
    <3>1. k + 1 \in 1 .. i  BY ONLY <1>1, k \in 1 .. i - 1
    <3>2. k + 1 \in 1 .. c  BY ONLY <1>2, <3>1, Inside(lines, O, k) DEF Inside
    <3>3. QED  BY ONLY <1>1, <3>2, k \in 1 .. i - 1
  <2>2. \A k \in 1 .. i : Headed(lines, O, k) => k \in 1 .. c
    <3>1. \A k : Headed(lines, O, k) => Solid(lines[k])  BY DEF Headed, Solid
    <3>2. QED  BY ONLY <1>2, <3>1
  <2>3. QED  BY ONLY <1>2, <1>3, <2>1, <2>2 DEF Covered
<1>5. Pieces(lines, i, made)
  <2>1. \A j \in DOMAIN made : /\ Piece(lines, made[j]) /\ Bottom(made[j]) <= c /\ Frugal(made[j])
                               /\ Bottom(made[j]) \in Nat
    <3>1. \A j \in DOMAIN made : Piece(lines, made[j]) /\ Bottom(made[j]) <= c /\ Frugal(made[j])
      BY ONLY <1>3 DEF Pieces
    <3>2. QED  BY ONLY <3>1, PieceEnds, Len(lines) \in Nat
  <2>2. \A j \in DOMAIN made : Bottom(made[j]) <= i  BY ONLY <1>1, <2>1
  <2>3. QED  BY ONLY <1>3, <2>1, <2>2 DEF Pieces
<1>6. QED  BY ONLY <1>3, <1>4, <1>5 DEF CutAt

StripLeft(lines, O, c, i, x) ==
  \/ x = <<>> /\ \A k \in c + 1 .. i : ~ Solid(lines[k])
  \/ x # <<>> /\ Held(lines, O, c, i, x)

\* What is left of the lines held back when they are stripped.
LEMMA StripOfRest ==
  ASSUME NEW lines \in Seq(Line), NEW n, n = Len(lines), Placed(lines),
         NEW K, NEW W, Sums(lines, n, K, W), NEW O, NEW i \in 0 .. n, NEW c, NEW s,
         Rest(lines, O, K, c, i, s)
  PROVE  StripLeft(lines, O, c, i, Strip(s.current))
<1>1. n \in Nat /\ c \in Nat /\ i \in Nat /\ c <= i /\ i <= n /\ i \in c .. n /\ c \in 0 .. n
  <2>1. n \in Nat
    OBVIOUS
  <2>2. c \in 0 .. i  BY DEF Rest
  <2>3. QED  BY ONLY <2>1, <2>2, i \in 0 .. n
<1>2. PICK text, l, x : text = s.current /\ l = i - c /\ x = Strip(text)
  OBVIOUS
<1>3. text = SubSeq(lines, c + 1, i)  BY ONLY <1>2, Rest(lines, O, K, c, i, s) DEF Rest
<1>4. l \in Nat  BY ONLY <1>1, <1>2
<1>5. text \in Seq(Line) /\ l = Len(text) /\ \A m \in 1 .. l : text[m] = lines[c + m]
  <2>1. c + 1 \in Nat \ {0} /\ c + 1 <= i + 1 /\ i <= Len(lines)  BY ONLY <1>1, n = Len(lines)
  <2>2. /\ text \in Seq(Line) /\ Len(text) = i - (c + 1) + 1
        /\ \A m \in 1 .. i - (c + 1) + 1 : text[m] = lines[(c + 1) + m - 1]
    BY ONLY <1>1, <1>3, <2>1, PartFacts, lines \in Seq(Line)
  <2>3. i - (c + 1) + 1 = l  BY ONLY <1>1, <1>2
  <2>4. \A m \in 1 .. l : (c + 1) + m - 1 = c + m  BY ONLY <1>1, <1>4
  <2>5. QED  BY ONLY <2>2, <2>3, <2>4
<1>6. \A k \in c + 1 .. i : k - c \in 1 .. l /\ text[k - c] = lines[k]
  <2>1. \A k \in c + 1 .. i : k - c \in 1 .. l /\ c + (k - c) = k  BY ONLY <1>1, <1>2
  <2>2. QED  BY ONLY <1>5, <2>1
<1>7. CASE AllBlank(text) /\ x = <<>>
  <2>1. \A m \in 1 .. l : ~ Solid(text[m])  BY ONLY <1>5, <1>7 DEF AllBlank
  <2>2. \A k \in c + 1 .. i : ~ Solid(lines[k])  BY ONLY <1>6, <2>1
  <2>3. QED  BY ONLY <1>2, <1>7, <2>2 DEF StripLeft
<1>8. ASSUME NEW a \in 1 .. l, NEW b \in a .. l, Between(text, a, b, x)
      PROVE  StripLeft(lines, O, c, i, x)
  <2>1. x = SubSeq(text, a, b) /\ Solid(text[a]) /\ Solid(text[b])
    BY ONLY <1>8 DEF Between
  <2>2. \A m \in 1 .. l : Solid(text[m]) => a <= m /\ m <= b
    BY ONLY <1>5, <1>8 DEF Between
  <2>3. PICK p, q : p = c + a /\ q = c + b
    OBVIOUS
  <2>4. a \in Nat /\ b \in Nat /\ 1 <= a /\ a <= b /\ b <= l
    BY ONLY <1>4, a \in 1 .. l, b \in a .. l
  <2>5. p \in 1 .. n /\ q \in p .. n /\ p > c /\ q <= i /\ p \in Nat /\ q \in Nat
    BY ONLY <1>1, <1>2, <2>3, <2>4
  <2>6. x = SubSeq(lines, p, q)
    <3>1. i \in c .. Len(lines) /\ c \in Nat  BY ONLY <1>1, n = Len(lines)
    <3>2. a \in 1 .. i - c /\ b \in a .. i - c  BY ONLY <1>1, <1>2, <2>4
    <3>3. SubSeq(text, a, b) = SubSeq(lines, c + a, c + b)
      BY ONLY <1>3, <3>1, <3>2, PartOfPart, lines \in Seq(Line)
    <3>4. QED  BY ONLY <2>1, <2>3, <3>3
  <2>7. Stretch(lines, p, q, x)
    <3>1. Stretch(lines, p, q, SubSeq(lines, p, q))  BY <2>5, PieceFacts, Zenon
    <3>2. QED  BY ONLY <2>6, <3>1
  <2>8. Len(x) = q - p + 1 /\ Top(x) = p /\ Bottom(x) = q /\ \A k \in p .. q : Carries(x, lines[k])
    BY ONLY <2>7 DEF Stretch
  <2>9. x # <<>>
    <3>1. Len(x) # 0  BY ONLY <2>5, <2>8
    <3>2. QED  BY ONLY <3>1
  <2>10. \A k \in c + 1 .. i : Solid(lines[k]) => k \in p .. q /\ Carries(x, lines[k])
    <3> SUFFICES ASSUME NEW k \in c + 1 .. i, Solid(lines[k])
                 PROVE  k \in p .. q /\ Carries(x, lines[k])
      OBVIOUS
    <3>1. k - c \in 1 .. l /\ Solid(text[k - c])  BY ONLY <1>6, k \in c + 1 .. i, Solid(lines[k])
    <3>2. a <= k - c /\ k - c <= b  BY ONLY <2>2, <3>1
    <3>3. k \in p .. q  BY ONLY <1>1, <2>3, <2>4, <3>2, k \in c + 1 .. i
    <3>4. QED  BY ONLY <2>8, <3>3
  <2>11. Piece(lines, x)
    <3>1. p \in 1 .. Len(lines) /\ q \in p .. Len(lines)  BY ONLY <2>5, n = Len(lines)
    <3>2. QED  BY ONLY <2>7, <3>1 DEF Piece
  <2>12. \A k \in c + 1 .. i : Headed(lines, O, k) => Top(x) = k
    <3> SUFFICES ASSUME NEW k \in c + 1 .. i, Headed(lines, O, k)  PROVE Top(x) = k
      OBVIOUS
    <3>1. Solid(lines[k])  BY ONLY Headed(lines, O, k) DEF Headed, Solid
    <3>2. k \in p .. q  BY ONLY <2>10, <3>1, k \in c + 1 .. i
    <3>3. k = c + 1
      BY ONLY k \in c + 1 .. i, Headed(lines, O, k), Rest(lines, O, K, c, i, s) DEF Rest
    <3>4. p = k  BY ONLY <1>1, <2>5, <3>2, <3>3
    <3>5. QED  BY ONLY <2>8, <3>4
  <2>13. Frugal(x)
    <3>1. CASE HasBlock(lines, c, i)
      <4>1. PICK k \in c + 1 .. i : lines[k].kind \in Fences  BY ONLY <3>1 DEF HasBlock
      <4>2. Solid(lines[k])  BY ONLY <4>1 DEF Solid, Fences
      <4>3. Carries(x, lines[k])  BY ONLY <2>10, <4>2, k \in c + 1 .. i
      <4>4. HasFence(x)  BY ONLY <4>1, <4>3 DEF Carries, HasFence
      <4>5. QED  BY ONLY <4>4 DEF Frugal
    <3>2. CASE i <= c + 1
      <4>1. q - p + 1 = 1  BY ONLY <1>1, <2>5, <3>2
      <4>2. QED  BY ONLY <2>8, <4>1 DEF Frugal
    <3>3. CASE s.tokens <= Budget
      <4>1. Length(x) \in Nat /\ Tokens(Length(x)) <= (K[q] - K[p - 1]) + Len(x)
        BY <2>5, <2>7, PieceCost
      <4>2. p - 1 \in 0 .. n /\ p - 1 \in c .. n /\ q \in 0 .. n /\ i \in q .. n
        BY ONLY <1>1, <2>5
      <4>3. SumsBound(K, W, c, p - 1)
        <5>1. PICK d : d = p - 1
          OBVIOUS
        <5>2. d \in c .. n  BY ONLY <4>2, <5>1
        <5>3. SumsBound(K, W, c, d)  BY <1>1, <5>2, SumsBounded, Zenon
        <5>4. QED  BY ONLY <5>1, <5>3
      <4>4. SumsBound(K, W, q, i)  BY <4>2, SumsBounded, Zenon
      <4>5. K[c] \in Nat /\ K[p - 1] \in Nat /\ K[q] \in Nat /\ K[i] \in Nat
        BY ONLY <1>1, <4>2, Sums(lines, n, K, W), i \in 0 .. n DEF Sums
      <4>6. PICK kc, kp, kq, ki, t, z, w : /\ kc = K[c] /\ kp = K[p - 1] /\ kq = K[q] /\ ki = K[i]
                                      /\ t = s.tokens /\ z = Tokens(Length(x)) /\ w = Len(x)
        OBVIOUS
      <4>7. /\ kp - kc >= p - 1 - c /\ ki - kq >= i - q /\ t = ki - kc /\ t <= Budget
            /\ z <= (kq - kp) + w /\ kc \in Nat /\ kp \in Nat /\ kq \in Nat /\ ki \in Nat
        BY ONLY <3>3, <4>1, <4>3, <4>4, <4>5, <4>6, Rest(lines, O, K, c, i, s) DEF SumsBound, Rest
      <4>8. z \in Int /\ w \in Nat /\ Budget \in Int
        <5>1. z \in Int  BY <4>1, <4>6 DEF Tokens
        <5>2. Budget \in Int  BY MaxTokensAssumption DEF Budget
        <5>3. w \in Nat  BY ONLY <2>5, <2>8, <4>6
        <5>4. QED  BY ONLY <5>1, <5>2, <5>3
      <4>9. z <= Budget + 0 + w
        <5>1. PICK B : B = Budget
          OBVIOUS
        <5>2. /\ kp - kc >= p - 1 - c /\ ki - kq >= i - q /\ t = ki - kc /\ t <= B
              /\ z <= (kq - kp) + w /\ B \in Int /\ z \in Int
          BY ONLY <4>7, <4>8, <5>1
        <5>3. z <= B + 0 + w  BY ONLY <1>1, <2>5, <4>7, <4>8, <5>2
        <5>4. QED  BY ONLY <5>1, <5>3
      <4>10. InBudget(x, 0)  BY ONLY <4>6, <4>9 DEF InBudget
      <4>11. QED  BY ONLY <4>10 DEF Frugal
    <3>4. HasBlock(lines, c, i) \/ i <= c + 1 \/ s.tokens <= Budget
      BY ONLY Rest(lines, O, K, c, i, s) DEF Rest
    <3>5. QED  BY ONLY <3>1, <3>2, <3>3, <3>4
  <2>14. Held(lines, O, c, i, x)  BY ONLY <2>5, <2>8, <2>10, <2>11, <2>12, <2>13 DEF Held
  <2>15. QED  BY ONLY <2>9, <2>14 DEF StripLeft
<1>9. \/ AllBlank(text) /\ x = <<>>
      \/ \E a \in 1 .. l : \E b \in a .. l : Between(text, a, b, x)
  BY ONLY <1>2, <1>5, StripFacts
<1>10. StripLeft(lines, O, c, i, x)  BY ONLY <1>2, <1>7, <1>8, <1>9
<1>11. QED  BY ONLY <1>2, <1>10

\* A flush cuts after the last line.
LEMMA FlushCuts ==
  ASSUME NEW lines \in Seq(Line), NEW n, n = Len(lines), Placed(lines),
         NEW K, NEW W, Sums(lines, n, K, W), NEW O, NEW i \in 0 .. n, NEW c, NEW s,
         Rest(lines, O, K, c, i, s), CutAt(lines, O, c, s.chunks),
         NEW t, Flushed(s, t)
  PROVE  CutAt(lines, O, i, t.chunks)
<1>1. n \in Nat /\ c \in Nat /\ i \in c .. Len(lines) /\ Len(lines) \in Nat
  <2>1. n \in Nat
    OBVIOUS
  <2>2. c \in 0 .. i  BY DEF Rest
  <2>3. QED  BY ONLY <2>1, <2>2, i \in 0 .. n, n = Len(lines)
<1>2. O[c] = ""  BY DEF Rest
<1>3. PICK x, made, more : x = Strip(s.current) /\ made = s.chunks /\ more = t.chunks
  OBVIOUS
<1>4. more = IF x = <<>> THEN made ELSE Append(made, x)
  BY ONLY <1>3, Flushed(s, t) DEF Flushed
<1>5. CutAt(lines, O, c, made)  BY ONLY <1>3, CutAt(lines, O, c, s.chunks)
<1>6. StripLeft(lines, O, c, i, x)
  <2>1. StripLeft(lines, O, c, i, Strip(s.current))  BY StripOfRest, Zenon
  <2>2. QED  BY ONLY <1>3, <2>1
<1>7. CASE x = <<>> /\ \A k \in c + 1 .. i : ~ Solid(lines[k])
  <2>1. CutAt(lines, O, i, made)  BY <1>1, <1>5, <1>7, CutIdles, Zenon
  <2>2. QED  BY ONLY <1>3, <1>4, <1>7, <2>1
<1>8. CASE x # <<>> /\ Held(lines, O, c, i, x)
  <2>1. more = Append(made, x)  BY ONLY <1>4, <1>8
  <2>2. CutAt(lines, O, i, more)  BY <1>1, <1>2, <1>5, <1>8, <2>1, CutGrows, Zenon
  <2>3. QED  BY ONLY <1>3, <2>2
<1>9. QED  BY ONLY <1>6, <1>7, <1>8 DEF StripLeft

\* After i lines: what is cut, and what is held back.
Going(lines, O, K, i, s) == \E c \in 0 .. i : Rest(lines, O, K, c, i, s) /\ CutAt(lines, O, c, s.chunks)

\* One line more.
LEMMA AddGoes ==
  ASSUME NEW lines \in Seq(Line), NEW n, n = Len(lines), Placed(lines),
         NEW K, NEW W, Sums(lines, n, K, W), NEW O, NEW i \in 1 .. n,
         NEW s, Going(lines, O, K, i - 1, s), NEW t \in Scans, Added(s, lines[i], t), O[i] = t.fence
  PROVE  Going(lines, O, K, i, t)
<1>1. PICK b, line : b = i - 1 /\ line = lines[i]
  OBVIOUS
<1>2. n \in Nat /\ i \in Nat /\ b \in Nat /\ i = b + 1 /\ b \in 0 .. n /\ i \in 0 .. n /\ line \in Line
  <2>1. n \in Nat /\ lines[i] \in Line
    OBVIOUS
  <2>2. QED  BY ONLY <1>1, <2>1, i \in 1 .. n
<1>3. PICK c \in 0 .. b : Rest(lines, O, K, c, b, s) /\ CutAt(lines, O, c, s.chunks)
  BY ONLY <1>1, Going(lines, O, K, i - 1, s) DEF Going
<1>4. /\ s \in Scans /\ s.current = SubSeq(lines, c + 1, b) /\ O[c] = "" /\ O[b] = s.fence
      /\ (s.fence # "" => HasBlock(lines, c, b)) /\ s.tokens = K[b] - K[c]
      /\ \A k \in c + 1 .. b : Headed(lines, O, k) => k = c + 1
      /\ HasBlock(lines, c, b) \/ b <= c + 1 \/ s.tokens <= Budget
  BY ONLY <1>3 DEF Rest
<1>5. /\ t.chunks = Kept(s, line).chunks /\ t.current = Append(Kept(s, line).current, line)
      /\ t.tokens = Kept(s, line).tokens + Cost(line) /\ t.fence = NextFence(s, line)
  BY ONLY <1>1, Added(s, lines[i], t) DEF Added
<1>6. \A k \in 0 .. n : K[k] \in Nat
  BY ONLY Sums(lines, n, K, W) DEF Sums
<1>7. K[i] = K[b] + Cost(line) /\ Cost(line) \in Nat
  <2>1. K[i] = K[b] + Cost(line)  BY ONLY <1>1, Sums(lines, n, K, W), i \in 1 .. n DEF Sums
  <2>2. Cost(line) \in Nat  BY <1>2, CostTyped
  <2>3. QED  BY <2>1, <2>2
<1>8. CASE Flushes(s, line)
  <2>1. PICK u : u = flush(s)
    OBVIOUS
  <2>2. Flushed(s, u)  BY <1>4, <2>1, FlushTyped
  <2>3. u.chunks = t.chunks /\ u.current = <<>> /\ u.tokens = 0
    BY ONLY <1>5, <1>8, <2>1, <2>2 DEF Kept, Flushed
  <2>4. CutAt(lines, O, b, t.chunks)
    <3>1. CutAt(lines, O, b, u.chunks)  BY <1>2, <1>3, <2>2, FlushCuts, Zenon
    <3>2. QED  BY ONLY <2>3, <3>1
  <2>5. t.current = SubSeq(lines, b + 1, i)
    <3>1. t.current = Append(<<>>, line)  BY ONLY <1>5, <1>8, <2>1, <2>3 DEF Kept
    <3>2. Append(<<>>, line) = <<line>>
      OBVIOUS
    <3>3. SubSeq(lines, b + 1, i) = <<line>>
      <4>1. i \in 1 .. Len(lines)  BY ONLY i \in 1 .. n, n = Len(lines)
      <4>2. PICK x, e : x = SubSeq(lines, i, i) /\ e = lines[i]
        OBVIOUS
      <4>4. i \in Nat \ {0} /\ i <= i + 1 /\ i <= Len(lines) /\ i - i + 1 = 1 /\ i + 1 - 1 = i
        BY ONLY <1>2, <4>1
      <4>5. x \in Seq(Line) /\ Len(x) = 1 /\ x[1] = e
        <5>1. /\ x \in Seq(Line) /\ Len(x) = i - i + 1
              /\ \A m \in 1 .. i - i + 1 : x[m] = lines[i + m - 1]
          BY ONLY <1>2, <4>2, <4>4, PartFacts, lines \in Seq(Line)
        <5>2. 1 \in 1 .. i - i + 1  BY ONLY <4>4
        <5>3. QED  BY ONLY <4>2, <4>4, <5>1, <5>2
      <4>6. x = <<e>>  BY ONLY <4>5
      <4>7. SubSeq(lines, i, i) = <<lines[i]>>  BY ONLY <4>2, <4>6
      <4>3. QED  BY ONLY <1>1, <1>2, <4>7
    <3>4. QED  BY ONLY <3>1, <3>2, <3>3
  <2>6. O[b] = "" /\ s.fence = ""  BY ONLY <1>4, <1>8 DEF Flushes
  <2>7. t.fence # "" => HasBlock(lines, b, i)
    <3> SUFFICES ASSUME t.fence # ""  PROVE HasBlock(lines, b, i)
      OBVIOUS
    <3>1. NextFence(s, line) # ""  BY ONLY <1>5, t.fence # ""
    <3>2. line.kind \in Fences  BY ONLY <2>6, <3>1 DEF NextFence, Opening, Closing
    <3>3. i \in b + 1 .. i  BY ONLY <1>2
    <3>4. QED  BY ONLY <1>1, <3>2, <3>3 DEF HasBlock
  <2>8. t.tokens = K[i] - K[b]
    <3>1. t.tokens = 0 + Cost(line)  BY ONLY <1>5, <1>8, <2>1, <2>3 DEF Kept
    <3>2. K[b] \in Nat  BY ONLY <1>2, <1>6
    <3>3. QED  BY ONLY <1>7, <3>1, <3>2
  <2>9. \A k \in b + 1 .. i : k = b + 1  BY ONLY <1>2
  <2>10. Rest(lines, O, K, b, i, t)
    <3>1. b \in 0 .. i /\ i <= b + 1  BY ONLY <1>2
    <3>2. QED
      BY ONLY <2>5, <2>6, <2>7, <2>8, <2>9, <3>1, O[i] = t.fence, t \in Scans DEF Rest
  <2>11. b \in 0 .. i  BY ONLY <1>2
  <2>12. QED  BY ONLY <2>4, <2>10, <2>11 DEF Going
<1>9. CASE ~ Flushes(s, line)
  <2>1. /\ t.chunks = s.chunks /\ t.current = Append(s.current, line)
        /\ t.tokens = s.tokens + Cost(line) /\ t.fence = NextFence(s, line)
    BY ONLY <1>5, <1>9 DEF Kept
  <2>2. c \in Nat /\ c <= b /\ c \in 0 .. n  BY ONLY <1>2, c \in 0 .. b
  <2>3. t.current = SubSeq(lines, c + 1, i)
    <3>1. c + 1 \in 1 .. b + 1 /\ b + 1 \in 1 .. Len(lines) /\ b + 1 = i
      BY ONLY <1>2, <2>2, i \in 1 .. n, n = Len(lines)
    <3>2. SubSeq(lines, c + 1, b + 1) = Append(SubSeq(lines, c + 1, b), lines[b + 1])
      BY ONLY <1>2, <2>2, <3>1, lines \in Seq(Line)
    <3>3. QED  BY ONLY <1>1, <1>4, <2>1, <3>1, <3>2
  <2>4. \A k : k \in c + 1 .. b => k \in c + 1 .. i  BY ONLY <1>2, <2>2
  <2>5. HasBlock(lines, c, b) => HasBlock(lines, c, i)  BY ONLY <2>4 DEF HasBlock
  <2>6. s.fence = "" => line.kind \notin Fences \cup {"heading"} /\ s.tokens + Cost(line) <= Budget
    <3>1. s.tokens \in Nat  BY <1>4 DEF Scans
    <3>2. Budget \in Int  BY MaxTokensAssumption DEF Budget
    <3>3. s.fence = "" => line.kind \notin Fences \cup {"heading"} /\ ~(s.tokens + Cost(line) > Budget)
      BY ONLY <1>9 DEF Flushes
    <3>4. PICK x, y, B : x = s.tokens /\ y = Cost(line) /\ B = Budget
      OBVIOUS
    <3>5. x \in Nat /\ y \in Nat /\ B \in Int  BY ONLY <1>7, <3>1, <3>2, <3>4
    <3>6. ~(x + y > B) => x + y <= B  BY ONLY <3>5
    <3>7. QED  BY ONLY <3>3, <3>4, <3>6
  <2>7. t.fence # "" => s.fence # ""
    BY ONLY <2>1, <2>6 DEF NextFence, Opening, Closing
  <2>8. t.tokens = K[i] - K[c]
    <3>1. K[b] \in Nat /\ K[c] \in Nat  BY ONLY <1>2, <1>6, <2>2
    <3>2. PICK kb, kc, ki, x, y, z :
            kb = K[b] /\ kc = K[c] /\ ki = K[i] /\ x = s.tokens /\ y = Cost(line) /\ z = t.tokens
      OBVIOUS
    <3>3. kb \in Nat /\ kc \in Nat /\ y \in Nat /\ x = kb - kc /\ ki = kb + y /\ z = x + y
      BY ONLY <1>4, <1>7, <2>1, <3>1, <3>2
    <3>4. z = ki - kc  BY ONLY <3>3
    <3>5. QED  BY ONLY <3>2, <3>4
  <2>9. \A k \in c + 1 .. i : Headed(lines, O, k) => k = c + 1
    <3> SUFFICES ASSUME NEW k \in c + 1 .. i, Headed(lines, O, k)  PROVE k = c + 1
      OBVIOUS
    <3>1. CASE k = i
      <4>1. line.kind = "heading" /\ s.fence = ""
        BY ONLY <1>1, <1>4, <3>1, Headed(lines, O, k) DEF Headed
      <4>2. QED  BY ONLY <2>6, <4>1
    <3>2. CASE k # i
      <4>1. k \in c + 1 .. b  BY ONLY <1>2, <2>2, <3>2, k \in c + 1 .. i
      <4>2. QED  BY ONLY <1>4, <4>1, Headed(lines, O, k)
    <3>3. QED  BY ONLY <3>1, <3>2
  <2>10. HasBlock(lines, c, i) \/ t.tokens <= Budget
    BY ONLY <1>4, <2>1, <2>5, <2>6
  <2>11. c \in 0 .. i  BY ONLY <1>2, <2>2
  <2>12. Rest(lines, O, K, c, i, t)
    BY ONLY <1>4, <2>3, <2>5, <2>7, <2>8, <2>9, <2>10, <2>11, O[i] = t.fence, t \in Scans DEF Rest
  <2>13. CutAt(lines, O, c, t.chunks)  BY ONLY <1>3, <2>1
  <2>14. QED  BY ONLY <2>11, <2>12, <2>13 DEF Going
<1>10. QED  BY ONLY <1>8, <1>9

\* A page is cut whole.
LEMMA PageCut ==
  ASSUME NEW lines \in Seq(Line), NEW n, n = Len(lines), Placed(lines),
         NEW h, Scanned(lines, n, h), NEW O, O = [i \in 0 .. n |-> h[i].fence]
  PROVE  CutAt(lines, O, n, flush(h[n]).chunks)
<1>1. PICK K, W : Sums(lines, n, K, W)  BY SumsExist, Zenon
<1>2. n \in Nat /\ \A i \in 1 .. n : lines[i] \in Line
  OBVIOUS
<1>3. /\ \A i \in 0 .. n : h[i] \in Scans
      /\ h[0] = Empty /\ \A i \in 1 .. n : h[i] = Add(h[i - 1], lines[i])
  BY ONLY Scanned(lines, n, h) DEF Scanned
<1>4. \A i \in 0 .. n : O[i] = h[i].fence
  BY ONLY O = [i \in 0 .. n |-> h[i].fence]
<1> DEFINE S == {i \in 0 .. n : Going(lines, O, K, i, h[i])}
<1>5. 0 \in S
  <2>1. 0 \in 0 .. n /\ 0 \in 0 .. 0  BY ONLY <1>2
  <2>2. PICK s : s = h[0]
    OBVIOUS
  <2>3. s.chunks = <<>> /\ s.current = <<>> /\ s.tokens = 0 /\ s.fence = ""
    <3>1. PICK none, no, zero : none = <<>> /\ no = "" /\ zero = 0
      OBVIOUS
    <3>2. s = [chunks |-> none, current |-> none, tokens |-> zero, fence |-> no]
      BY ONLY <1>3, <2>2, <3>1 DEF Empty
    <3>3. s.chunks = none /\ s.current = none /\ s.tokens = zero /\ s.fence = no
      BY ONLY <3>2
    <3>4. QED  BY ONLY <3>1, <3>3
  <2>4. K[0] = 0  BY ONLY <1>1 DEF Sums
  <2>5. SubSeq(lines, 0 + 1, 0) = <<>>
    OBVIOUS
  <2>6. \A k \in 0 + 1 .. 0 : FALSE
    OBVIOUS
  <2>7. Rest(lines, O, K, 0, 0, s)
    <3>1. s \in Scans /\ O[0] = s.fence  BY ONLY <1>3, <1>4, <2>1, <2>2
    <3>2. s.current = SubSeq(lines, 0 + 1, 0)  BY ONLY <2>3, <2>5
    <3>3. O[0] = ""  BY ONLY <2>3, <3>1
    <3>4. s.fence # "" => HasBlock(lines, 0, 0)  BY ONLY <2>3
    <3>5. s.tokens = K[0] - K[0]
      <4>1. K[0] - K[0] = 0  BY ONLY <2>4
      <4>2. QED  BY ONLY <2>3, <4>1
    <3>6. \A k \in 0 + 1 .. 0 : Headed(lines, O, k) => k = 0 + 1  BY ONLY <2>6
    <3>7. HasBlock(lines, 0, 0) \/ 0 <= 0 + 1 \/ s.tokens <= Budget
      <4>1. 0 <= 0 + 1
        OBVIOUS
      <4>2. QED  BY ONLY <4>1, Zenon
    <3>8. QED  BY ONLY <2>1, <3>1, <3>2, <3>3, <3>4, <3>5, <3>6, <3>7, Zenon DEF Rest
  <2>8. CutAt(lines, O, 0, s.chunks)
    <3>1. \A T : <<>> \in Seq(T)
      OBVIOUS
    <3>2. s.chunks \in Seq(Seq(Line))  BY ONLY <2>3, <3>1
    <3>3. DOMAIN s.chunks = {}
      <4>1. DOMAIN <<>> = {}
        OBVIOUS
      <4>2. QED  BY ONLY <2>3, <4>1, Zenon
    <3>4. Pieces(lines, 0, s.chunks)  BY ONLY <3>3 DEF Pieces
    <3>5. Covered(lines, O, 0, s.chunks)
      <4>1. (\A k \in 1 .. 0 : FALSE) /\ (\A k \in 1 .. 0 - 1 : FALSE)
        OBVIOUS
      <4>2. QED  BY ONLY <4>1 DEF Covered
    <3>6. QED  BY ONLY <3>2, <3>4, <3>5 DEF CutAt
  <2>9. Going(lines, O, K, 0, h[0])  BY ONLY <2>1, <2>2, <2>7, <2>8 DEF Going
  <2>10. QED  BY <2>1, <2>9
<1>6. ASSUME NEW d \in Nat, d < n, d \in S  PROVE d + 1 \in S
  <2>1. PICK i : i = d + 1
    OBVIOUS
  <2>2. i \in 1 .. n /\ i \in 0 .. n /\ i - 1 = d /\ d \in 0 .. n  BY <1>2, <1>6, <2>1
  <2>3. PICK s, t : s = h[d] /\ t = h[i]
    OBVIOUS
  <2>4. Going(lines, O, K, i - 1, s)  BY <1>6, <2>2, <2>3
  <2>5. s \in Scans /\ t \in Scans /\ t = Add(s, lines[i]) /\ lines[i] \in Line /\ O[i] = t.fence
    BY ONLY <1>2, <1>3, <1>4, <2>2, <2>3
  <2>6. Added(s, lines[i], t)  BY <2>5, AddTyped
  <2>7. t \in Scans /\ O[i] = t.fence  BY ONLY <2>5
  <2>8. Going(lines, O, K, i, t)  BY <1>1, <2>2, <2>4, <2>6, <2>7, AddGoes, Zenon
  <2>9. QED  BY <2>1, <2>2, <2>3, <2>8
<1> HIDE DEF S
<1>7. \A i \in 0 .. n : i \in S  BY ONLY <1>2, <1>5, <1>6, UpTo
<1>8. n \in 0 .. n /\ n \in S  BY ONLY <1>2, <1>7
<1>9. PICK s, t : s = h[n] /\ t = flush(h[n])
  OBVIOUS
<1>10. Going(lines, O, K, n, s)  BY <1>8, <1>9 DEF S
<1>11. PICK c \in 0 .. n : Rest(lines, O, K, c, n, s) /\ CutAt(lines, O, c, s.chunks)
  BY ONLY <1>10 DEF Going
<1>12. Flushed(s, t)  BY <1>3, <1>8, <1>9, FlushTyped
<1>13. CutAt(lines, O, n, t.chunks)  BY <1>1, <1>8, <1>11, <1>12, FlushCuts, Zenon
<1>14. QED  BY ONLY <1>9, <1>13

---------------------------------------------------------------------------
(* The chunks of a page, and the stub.                                     *)

\* The lines of a chunk that are not blank are lines of the page, in their order,
\* between line l and line u.
Text(lines, x) == \A i \in DOMAIN x : Solid(x[i]) => \E k \in DOMAIN lines : x[i] = lines[k]
Neat(x, l, u) ==
  /\ l \in Nat /\ u \in Nat /\ l <= u
  /\ \A i \in DOMAIN x : Solid(x[i]) => l <= x[i].at /\ x[i].at <= u
  /\ \A i, j \in DOMAIN x : i < j /\ Solid(x[i]) /\ Solid(x[j]) => x[i].at < x[j].at
Laid(lines, made, L, U) ==
  /\ \A j \in DOMAIN made : Text(lines, made[j]) /\ Neat(made[j], L[j], U[j])
  /\ \A i, j \in DOMAIN made : i < j => U[i] < L[j]
Finds(lines, O, n, made) ==
  /\ \A k \in 1 .. n : Solid(lines[k]) => \E j \in DOMAIN made : Carries(made[j], lines[k])
  /\ \A k \in 1 .. n - 1 : Inside(lines, O, k) =>
       \E j \in DOMAIN made : Carries(made[j], lines[k]) /\ Carries(made[j], lines[k + 1])
  /\ \A k \in 1 .. n : Headed(lines, O, k) =>
       \E j \in DOMAIN made : Carries(made[j], lines[k]) /\ (Top(made[j]) = k \/ j = Len(made))

\* Chunks laid out like that are the page.
LEMMA LaidWhole ==
  ASSUME NEW lines \in Seq(Line), NEW n, n = Len(lines), Placed(lines),
         NEW O, \A i \in 0 .. n : Opened(lines, i) = O[i],
         NEW made \in Seq(Seq(Line)), NEW L, NEW U, Laid(lines, made, L, U), Finds(lines, O, n, made)
  PROVE  AllThere(lines, made) /\ BlocksKept(lines, made) /\ HeadingsOnTop(lines, made)
<1>1. n \in Nat /\ DOMAIN lines = 1 .. n /\ Len(lines) = n
  OBVIOUS
<1>2. \A k \in 1 .. n : lines[k].at = k  BY ONLY <1>1, Placed(lines) DEF Placed
<1>3. \A j \in DOMAIN made : Text(lines, made[j]) /\ Neat(made[j], L[j], U[j])
  BY ONLY Laid(lines, made, L, U) DEF Laid
<1>4. \A c, d \in DOMAIN made : \A i \in DOMAIN made[c], j \in DOMAIN made[d] :
        /\ Solid(made[c][i]) /\ Solid(made[d][j])
        /\ c < d \/ (c = d /\ i < j)
        => made[c][i].at < made[d][j].at
  <2> SUFFICES ASSUME NEW c \in DOMAIN made, NEW d \in DOMAIN made,
                      NEW i \in DOMAIN made[c], NEW j \in DOMAIN made[d],
                      Solid(made[c][i]), Solid(made[d][j]), c < d \/ (c = d /\ i < j)
               PROVE  made[c][i].at < made[d][j].at
    OBVIOUS
  <2>1. CASE c = d /\ i < j
    <3>1. Neat(made[c], L[c], U[c])  BY ONLY <1>3, c \in DOMAIN made
    <3>2. j \in DOMAIN made[c] /\ Solid(made[c][j])
      BY ONLY <2>1, j \in DOMAIN made[d], Solid(made[d][j])
    <3>3. made[c][i].at < made[c][j].at
      BY ONLY <2>1, <3>1, <3>2, i \in DOMAIN made[c], Solid(made[c][i]) DEF Neat
    <3>4. QED  BY ONLY <2>1, <3>3
  <2>2. CASE c < d
    <3>1. U[c] < L[d]
      BY ONLY <2>2, Laid(lines, made, L, U), c \in DOMAIN made, d \in DOMAIN made DEF Laid
    <3>2. U[c] \in Nat /\ made[c][i].at <= U[c]
      BY ONLY <1>3, c \in DOMAIN made, i \in DOMAIN made[c], Solid(made[c][i]) DEF Neat
    <3>3. L[d] \in Nat /\ L[d] <= made[d][j].at
      BY ONLY <1>3, d \in DOMAIN made, j \in DOMAIN made[d], Solid(made[d][j]) DEF Neat
    <3>4. made[c][i].at \in Nat /\ made[d][j].at \in Nat
      <4>1. made[c] \in Seq(Line) /\ made[d] \in Seq(Line)
        <5>1. PICK T : T = Seq(Line)
          OBVIOUS
        <5>2. made \in Seq(T)  BY ONLY <5>1, made \in Seq(Seq(Line))
        <5>3. QED  BY ONLY <5>1, <5>2, c \in DOMAIN made, d \in DOMAIN made
      <4>2. made[c][i] \in Line /\ made[d][j] \in Line
        BY ONLY <4>1, i \in DOMAIN made[c], j \in DOMAIN made[d]
      <4>3. QED  BY ONLY <4>2 DEF Line
    <3>5. PICK a, b, u, l : a = made[c][i].at /\ b = made[d][j].at /\ u = U[c] /\ l = L[d]
      OBVIOUS
    <3>6. a < b  BY ONLY <3>1, <3>2, <3>3, <3>4, <3>5
    <3>7. QED  BY ONLY <3>5, <3>6
  <2>3. QED  BY ONLY <2>1, <2>2, c < d \/ (c = d /\ i < j)
<1>5. AllThere(lines, made)
  <2>1. \A k \in DOMAIN lines :
          Solid(lines[k]) => \E c \in DOMAIN made : \E i \in DOMAIN made[c] : made[c][i] = lines[k]
    BY ONLY <1>1, Finds(lines, O, n, made) DEF Finds, Carries
  <2>2. \A c \in DOMAIN made : \A i \in DOMAIN made[c] :
          Solid(made[c][i]) => \E k \in DOMAIN lines : made[c][i] = lines[k]
    BY ONLY <1>3 DEF Text
  <2>3. QED  BY ONLY <1>4, <2>1, <2>2, Zenon DEF AllThere
<1>6. \A k \in 1 .. n : \A c \in DOMAIN made : Carries(made[c], lines[k]) => Stands(made, c, k)
  BY ONLY <1>2 DEF Carries, Stands
<1>7. BlocksKept(lines, made)
  <2>1. ASSUME NEW k \in 1 .. n - 1, Opened(lines, k) # "", Solid(lines[k]), Solid(lines[k + 1])
        PROVE  \E c \in DOMAIN made : Stands(made, c, k) /\ Stands(made, c, k + 1)
    <3>1. k \in 0 .. n /\ k \in 1 .. n /\ k + 1 \in 1 .. n  BY ONLY <1>1, k \in 1 .. n - 1
    <3>2. O[k] # ""  BY <2>1, <3>1
    <3>3. Inside(lines, O, k)  BY ONLY <2>1, <3>2 DEF Inside
    <3>4. PICK c \in DOMAIN made : Carries(made[c], lines[k]) /\ Carries(made[c], lines[k + 1])
      BY ONLY <3>3, Finds(lines, O, n, made), k \in 1 .. n - 1 DEF Finds
    <3>5. QED  BY ONLY <1>6, <3>1, <3>4
  <2>2. QED  BY ONLY <1>1, <2>1 DEF BlocksKept
<1>8. HeadingsOnTop(lines, made)
  <2>1. ASSUME NEW k \in 1 .. n, lines[k].kind = "heading", Opened(lines, k - 1) = ""
        PROVE  \E c \in DOMAIN made : Stands(made, c, k) /\ (made[c][1].at = k \/ c = Len(made))
    <3>1. k - 1 \in 0 .. n  BY ONLY <1>1, k \in 1 .. n
    <3>2. O[k - 1] = ""  BY <2>1, <3>1
    <3>3. Headed(lines, O, k)  BY ONLY <2>1, <3>2 DEF Headed
    <3>4. PICK c \in DOMAIN made : Carries(made[c], lines[k]) /\ (Top(made[c]) = k \/ c = Len(made))
      BY ONLY <3>3, Finds(lines, O, n, made), k \in 1 .. n DEF Finds
    <3>5. QED  BY ONLY <1>6, <3>4, k \in 1 .. n DEF Top
  <2>2. QED  BY ONLY <1>1, <2>1 DEF HeadingsOnTop
<1>9. QED  BY ONLY <1>5, <1>7, <1>8

\* A part of the page is laid out like that.
LEMMA PieceNeat ==
  ASSUME NEW lines \in Seq(Line), Placed(lines), NEW x, Piece(lines, x)
  PROVE  Text(lines, x) /\ Neat(x, Top(x), Bottom(x)) /\ x \in Seq(Line) /\ Len(x) \in Nat \ {0}
<1>1. PICK n : n = Len(lines)
  OBVIOUS
<1>2. n \in Nat /\ DOMAIN lines = 1 .. n  BY ONLY <1>1, lines \in Seq(Line)
<1>3. PICK a \in 1 .. n : \E b \in a .. n : Stretch(lines, a, b, x)
  BY ONLY <1>1, Piece(lines, x) DEF Piece
<1>4. PICK b \in a .. n : Stretch(lines, a, b, x)  BY ONLY <1>3
<1>5. PICK p : p = b - a + 1
  OBVIOUS
<1>6. a \in Nat /\ b \in Nat /\ 1 <= a /\ a <= b /\ b <= n /\ p \in Nat \ {0} /\ a + p - 1 = b
  BY ONLY <1>2, <1>5, a \in 1 .. n, b \in a .. n
<1>7. /\ x \in Seq(Line) /\ Len(x) = p /\ DOMAIN x = 1 .. p /\ Top(x) = a /\ Bottom(x) = b
      /\ \A i \in 1 .. p : x[i] = lines[a + i - 1] /\ x[i].at = a + i - 1
  BY ONLY <1>4, <1>5 DEF Stretch
<1>8. Text(lines, x)
  <2>1. \A i \in 1 .. p : a + i - 1 \in 1 .. n  BY ONLY <1>2, <1>6
  <2>2. QED  BY ONLY <1>2, <1>7, <2>1 DEF Text
<1>9. Neat(x, a, b)
  <2>1. \A i \in 1 .. p : a <= a + i - 1 /\ a + i - 1 <= b  BY ONLY <1>6
  <2>2. \A i, j \in 1 .. p : i < j => a + i - 1 < a + j - 1  BY ONLY <1>6
  <2>3. \A i \in DOMAIN x : Solid(x[i]) => a <= x[i].at /\ x[i].at <= b
    BY ONLY <1>7, <2>1
  <2>4. \A i, j \in DOMAIN x : i < j /\ Solid(x[i]) /\ Solid(x[j]) => x[i].at < x[j].at
    BY ONLY <1>7, <2>2
  <2>5. QED  BY ONLY <1>6, <2>3, <2>4 DEF Neat
<1>10. QED  BY ONLY <1>6, <1>7, <1>8, <1>9

Gap == [kind |-> "blank", len |-> 0, at |-> 0]

\* Where the lines of two chunks are when they are glued.
Joined(a, b, x) ==
  /\ x \in Seq(Line) /\ Len(x) = Len(a) + 1 + Len(b) /\ DOMAIN x = 1 .. Len(a) + 1 + Len(b)
  /\ \A i \in 1 .. Len(a) : x[i] = a[i]
  /\ x[Len(a) + 1] = Gap
  /\ \A i \in 1 .. Len(b) : x[Len(a) + 1 + i] = b[i]

\* They are there when the two are one behind the other with a blank line between.
LEMMA GlueFacts ==
  ASSUME NEW a \in Seq(Line), NEW b \in Seq(Line), NEW x, x = a \o <<Gap>> \o b
  PROVE  Joined(a, b, x)
<1>1. PICK g, one : g = Gap /\ one = <<g>>
  OBVIOUS
<1>2. g \in Line  BY <1>1 DEF Gap, Line, Kinds
<1>3. one \in Seq(Line) /\ Len(one) = 1 /\ one[1] = g  BY ONLY <1>1, <1>2
<1>4. PICK y : y = a \o one
  OBVIOUS
<1>5. x = y \o b  BY ONLY <1>1, <1>4, x = a \o <<Gap>> \o b
<1>6. /\ y \in Seq(Line) /\ Len(y) = Len(a) + Len(one) /\ Len(a) \in Nat
      /\ \A i \in 1 .. Len(a) : y[i] = a[i]
      /\ \A i \in 1 .. Len(one) : y[Len(a) + i] = one[i]
  <2>1. Behind(a, one, y) /\ y \in Seq(Line)  BY <1>3, <1>4, BehindFacts, Zenon
  <2>2. Len(a) \in Nat  BY ONLY a \in Seq(Line)
  <2>3. QED  BY ONLY <2>1, <2>2 DEF Behind
<1>7. /\ x \in Seq(Line) /\ Len(x) = Len(y) + Len(b) /\ Len(b) \in Nat
      /\ DOMAIN x = 1 .. Len(y) + Len(b)
      /\ \A i \in 1 .. Len(y) : x[i] = y[i]
      /\ \A i \in 1 .. Len(b) : x[Len(y) + i] = b[i]
  <2>1. y \in Seq(Line)  BY ONLY <1>6
  <2>2. Behind(y, b, x) /\ x \in Seq(Line)  BY <1>5, <2>1, BehindFacts, Zenon
  <2>3. Len(b) \in Nat  BY ONLY b \in Seq(Line)
  <2>4. QED  BY ONLY <2>2, <2>3 DEF Behind
<1>8. PICK m, l : m = Len(a) /\ l = Len(b)
  OBVIOUS
<1>9. m \in Nat /\ l \in Nat /\ Len(y) = m + 1  BY ONLY <1>3, <1>6, <1>7, <1>8
<1>10. \A i \in 1 .. m : x[i] = a[i]
  <2>1. \A i \in 1 .. m : i \in 1 .. m + 1  BY ONLY <1>9
  <2>2. QED  BY ONLY <1>6, <1>7, <1>8, <1>9, <2>1
<1>11. x[m + 1] = Gap
  <2>1. m + 1 \in 1 .. m + 1 /\ 1 \in 1 .. 1  BY ONLY <1>9
  <2>2. x[m + 1] = y[m + 1]  BY ONLY <1>7, <1>9, <2>1
  <2>3. y[m + 1] = one[1]  BY ONLY <1>3, <1>6, <1>8, <2>1
  <2>4. QED  BY ONLY <1>1, <1>3, <2>2, <2>3
<1>12. QED  BY ONLY <1>7, <1>8, <1>9, <1>10, <1>11 DEF Joined

\* How long two chunks are when they are glued.
LEMMA GlueLength ==
  ASSUME NEW a \in Seq(Line), NEW b \in Seq(Line), NEW x, Joined(a, b, x)
  PROVE  Length(x) = Length(a) + Length(b) + 2 /\ Length(a) \in Int /\ Length(b) \in Int
<1>1. PICK m, l, p : m = Len(a) /\ l = Len(b) /\ p = m + 1 + l
  OBVIOUS
<1>2. m \in Nat /\ l \in Nat /\ p \in Nat  BY ONLY <1>1, a \in Seq(Line), b \in Seq(Line)
<1>3. /\ x \in Seq(Line) /\ p = Len(x) /\ \A i \in 1 .. m : x[i] = a[i]
      /\ x[m + 1] = Gap /\ \A i \in 1 .. l : x[m + 1 + i] = b[i]
  BY ONLY <1>1, Joined(a, b, x) DEF Joined
<1>4. PICK u : Lengths(a, m, u)  BY <1>1, LengthEnds, Zenon
<1>5. PICK v : Lengths(b, l, v)  BY <1>1, LengthEnds, Zenon
<1>6. PICK w : Lengths(x, p, w)  BY <1>3, LengthEnds, Zenon
<1>7. /\ u[0] = m - 1 /\ u[m] = Length(a) /\ \A i \in 1 .. m : u[i] = u[i - 1] + a[i].len
      /\ v[0] = l - 1 /\ v[l] = Length(b) /\ \A i \in 1 .. l : v[i] = v[i - 1] + b[i].len
      /\ w[0] = p - 1 /\ w[p] = Length(x) /\ \A i \in 1 .. p : w[i] = w[i - 1] + x[i].len
  BY ONLY <1>4, <1>5, <1>6 DEF Lengths
<1>8. u[0] \in Int /\ v[0] \in Int /\ w[0] \in Int  BY ONLY <1>2, <1>7
<1>9. (\A i \in 1 .. m : a[i].len \in Int) /\ (\A i \in 1 .. l : b[i].len \in Int)
  <2>1. (\A i \in 1 .. m : a[i] \in Line) /\ (\A i \in 1 .. l : b[i] \in Line)
    BY ONLY <1>1, a \in Seq(Line), b \in Seq(Line)
  <2>2. QED  BY <2>1, CostTyped
<1>10. w[m] - w[0] = u[m] - u[0] /\ w[m] \in Int /\ u[m] \in Int
  <2>1. PICK y : y = [i \in 1 .. m |-> a[i].len]
    OBVIOUS
  <2>2. \A i \in 1 .. m : y[i] \in Int /\ w[i] = w[i - 1] + y[i] /\ u[i] = u[i - 1] + y[i]
    <3>1. \A i \in 1 .. m : i \in 1 .. p  BY ONLY <1>1, <1>2
    <3>2. QED  BY ONLY <1>3, <1>7, <1>9, <2>1, <3>1
  <2>3. Climbs(m, w, y) /\ Climbs(m, u, y)  BY ONLY <1>8, <2>2 DEF Climbs
  <2>4. Apart(m, w, u)  BY <1>2, <2>3, SumsApart, Zenon
  <2>5. QED  BY ONLY <2>4 DEF Apart
<1>11. w[m + 1] = w[m]
  <2>1. m + 1 \in 1 .. p /\ (m + 1) - 1 = m  BY ONLY <1>1, <1>2
  <2>2. w[m + 1] = w[m] + x[m + 1].len  BY ONLY <1>7, <2>1
  <2>3. x[m + 1].len = 0  BY ONLY <1>3 DEF Gap
  <2>4. QED  BY ONLY <1>10, <2>2, <2>3
<1>12. PICK t : t = [i \in 0 .. l |-> w[m + 1 + i]]
  OBVIOUS
<1>13. t[0] = w[m] /\ t[l] = w[p]
  <2>1. 0 \in 0 .. l /\ l \in 0 .. l /\ m + 1 + 0 = m + 1 /\ m + 1 + l = p  BY ONLY <1>1, <1>2
  <2>2. QED  BY ONLY <1>11, <1>12, <2>1
<1>14. t[l] - t[0] = v[l] - v[0] /\ t[l] \in Int /\ v[l] \in Int
  <2>1. PICK y : y = [i \in 1 .. l |-> b[i].len]
    OBVIOUS
  <2>2. ASSUME NEW i \in 1 .. l
        PROVE  y[i] \in Int /\ t[i] = t[i - 1] + y[i] /\ v[i] = v[i - 1] + y[i]
    <3>1. PICK k : k = m + 1 + i
      OBVIOUS
    <3>2. /\ k \in 1 .. p /\ i \in 0 .. l /\ i - 1 \in 0 .. l /\ k - 1 = m + 1 + (i - 1)
      BY ONLY <1>1, <1>2, <3>1, i \in 1 .. l
    <3>3. t[i] = w[k] /\ t[i - 1] = w[k - 1] /\ x[k] = b[i] /\ y[i] = b[i].len
      BY ONLY <1>3, <1>12, <2>1, <3>1, <3>2, i \in 1 .. l
    <3>4. w[k] = w[k - 1] + x[k].len  BY ONLY <1>7, <3>2
    <3>5. QED  BY ONLY <1>7, <1>9, <3>3, <3>4, i \in 1 .. l
  <2>3. t[0] \in Int  BY ONLY <1>10, <1>13
  <2>4. Climbs(l, t, y) /\ Climbs(l, v, y)  BY ONLY <1>8, <2>2, <2>3 DEF Climbs
  <2>5. Apart(l, t, v)  BY <1>2, <2>4, SumsApart, Zenon
  <2>6. QED  BY ONLY <2>5 DEF Apart
<1>15. PICK la, lb, lx, wm : la = Length(a) /\ lb = Length(b) /\ lx = Length(x) /\ wm = w[m]
  OBVIOUS
<1>16. /\ wm - (p - 1) = la - (m - 1) /\ wm \in Int /\ la \in Int
       /\ lx - wm = lb - (l - 1) /\ lx \in Int /\ lb \in Int
  BY ONLY <1>7, <1>10, <1>13, <1>14, <1>15
<1>17. lx = la + lb + 2  BY ONLY <1>1, <1>2, <1>16
<1>18. QED  BY ONLY <1>15, <1>16, <1>17

\* The lines of both chunks are in the glued one, in their order.
Glued(lines, a, b, x) ==
  /\ Text(lines, x) /\ Neat(x, Top(a), Bottom(b)) /\ Top(x) = Top(a)
  /\ \A line : Carries(a, line) \/ Carries(b, line) => Carries(x, line)

\* They are in the order of the page, as the second chunk begins behind the first.
LEMMA GlueNeat ==
  ASSUME NEW lines \in Seq(Line), Placed(lines), NEW a, Piece(lines, a), NEW b, Piece(lines, b),
         Bottom(a) < Top(b), NEW x, Joined(a, b, x)
  PROVE  Glued(lines, a, b, x)
<1>1. PICK m, l : m = Len(a) /\ l = Len(b)
  OBVIOUS
<1>2. PICK la, ua, lb, ub : la = Top(a) /\ ua = Bottom(a) /\ lb = Top(b) /\ ub = Bottom(b)
  OBVIOUS
<1>3. Text(lines, a) /\ Neat(a, la, ua) /\ a \in Seq(Line) /\ m \in Nat \ {0}
  BY <1>1, <1>2, PieceNeat
<1>4. Text(lines, b) /\ Neat(b, lb, ub) /\ b \in Seq(Line) /\ l \in Nat \ {0}
  BY <1>1, <1>2, PieceNeat
<1>5. /\ x \in Seq(Line) /\ DOMAIN x = 1 .. m + 1 + l /\ \A i \in 1 .. m : x[i] = a[i]
      /\ x[m + 1] = Gap /\ \A i \in 1 .. l : x[m + 1 + i] = b[i]
  BY ONLY <1>1, Joined(a, b, x) DEF Joined
<1>6. DOMAIN a = 1 .. m /\ DOMAIN b = 1 .. l  BY ONLY <1>1, <1>3, <1>4
<1>7. ~ Solid(x[m + 1])  BY ONLY <1>5 DEF Solid, Gap
<1>8. ASSUME NEW i \in DOMAIN x, Solid(x[i])
      PROVE  \/ i \in 1 .. m /\ x[i] = a[i] /\ Solid(a[i])
             \/ i - (m + 1) \in 1 .. l /\ x[i] = b[i - (m + 1)] /\ Solid(b[i - (m + 1)])
  <2>1. i \in 1 .. m + 1 + l  BY ONLY <1>5, i \in DOMAIN x
  <2>2. i # m + 1  BY ONLY <1>7, <1>8
  <2>3. i \in 1 .. m \/ i - (m + 1) \in 1 .. l  BY ONLY <1>3, <1>4, <2>1, <2>2
  <2>4. i - (m + 1) \in 1 .. l => x[i] = b[i - (m + 1)]
    <3>1. PICK k : k = i - (m + 1)
      OBVIOUS
    <3>2. i = m + 1 + k  BY ONLY <1>3, <2>1, <3>1
    <3>3. QED  BY ONLY <1>5, <3>1, <3>2
  <2>5. QED  BY ONLY <1>5, <1>8, <2>3, <2>4
<1>9. \A i \in DOMAIN x : Solid(x[i]) => i \in Int  BY ONLY <1>3, <1>4, <1>5
<1>10. Text(lines, x)
  BY ONLY <1>3, <1>4, <1>6, <1>8 DEF Text
<1>11. la \in Nat /\ ua \in Nat /\ lb \in Nat /\ ub \in Nat /\ la <= ua /\ ua < lb /\ lb <= ub
  BY ONLY <1>2, <1>3, <1>4, Bottom(a) < Top(b) DEF Neat
<1>12. (\A i \in 1 .. m : a[i].at \in Nat) /\ (\A i \in 1 .. l : b[i].at \in Nat)
  <2>1. (\A i \in 1 .. m : a[i] \in Line) /\ (\A i \in 1 .. l : b[i] \in Line)
    BY ONLY <1>3, <1>4, <1>6
  <2>2. QED  BY ONLY <2>1 DEF Line
<1>13. /\ \A i \in 1 .. m : Solid(a[i]) => la <= a[i].at /\ a[i].at <= ua
       /\ \A i \in 1 .. l : Solid(b[i]) => lb <= b[i].at /\ b[i].at <= ub
       /\ \A i, j \in 1 .. m : i < j /\ Solid(a[i]) /\ Solid(a[j]) => a[i].at < a[j].at
       /\ \A i, j \in 1 .. l : i < j /\ Solid(b[i]) /\ Solid(b[j]) => b[i].at < b[j].at
  BY ONLY <1>3, <1>4, <1>6 DEF Neat
<1>14. Neat(x, la, ub)
  <2>1. ASSUME NEW i \in DOMAIN x, Solid(x[i])  PROVE la <= x[i].at /\ x[i].at <= ub
    <3>1. CASE i \in 1 .. m /\ x[i] = a[i] /\ Solid(a[i])
      <4>1. PICK z : z = a[i].at
        OBVIOUS
      <4>2. z \in Nat /\ la <= z /\ z <= ua  BY ONLY <1>12, <1>13, <3>1, <4>1
      <4>3. la <= z /\ z <= ub  BY ONLY <1>11, <4>2
      <4>4. QED  BY ONLY <3>1, <4>1, <4>3
    <3>2. ASSUME NEW k \in 1 .. l, x[i] = b[k], Solid(b[k])  PROVE la <= x[i].at /\ x[i].at <= ub
      <4>1. PICK z : z = b[k].at
        OBVIOUS
      <4>2. z \in Nat /\ lb <= z /\ z <= ub  BY ONLY <1>12, <1>13, <3>2, <4>1
      <4>3. la <= z /\ z <= ub  BY ONLY <1>11, <4>2
      <4>4. QED  BY ONLY <3>2, <4>1, <4>3
    <3>3. QED  BY <1>8, <2>1, <3>1, <3>2
  <2>2. ASSUME NEW i \in DOMAIN x, NEW j \in DOMAIN x, i < j, Solid(x[i]), Solid(x[j])
        PROVE  x[i].at < x[j].at
    <3>0. i \in Int /\ j \in Int  BY ONLY <1>3, <1>4, <1>5, i \in DOMAIN x, j \in DOMAIN x
    <3>1. CASE i \in 1 .. m /\ x[i] = a[i] /\ Solid(a[i]) /\ j \in 1 .. m /\ x[j] = a[j] /\ Solid(a[j])
      BY ONLY <1>13, <2>2, <3>1
    <3>2. ASSUME i \in 1 .. m, x[i] = a[i], Solid(a[i]), NEW k \in 1 .. l, x[j] = b[k], Solid(b[k])
          PROVE  x[i].at < x[j].at
      <4>1. PICK y, z : y = a[i].at /\ z = b[k].at
        OBVIOUS
      <4>2. y \in Nat /\ z \in Nat /\ y <= ua /\ lb <= z  BY ONLY <1>12, <1>13, <3>2, <4>1
      <4>3. y < z  BY ONLY <1>11, <4>2
      <4>4. QED  BY ONLY <3>2, <4>1, <4>3
    <3>3. CASE i - (m + 1) \in 1 .. l /\ j \in 1 .. m
      BY ONLY <1>3, <2>2, <3>0, <3>3
    <3>4. CASE /\ i - (m + 1) \in 1 .. l /\ x[i] = b[i - (m + 1)] /\ Solid(b[i - (m + 1)])
               /\ j - (m + 1) \in 1 .. l /\ x[j] = b[j - (m + 1)] /\ Solid(b[j - (m + 1)])
      <4>1. PICK d, e : d = i - (m + 1) /\ e = j - (m + 1)
        OBVIOUS
      <4>2. d < e  BY ONLY <1>3, <2>2, <3>0, <4>1
      <4>3. QED  BY ONLY <1>13, <3>4, <4>1, <4>2
    <3>5. \/ i \in 1 .. m /\ x[i] = a[i] /\ Solid(a[i])
          \/ i - (m + 1) \in 1 .. l /\ x[i] = b[i - (m + 1)] /\ Solid(b[i - (m + 1)])
      BY <1>8, <2>2
    <3>6. \/ j \in 1 .. m /\ x[j] = a[j] /\ Solid(a[j])
          \/ j - (m + 1) \in 1 .. l /\ x[j] = b[j - (m + 1)] /\ Solid(b[j - (m + 1)])
      BY <1>8, <2>2
    <3>7. QED  BY ONLY <3>1, <3>2, <3>3, <3>4, <3>5, <3>6
  <2>3. la \in Nat /\ ub \in Nat /\ la <= ub  BY ONLY <1>11
  <2>4. QED  BY ONLY <2>1, <2>2, <2>3 DEF Neat
<1>15. Top(x) = Top(a)
  <2>1. 1 \in 1 .. m  BY ONLY <1>3
  <2>2. QED  BY ONLY <1>5, <2>1 DEF Top
<1>16. \A line : Carries(a, line) \/ Carries(b, line) => Carries(x, line)
  <2>1. \A i \in 1 .. m : i \in 1 .. m + 1 + l  BY ONLY <1>3, <1>4
  <2>2. \A i \in 1 .. l : m + 1 + i \in 1 .. m + 1 + l  BY ONLY <1>3, <1>4
  <2>3. QED  BY ONLY <1>5, <1>6, <2>1, <2>2 DEF Carries
<1>17. QED  BY ONLY <1>2, <1>10, <1>14, <1>15, <1>16 DEF Glued

\* Rounding two lengths apart costs less than one token each.
LEMMA TokensOfBoth ==
  ASSUME NEW p \in Int, NEW q \in Int, NEW r, r = p + q + 2
  PROVE  Tokens(r) <= Tokens(p) + Tokens(q) + 2 /\ Tokens(p) \in Nat /\ Tokens(q) \in Nat
<1>1. PICK d, e, f : d = p \div 4 /\ e = q \div 4 /\ f = r \div 4
  OBVIOUS
<1>2. /\ d \in Int /\ e \in Int /\ f \in Int /\ 4 * d <= p /\ p <= 4 * d + 3
      /\ 4 * e <= q /\ q <= 4 * e + 3 /\ 4 * f <= r /\ r <= 4 * f + 3
  BY ONLY <1>1, p \in Int, q \in Int, r = p + q + 2
<1>3. f <= d + e + 2  BY ONLY <1>2, p \in Int, q \in Int, r = p + q + 2
<1>4. Tokens(p) \in Nat /\ Tokens(q) \in Nat /\ Tokens(p) >= d /\ Tokens(p) >= 1
      /\ Tokens(q) >= e /\ Tokens(q) >= 1 /\ (Tokens(r) = f \/ Tokens(r) = 1)
  BY <1>1, <1>2 DEF Tokens
<1>5. PICK x, y, z : x = Tokens(p) /\ y = Tokens(q) /\ z = Tokens(r)
  OBVIOUS
<1>6. z <= x + y + 2  BY ONLY <1>2, <1>3, <1>4, <1>5
<1>7. QED  BY ONLY <1>4, <1>5, <1>6

\* What the budget of a glued chunk is.
StubBudget(x) ==
  \/ HasFence(x)
  \/ InBudget(x, StubLimit)
  \/ x[2].at = 0 /\ Tokens(Length(x)) <= Cost(x[1]) + StubLimit + Len(x)

\* A stub costs the chunk before it no more than the limit of a stub.
LEMMA GlueBudget ==
  ASSUME NEW a \in Seq(Line), NEW b \in Seq(Line), Len(a) >= 1, Frugal(a),
         Tokens(Length(b)) < StubLimit, NEW x, Joined(a, b, x)
  PROVE  StubBudget(x)
<1>1. PICK m, l : m = Len(a) /\ l = Len(b)
  OBVIOUS
<1>2. m \in Nat /\ l \in Nat /\ m >= 1  BY ONLY <1>1, a \in Seq(Line), b \in Seq(Line), Len(a) >= 1
<1>3. /\ Len(x) = m + 1 + l /\ DOMAIN x = 1 .. m + 1 + l
      /\ x[m + 1] = Gap /\ \A i \in 1 .. m : x[i] = a[i]
  BY ONLY <1>1, Joined(a, b, x) DEF Joined
<1>4. Length(x) = Length(a) + Length(b) + 2 /\ Length(a) \in Int /\ Length(b) \in Int
  BY GlueLength
<1>5. PICK ta, tb, tx, S, B : /\ ta = Tokens(Length(a)) /\ tb = Tokens(Length(b))
                          /\ tx = Tokens(Length(x)) /\ S = StubLimit /\ B = Budget
  OBVIOUS
<1>6. tx <= ta + tb + 2 /\ ta \in Nat /\ tb \in Nat /\ tb < S
  <2>1. /\ Tokens(Length(x)) <= Tokens(Length(a)) + Tokens(Length(b)) + 2
        /\ Tokens(Length(a)) \in Nat /\ Tokens(Length(b)) \in Nat
    BY <1>4, TokensOfBoth
  <2>2. QED  BY ONLY <1>5, <2>1, Tokens(Length(b)) < StubLimit
<1>7. S \in Int /\ B \in Int /\ tx \in Int
  <2>1. B \in Int  BY <1>5, MaxTokensAssumption DEF Budget
  <2>2. S \in Int  BY <1>5, <2>1 DEF StubLimit
  <2>3. tx \in Int  BY <1>4, <1>5 DEF Tokens
  <2>4. QED  BY ONLY <2>1, <2>2, <2>3
<1>8. CASE HasFence(a)
  <2>1. PICK i \in DOMAIN a : a[i].kind \in Fences  BY ONLY <1>8 DEF HasFence
  <2>2. i \in 1 .. m /\ i \in 1 .. m + 1 + l
    <3>1. i \in 1 .. m  BY ONLY <1>1, a \in Seq(Line), i \in DOMAIN a
    <3>2. QED  BY ONLY <1>2, <3>1
  <2>3. HasFence(x)  BY ONLY <1>3, <2>1, <2>2 DEF HasFence
  <2>4. QED  BY ONLY <2>3 DEF StubBudget
<1>9. CASE Len(a) = 1
  <2>1. m = 1 /\ 1 \in 1 .. m  BY ONLY <1>1, <1>9
  <2>2. x[2].at = 0 /\ x[1] = a[1]
    <3>1. m + 1 = 2  BY ONLY <2>1
    <3>2. x[2] = Gap  BY ONLY <1>3, <3>1
    <3>3. QED  BY ONLY <1>3, <2>1, <3>2 DEF Gap
  <2>3. Length(a) = a[1].len
    <3>1. PICK w : Lengths(a, m, w)  BY <1>1, LengthEnds, Zenon
    <3>2. /\ w[0] = m - 1 /\ w[m] = Length(a)
          /\ \A i \in 1 .. m : w[i] = w[i - 1] + a[i].len
      BY ONLY <3>1 DEF Lengths
    <3>3. w[1] = w[1 - 1] + a[1].len  BY ONLY <2>1, <3>2
    <3>4. a[1].len \in Nat
      <4>1. a[1] \in Line
        <5>1. DOMAIN a = 1 .. Len(a) /\ \A i \in DOMAIN a : a[i] \in Line
          BY ONLY a \in Seq(Line)
        <5>2. 1 \in DOMAIN a  BY ONLY <1>9, <5>1
        <5>3. QED  BY ONLY <5>1, <5>2
      <4>2. QED  BY <4>1, CostTyped
    <3>5. w[0] = 0 /\ w[1] = Length(a) /\ 1 - 1 = 0  BY ONLY <2>1, <3>2
    <3>6. QED  BY ONLY <3>3, <3>4, <3>5
  <2>4. ta = Cost(x[1])  BY ONLY <1>5, <2>2, <2>3 DEF Cost
  <2>5. tx <= ta + S + (m + 1 + l)  BY ONLY <1>2, <1>6, <1>7
  <2>6. Tokens(Length(x)) <= Cost(x[1]) + StubLimit + Len(x)
    BY ONLY <1>3, <1>5, <2>4, <2>5
  <2>7. QED  BY ONLY <2>2, <2>6 DEF StubBudget
<1>10. CASE InBudget(a, 0)
  <2>1. ta <= B + 0 + m  BY ONLY <1>1, <1>5, <1>10 DEF InBudget
  <2>2. tx <= B + S + (m + 1 + l)  BY ONLY <1>2, <1>6, <1>7, <2>1
  <2>3. InBudget(x, StubLimit)  BY ONLY <1>3, <1>5, <2>2 DEF InBudget
  <2>4. QED  BY ONLY <2>3 DEF StubBudget
<1>11. QED  BY ONLY <1>8, <1>9, <1>10, Frugal(a) DEF Frugal

\* What merge_stub leaves of chunks when it glues the last two.
Merged(made, m, x, out) ==
  /\ out \in Seq(Seq(Line)) /\ Len(out) = m - 1 /\ DOMAIN out = 1 .. m - 1
  /\ \A j \in 1 .. m - 2 : out[j] = made[j]
  /\ out[m - 1] = x

\* It is a list of chunks, one shorter.
LEMMA MergeFacts ==
  ASSUME NEW made \in Seq(Seq(Line)), NEW m, m = Len(made), m >= 2, NEW x \in Seq(Line),
         NEW out, out = Append(SubSeq(made, 1, m - 2), x)
  PROVE  Merged(made, m, x, out)
<1>1. PICK T, front, k : T = Seq(Line) /\ k = m - 2 /\ front = SubSeq(made, 1, k)
  OBVIOUS
<1>2. made \in Seq(T) /\ x \in T  BY ONLY <1>1, made \in Seq(Seq(Line)), x \in Seq(Line)
<1>3. m \in Nat /\ k \in Nat /\ k + 1 = m - 1 /\ k <= Len(made)
  BY ONLY <1>1, <1>2, m = Len(made), m >= 2
<1>4. front \in Seq(T) /\ Len(front) = k /\ \A j \in 1 .. k : front[j] = made[j]
  <2>1. 1 \in Nat \ {0} /\ k \in Nat /\ 1 <= k + 1 /\ k <= Len(made)  BY ONLY <1>3
  <2>2. /\ front \in Seq(T) /\ Len(front) = k - 1 + 1
        /\ \A j \in 1 .. k - 1 + 1 : front[j] = made[1 + j - 1]
    BY ONLY <1>1, <1>2, <2>1, PartFacts
  <2>3. QED  BY ONLY <1>3, <2>2
<1>5. out = Append(front, x)  BY ONLY <1>1, out = Append(SubSeq(made, 1, m - 2), x)
<1>6. /\ out \in Seq(T) /\ Len(out) = k + 1 /\ DOMAIN out = 1 .. k + 1
      /\ \A j \in 1 .. k : out[j] = front[j]
      /\ out[k + 1] = x
  BY ONLY <1>2, <1>4, <1>5
<1>7. QED  BY ONLY <1>1, <1>3, <1>4, <1>6 DEF Merged

\* The chunks of a page, before the last two are glued.
LEMMA CutLaid ==
  ASSUME NEW lines \in Seq(Line), NEW n, n = Len(lines), Placed(lines), NEW O, NEW made,
         CutAt(lines, O, n, made), NEW L, NEW U,
         L = [j \in DOMAIN made |-> Top(made[j])], U = [j \in DOMAIN made |-> Bottom(made[j])]
  PROVE  Laid(lines, made, L, U) /\ Finds(lines, O, n, made)
<1>1. Covered(lines, O, n, made) /\ Pieces(lines, n, made)
  BY ONLY CutAt(lines, O, n, made) DEF CutAt
<1>2. \A j \in DOMAIN made : L[j] = Top(made[j]) /\ U[j] = Bottom(made[j])
  BY ONLY L = [j \in DOMAIN made |-> Top(made[j])], U = [j \in DOMAIN made |-> Bottom(made[j])]
<1>3. ASSUME NEW j \in DOMAIN made  PROVE Text(lines, made[j]) /\ Neat(made[j], L[j], U[j])
  <2>1. PICK x : x = made[j]
    OBVIOUS
  <2>2. Piece(lines, x)  BY ONLY <1>1, <2>1, j \in DOMAIN made DEF Pieces
  <2>3. Text(lines, x) /\ Neat(x, Top(x), Bottom(x))  BY <2>2, PieceNeat
  <2>4. QED  BY ONLY <1>2, <2>1, <2>3, j \in DOMAIN made
<1>4. \A i, j \in DOMAIN made : i < j => U[i] < L[j]
  BY ONLY <1>1, <1>2 DEF Pieces
<1>5. Laid(lines, made, L, U)  BY ONLY <1>3, <1>4 DEF Laid
<1>6. Finds(lines, O, n, made)  BY ONLY <1>1 DEF Covered, Finds
<1>7. QED  BY ONLY <1>5, <1>6

\* And after it.
LEMMA MergeLaid ==
  ASSUME NEW lines \in Seq(Line), NEW n, n = Len(lines), Placed(lines), NEW O, NEW made,
         CutAt(lines, O, n, made), NEW m, m = Len(made), m >= 2,
         NEW x, Joined(made[m - 1], made[m], x), NEW out, Merged(made, m, x, out)
  PROVE  \E L, U : Laid(lines, out, L, U) /\ Finds(lines, O, n, out)
<1>1. Covered(lines, O, n, made) /\ Pieces(lines, n, made) /\ made \in Seq(Seq(Line))
  BY ONLY CutAt(lines, O, n, made) DEF CutAt
<1>2. m \in Nat /\ m >= 2 /\ DOMAIN made = 1 .. m /\ m - 1 \in 1 .. m /\ m \in 1 .. m /\ m - 1 < m
  BY ONLY <1>1, m = Len(made), m >= 2
<1>3. PICK a, b : a = made[m - 1] /\ b = made[m]
  OBVIOUS
<1>4. Piece(lines, a) /\ Piece(lines, b) /\ Bottom(a) < Top(b)
  BY ONLY <1>1, <1>2, <1>3 DEF Pieces
<1>5. Joined(a, b, x)  BY ONLY <1>3, Joined(made[m - 1], made[m], x)
<1>6. Glued(lines, a, b, x)  BY <1>4, <1>5, GlueNeat, Zenon
<1>7. /\ Text(lines, x) /\ Neat(x, Top(a), Bottom(b)) /\ Top(x) = Top(a)
      /\ \A line : Carries(a, line) \/ Carries(b, line) => Carries(x, line)
  BY ONLY <1>6 DEF Glued
<1>8. /\ Len(out) = m - 1 /\ DOMAIN out = 1 .. m - 1
      /\ \A j \in 1 .. m - 2 : out[j] = made[j]
      /\ out[m - 1] = x
  BY ONLY Merged(made, m, x, out) DEF Merged
<1>9. PICK L, U : /\ L = [j \in 1 .. m - 1 |-> Top(made[j])]
                  /\ U = [j \in 1 .. m - 1 |-> IF j = m - 1 THEN Bottom(b) ELSE Bottom(made[j])]
  OBVIOUS
<1>10. \A j \in 1 .. m - 1 : L[j] = Top(made[j]) /\ (j # m - 1 => U[j] = Bottom(made[j]))
  BY ONLY <1>9
<1>11. m - 1 \in 1 .. m - 1 /\ L[m - 1] = Top(a) /\ U[m - 1] = Bottom(b)
  BY ONLY <1>2, <1>3, <1>9
<1>12. \A j \in 1 .. m - 1 : j # m - 1 => j \in 1 .. m - 2 /\ j \in 1 .. m /\ j < m - 1 /\ j < m
  BY ONLY <1>2
<1>13. Laid(lines, out, L, U)
  <2>1. ASSUME NEW j \in 1 .. m - 1  PROVE Text(lines, out[j]) /\ Neat(out[j], L[j], U[j])
    <3>1. CASE j = m - 1  BY ONLY <1>7, <1>8, <1>11, <3>1
    <3>2. CASE j # m - 1
      <4>1. PICK y : y = made[j]
        OBVIOUS
      <4>2. j \in DOMAIN made  BY ONLY <1>2, <1>12, <3>2, j \in 1 .. m - 1
      <4>3. Piece(lines, y)  BY ONLY <1>1, <4>1, <4>2 DEF Pieces
      <4>4. Text(lines, y) /\ Neat(y, Top(y), Bottom(y))  BY <4>3, PieceNeat
      <4>5. QED  BY ONLY <1>8, <1>10, <1>12, <3>2, <4>1, <4>4, j \in 1 .. m - 1
    <3>3. QED  BY ONLY <3>1, <3>2
  <2>2. ASSUME NEW d \in 1 .. m - 1, NEW e \in 1 .. m - 1, d < e  PROVE U[d] < L[e]
    <3>1. d # m - 1  BY ONLY <1>2, <2>2, d \in 1 .. m - 1, e \in 1 .. m - 1
    <3>2. d \in 1 .. m /\ e \in 1 .. m  BY ONLY <1>2, d \in 1 .. m - 1, e \in 1 .. m - 1
    <3>3. Bottom(made[d]) < Top(made[e])  BY ONLY <1>1, <1>2, <2>2, <3>2 DEF Pieces
    <3>4. QED  BY ONLY <1>10, <3>1, <3>3, d \in 1 .. m - 1, e \in 1 .. m - 1
  <2>3. QED  BY ONLY <1>8, <2>1, <2>2 DEF Laid
\* the chunk a line has moved to
<1>14. ASSUME NEW j \in DOMAIN made
       PROVE  \E k \in DOMAIN out : /\ \A line : Carries(made[j], line) => Carries(out[k], line)
                                    /\ Top(made[j]) = Top(out[k]) \/ k = Len(out)
  <2>1. CASE j \in 1 .. m - 2
    <3>1. j \in DOMAIN out /\ out[j] = made[j]  BY ONLY <1>2, <1>8, <2>1
    <3>2. QED  BY ONLY <3>1
  <2>2. CASE j = m - 1 \/ j = m
    <3>1. m - 1 \in DOMAIN out /\ m - 1 = Len(out)  BY ONLY <1>8, <1>11
    <3>2. \A line : Carries(made[j], line) => Carries(out[m - 1], line)
      BY ONLY <1>3, <1>7, <1>8, <2>2
    <3>3. QED  BY ONLY <3>1, <3>2
  <2>3. j \in 1 .. m - 2 \/ j = m - 1 \/ j = m  BY ONLY <1>2, j \in DOMAIN made
  <2>4. QED  BY ONLY <2>1, <2>2, <2>3
<1>15. Finds(lines, O, n, out)
  <2>1. \A k \in 1 .. n : Solid(lines[k]) => \E j \in DOMAIN out : Carries(out[j], lines[k])
    BY ONLY <1>1, <1>14 DEF Covered
  <2>2. \A k \in 1 .. n - 1 : Inside(lines, O, k) =>
          \E j \in DOMAIN out : Carries(out[j], lines[k]) /\ Carries(out[j], lines[k + 1])
    BY ONLY <1>1, <1>14 DEF Covered
  <2>3. \A k \in 1 .. n : Headed(lines, O, k) =>
          \E j \in DOMAIN out : Carries(out[j], lines[k]) /\ (Top(out[j]) = k \/ j = Len(out))
    BY ONLY <1>1, <1>14 DEF Covered
  <2>4. QED  BY ONLY <2>1, <2>2, <2>3 DEF Finds
<1>16. QED  BY ONLY <1>13, <1>15

\* The budget, after it.
LEMMA MergeBudget ==
  ASSUME NEW lines \in Seq(Line), NEW n, n = Len(lines), Placed(lines), NEW O, NEW made,
         CutAt(lines, O, n, made), NEW m, m = Len(made), m >= 2, Tokens(Length(made[m])) < StubLimit,
         NEW x, Joined(made[m - 1], made[m], x), NEW out, Merged(made, m, x, out)
  PROVE  BudgetKept(out)
<1>1. Pieces(lines, n, made) /\ made \in Seq(Seq(Line))
  BY ONLY CutAt(lines, O, n, made) DEF CutAt
<1>2. m \in Nat /\ m >= 2 /\ DOMAIN made = 1 .. m /\ m - 1 \in 1 .. m /\ m \in 1 .. m
  BY ONLY <1>1, m = Len(made), m >= 2
<1>3. PICK a, b : a = made[m - 1] /\ b = made[m]
  OBVIOUS
<1>4. Piece(lines, a) /\ Piece(lines, b) /\ Frugal(a)
  BY ONLY <1>1, <1>2, <1>3 DEF Pieces
<1>5. a \in Seq(Line) /\ b \in Seq(Line) /\ Len(a) >= 1
  <2>1. a \in Seq(Line) /\ Len(a) \in Nat \ {0}  BY <1>4, PieceNeat
  <2>2. b \in Seq(Line)  BY <1>4, PieceNeat
  <2>3. QED  BY ONLY <2>1, <2>2
<1>6. Joined(a, b, x) /\ Tokens(Length(b)) < StubLimit
  BY ONLY <1>3, Joined(made[m - 1], made[m], x), Tokens(Length(made[m])) < StubLimit
<1>7. StubBudget(x)  BY <1>4, <1>5, <1>6, GlueBudget, Zenon
<1>8. /\ Len(out) = m - 1 /\ DOMAIN out = 1 .. m - 1
      /\ \A j \in 1 .. m - 2 : out[j] = made[j]
      /\ out[m - 1] = x
  BY ONLY Merged(made, m, x, out) DEF Merged
<1>9. ASSUME NEW j \in 1 .. m - 1
      PROVE  \/ HasFence(out[j])
             \/ Len(out[j]) = 1
             \/ InBudget(out[j], 0)
             \/ /\ j = Len(out)
                /\ \/ InBudget(out[j], StubLimit)
                   \/ /\ out[j][2].at = 0
                      /\ Tokens(Length(out[j])) <= Cost(out[j][1]) + StubLimit + Len(out[j])
  <2>1. CASE j = m - 1
    <3>1. out[j] = x /\ j = Len(out)  BY ONLY <1>8, <2>1
    <3>2. \/ HasFence(x)
          \/ InBudget(x, StubLimit)
          \/ x[2].at = 0 /\ Tokens(Length(x)) <= Cost(x[1]) + StubLimit + Len(x)
      BY ONLY <1>7 DEF StubBudget
    <3>3. QED  BY ONLY <3>1, <3>2, Zenon
  <2>2. CASE j # m - 1
    <3>1. j \in 1 .. m - 2 /\ j \in 1 .. m  BY ONLY <1>2, <2>2, j \in 1 .. m - 1
    <3>2. out[j] = made[j]  BY ONLY <1>8, <3>1
    <3>3. Frugal(out[j])  BY ONLY <1>1, <1>2, <3>1, <3>2 DEF Pieces
    <3>4. QED  BY ONLY <3>3 DEF Frugal
  <2>3. QED  BY ONLY <2>1, <2>2
<1>10. QED  BY ONLY <1>8, <1>9, Zenon DEF BudgetKept

\* The chunks of any page are the page: no line that is not blank is lost, doubled or
\* moved, no code block is cut, no chunk is over the budget without a reason, and every
\* heading outside the code blocks begins a chunk, or is in the last one.
THEOREM ChunksAlwaysWhole ==
  ASSUME NEW lines \in Seq(Line), Placed(lines)
  PROVE  ChunksWhole(lines)
<1>1. PICK n : n = Len(lines)
  OBVIOUS
<1>2. n \in Nat  BY ONLY <1>1, lines \in Seq(Line)
<1>3. PICK h : Scanned(lines, n, h)  BY <1>1, ScanExists, Zenon
<1>4. PICK O : O = [i \in 0 .. n |-> h[i].fence]
  OBVIOUS
<1>5. \A i \in 0 .. n : Opened(lines, i) = O[i]
  <2> SUFFICES ASSUME NEW i \in 0 .. n  PROVE Opened(lines, i) = O[i]
    OBVIOUS
  <2>1. Opened(lines, i) = h[i].fence  BY <1>1, <1>3, OpenedIs
  <2>2. QED  BY ONLY <1>4, <2>1, i \in 0 .. n
<1>6. PICK made, m : made = flush(h[n]).chunks /\ m = Len(made)
  OBVIOUS
<1>7. CutAt(lines, O, n, made)
  <2>1. CutAt(lines, O, n, flush(h[n]).chunks)  BY <1>1, <1>3, <1>4, PageCut, Zenon
  <2>2. QED  BY ONLY <1>6, <2>1
<1>8. made \in Seq(Seq(Line)) /\ Pieces(lines, n, made)  BY ONLY <1>7 DEF CutAt
<1>9. m \in Nat /\ DOMAIN made = 1 .. m  BY ONLY <1>6, <1>8
<1>10. PICK out : out = chunk_markdown(lines)
  OBVIOUS
<1>11. out = merge_stub(made)
  BY ONLY <1>3, <1>6, <1>10 DEF chunk_markdown, Scanned
<1>12. AllThere(lines, out) /\ BlocksKept(lines, out) /\ HeadingsOnTop(lines, out) /\ BudgetKept(out)
  <2>1. CASE m >= 2 /\ Tokens(Length(made[m])) < StubLimit
    <3>1. PICK a, b, x : a = made[m - 1] /\ b = made[m] /\ x = a \o <<Gap>> \o b
      OBVIOUS
    <3>2. out = Append(SubSeq(made, 1, m - 2), x)
      BY ONLY <1>6, <1>11, <2>1, <3>1 DEF merge_stub, Gap
    <3>3. a \in Seq(Line) /\ b \in Seq(Line)
      <4>1. m - 1 \in DOMAIN made /\ m \in DOMAIN made  BY ONLY <1>9, <2>1
      <4>2. PICK T : T = Seq(Line)
        OBVIOUS
      <4>3. made \in Seq(T)  BY ONLY <1>8, <4>2
      <4>4. QED  BY ONLY <3>1, <4>1, <4>2, <4>3
    <3>4. Joined(a, b, x)  BY <3>1, <3>3, GlueFacts, Zenon
    <3>5. x \in Seq(Line)  BY ONLY <3>4 DEF Joined
    <3>6. m >= 2 /\ Tokens(Length(made[m])) < StubLimit /\ Joined(made[m - 1], made[m], x)
      BY ONLY <2>1, <3>1, <3>4
    <3>7. Merged(made, m, x, out)  BY <1>6, <1>8, <3>2, <3>5, <3>6, MergeFacts, Zenon
    <3>8. PICK L, U : Laid(lines, out, L, U) /\ Finds(lines, O, n, out)
      BY <1>1, <1>6, <1>7, <3>6, <3>7, MergeLaid, Zenon
    <3>9. out \in Seq(Seq(Line))  BY ONLY <3>7 DEF Merged
    <3>10. AllThere(lines, out) /\ BlocksKept(lines, out) /\ HeadingsOnTop(lines, out)
      BY <1>1, <1>5, <3>8, <3>9, LaidWhole, Zenon
    <3>11. BudgetKept(out)  BY <1>1, <1>6, <1>7, <3>6, <3>7, MergeBudget, Zenon
    <3>12. QED  BY ONLY <3>10, <3>11
  <2>2. CASE ~(m >= 2 /\ Tokens(Length(made[m])) < StubLimit)
    <3>1. out = made  BY ONLY <1>6, <1>11, <2>2 DEF merge_stub
    <3>2. PICK L, U : /\ L = [j \in DOMAIN made |-> Top(made[j])]
                      /\ U = [j \in DOMAIN made |-> Bottom(made[j])]
      OBVIOUS
    <3>3. Laid(lines, made, L, U) /\ Finds(lines, O, n, made)
      BY <1>1, <1>7, <3>2, CutLaid, Zenon
    <3>4. AllThere(lines, made) /\ BlocksKept(lines, made) /\ HeadingsOnTop(lines, made)
      BY <1>1, <1>5, <1>8, <3>3, LaidWhole, Zenon
    <3>5. BudgetKept(made)
      <4>1. \A j \in DOMAIN made : Frugal(made[j])  BY ONLY <1>8 DEF Pieces
      <4>2. QED  BY ONLY <4>1 DEF BudgetKept, Frugal
    <3>6. QED  BY ONLY <3>1, <3>4, <3>5
  <2>3. QED  BY ONLY <2>1, <2>2
<1>13. QED  BY ONLY <1>10, <1>12, Zenon DEF ChunksWhole

\* A page of the run, and no page.
PageLines == sample \in Seq(Line) /\ Placed(sample)

\* What the run cuts are pages.
LEMMA SamplesArePages == \A page \in Samples : page \in Seq(Line) /\ Placed(page)
<1> SUFFICES ASSUME NEW page \in Samples  PROVE page \in Seq(Line) /\ Placed(page)
  OBVIOUS
<1>1. PICK kinds \in SeqOf(LineKinds, 4) : page = Lines(kinds)
  BY DEF Samples
<1>2. PICK m \in Nat : kinds \in [1 .. m -> LineKinds]
  <2>1. PICK D : D = LineKinds
    OBVIOUS
  <2>2. \E m \in 0 .. 4 : kinds \in [1 .. m -> D]  BY <2>1 DEF SeqOf
  <2>3. QED  BY <2>1, <2>2
<1>3. \A kind \in LineKinds : kind.kind \in Kinds /\ kind.len \in Nat
  BY DEF LineKinds, Kinds, Fences
<1>4. page = [i \in 1 .. m |-> [kind |-> kinds[i].kind, len |-> kinds[i].len, at |-> i]]
  BY <1>1, <1>2 DEF Lines
<1>5. \A i \in 1 .. m : page[i] \in Line /\ page[i].at = i
  BY <1>2, <1>3, <1>4 DEF Line
<1>6. page \in Seq(Line) /\ DOMAIN page = 1 .. m
  BY ONLY <1>2, <1>4, <1>5
<1>7. QED  BY ONLY <1>5, <1>6 DEF Placed

\* In particular those of the pages the run cuts.
THEOREM ChunksAlwaysSound == MCSpec => []ChunksSound
<1>1. <<>> \in Seq(Line) /\ Placed(<<>>)
  <2>1. \A T : <<>> \in Seq(T)
    OBVIOUS
  <2>2. DOMAIN <<>> = {}
    OBVIOUS
  <2>3. QED  BY <2>1, <2>2 DEF Placed
<1>2. MCInit => PageLines
  BY SamplesArePages DEF MCInit, PageLines
<1>3. PageLines /\ [MCNext]_<<vars, sample>> => PageLines'
  <2>1. PageLines /\ sample' = <<>> => PageLines'  BY <1>1 DEF PageLines
  <2>2. PageLines /\ sample' = sample => PageLines'  BY DEF PageLines
  <2>3. [MCNext]_<<vars, sample>> => sample' = <<>> \/ sample' = sample
    BY DEF MCNext, Cut
  <2>4. QED  BY <2>1, <2>2, <2>3
<1>4. PageLines => ChunksSound
  BY ChunksAlwaysWhole DEF PageLines, ChunksSound
<1>5. QED  BY <1>2, <1>3, <1>4, PTL DEF MCSpec

=============================================================================
