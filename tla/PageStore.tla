----------------------------- MODULE PageStore -----------------------------
(***************************************************************************)
(* The tables pages and chunks and those that write them: the crawls of    *)
(* the service and of the tools beside it (worker.py, recrawl.py,          *)
(* index.py), the dashboard (app.py), the tool that re-embeds the index    *)
(* (reindex.py) and the tool that merges duplicates while everything else  *)
(* is stopped (merge_dupes.py).  Between the statements of one writer the  *)
(* others run.  The text a page is cut from, its markdown under its title, *)
(* is the version of the site it was taken from, and so is the time of a   *)
(* crawl.  The column title itself is left out.                            *)
(***************************************************************************)
EXTENDS Chunker, TLC

CONSTANTS
  Urls,         \* natural numbers: the tool that re-embeds goes by their order
  Canonical,    \* normalize_url, which need not be idempotent
  Target,       \* where a short URL leads; other URLs lead to themselves
  Tables,       \* what the table pages may hold at the start
  Crawls,       \* crawls that may overlap
  Processes,    \* what crawls: the service, recrawl.py and worker --once beside it
  BatchSize,    \* REINDEX_BATCH_SIZE
  Versions,     \* bound: how many versions of a page its site serves
  MaxFailures,  \* bound: how many pages the re-embedding may fail on
  None

\* a row of pages; "by" is history: who put the markdown there
AnyRow == [md : Nat, model : {"old", "new"}, last : Nat, by : {"crawl", "reembed"}]

ASSUME PageStoreAssumption ==
  /\ Urls \subseteq Nat \ {0} /\ BatchSize \in Nat \ {0}
  /\ Canonical \in [Urls -> Urls] /\ Target \in [Urls -> Urls]

ASSUME TablesAssumption ==
  /\ None \notin AnyRow
  /\ Tables \subseteq [Urls -> AnyRow \cup {None}]
  /\ \A t \in Tables, u \in Urls : t[u] # None => t[u].last <= t[u].md

ASSUME WritersAssumption == "reindex" \notin Crawls

VARIABLES
  pages,    \* url -> row or None
  chunks,   \* url -> what its chunks were made of, or None
  site,     \* final url -> the version it serves
  job,      \* the store_page call of each crawl and of the re-embedding
  up,       \* does anything run that crawls: the service and the tools beside it?
  phase,    \* where reindex._run is
  force,    \* its --force
  cursor,   \* last_url
  batch,    \* the rows it has read and not re-embedded yet
  failed,   \* the rows it could not re-embed
  merge,    \* where merge_dupes is
  plan,     \* the groups it has still to merge, by canonical URL
  draft,    \* the tables as its transaction has them, or None
  tidy      \* has it run to its end?

mergeVars == <<merge, plan, draft, tidy>>
toolVars == <<phase, force, cursor, batch, failed, mergeVars>>
vars == <<pages, chunks, site, job, up, toolVars>>

Reindex == "reindex"
Writers == Crawls \cup {Reindex}
Model   == "new"       \* EMBED_MODEL; the rows of an earlier one are "old"

\* crawl_url: a short URL resolves, and what it leads to is normalized in turn; crawls
\* are told apart by the outcome
KeyOf(form) ==
  LET own == Canonical[form]  there == Target[own]
  IN  IF there = own THEN own ELSE Canonical[there]
Keys   == {KeyOf(form) : form \in Urls}
\* _crawl_and_store normalizes the URL it crawls, and store_page the one it stores under
Finals == {Canonical[key] : key \in Keys}
Home(key) == Canonical[Canonical[key]]

MaxVersion == CHOOSE n \in {Versions[u] : u \in Finals} : \A u \in Finals : n >= Versions[u]
Stored  == {u \in Urls : pages[u] # None}
Idle    == [stage |-> "idle", process |-> None, key |-> 0, url |-> 0, md |-> 0, form |-> 0]

Job == [stage : {"idle", "check", "unchanged", "embed", "tail"}, process : Processes \cup {None},
        key : Urls \cup {0}, url : Urls \cup {0}, md : 0 .. MaxVersion, form : Urls \cup {0}]
Row == [md : 0 .. MaxVersion, model : {"old", Model}, last : 0 .. MaxVersion,
        by : {"crawl", "reembed"}]
ChunksOf(row) == [md |-> row.md, model |-> row.model]

\* the sites do not change without end, and what the tables hold at the start
\* is a version the sites know
ASSUME VersionsAssumption ==
  /\ Versions \in [Finals -> Nat \ {0}]
  /\ \E n \in {Versions[u] : u \in Finals} : \A u \in Finals : n >= Versions[u]
  /\ \A t \in Tables, u \in Urls : t[u] # None => t[u].md <= MaxVersion

Init ==
  /\ pages \in Tables
  /\ chunks = [u \in Urls |-> IF pages[u] = None THEN None ELSE ChunksOf(pages[u])]
  /\ site = [u \in Finals |-> 1]
  /\ job = [w \in Writers |-> Idle]
  /\ up = TRUE
  /\ phase = "idle" /\ force = FALSE /\ cursor = 0 /\ batch = {} /\ failed = {}
  /\ merge = "idle" /\ plan = {} /\ draft = None /\ tidy = FALSE

NoTools == UNCHANGED toolVars
Put(u, row)  == pages' = [pages EXCEPT ![u] = row]
Drop(u) ==   \* chunks go with their page: ON DELETE CASCADE
  /\ pages' = [pages EXCEPT ![u] = None]
  /\ chunks' = [chunks EXCEPT ![u] = None]
Stage(w, s)  == job' = [job EXCEPT ![w].stage = s]

-----------------------------------------------------------------------------
(***************************************************************************)
(* store_page, for a crawl and for the re-embedding                        *)
(***************************************************************************)
SiteChanges(u) ==
  /\ site[u] < Versions[u]
  /\ site' = [site EXCEPT ![u] = @ + 1]
  /\ UNCHANGED <<pages, chunks, job, up>> /\ NoTools

\* INFLIGHT holds a crawl of this process until the page is stored
InFlight(p, key) ==
  \E c \in Crawls : job[c].stage \notin {"idle", "tail"} /\ job[c].process = p /\ job[c].key = key

\* crawl_url: a page has been crawled; one that is in flight is waited for instead
\* (crawl_deduped), in one's own process only
Crawl(c) ==
  /\ up /\ job[c].stage = "idle"
  /\ \E form \in Urls, p \in Processes :
       LET key == KeyOf(form) IN
       /\ ~ InFlight(p, key)
       /\ job' = [job EXCEPT ![c] = [stage |-> "check", process |-> p, key |-> key, url |-> Home(key),
                                     md |-> site[Canonical[key]], form |-> Canonical[form]]]
  /\ UNCHANGED <<pages, chunks, site, up>> /\ NoTools

\* mutant: only the model is compared
same_model(row, md) == row # None /\ row.model = Model

Unchanged(row, md) == row # None /\ row.md = md /\ row.model = Model

\* the end of a page in _reembed_batch, and of the batch in _reembed_all
NextRow ==
  /\ job' = [job EXCEPT ![Reindex] = Idle]
  /\ batch' = {r \in batch : r.url # job[Reindex].form}
  /\ cursor' = IF batch' = {} THEN job[Reindex].form ELSE cursor
  /\ UNCHANGED <<phase, force, mergeVars>>

\* page_get and the comparison of hash and model
Check(w) ==
  /\ job[w].stage = "check"
  /\ LET same == Unchanged(pages[job[w].url], job[w].md) IN
       IF same /\ w = Reindex
       THEN NextRow /\ UNCHANGED failed
       ELSE Stage(w, IF same THEN "unchanged" ELSE "embed") /\ NoTools
  /\ UNCHANGED <<pages, chunks, site, up>>

\* the UPDATE of an unchanged page: the row may be another by now, or none; of a title
\* it sets only what makes the same text
Stamp(c) ==
  /\ job[c].stage = "unchanged"
  /\ Stage(c, "tail")
  /\ IF pages[job[c].url] = None THEN UNCHANGED pages
     ELSE pages' = [pages EXCEPT ![job[c].url].last = job[c].md]
  /\ UNCHANGED <<chunks, site, up>> /\ NoTools

\* mutant: chunks of the same text are kept, whatever model they were made with
recut_if_changed(u, row) ==
  IF pages[u] # None /\ pages[u].md = row.md THEN chunks ELSE [chunks EXCEPT ![u] = ChunksOf(row)]

\* the chunks of a page go, and those of the text it has now come
recut(u, row) == [chunks EXCEPT ![u] = ChunksOf(row)]

\* the transaction: the page, then its chunks; crawl times for a crawl only
Upsert(w) ==
  LET u   == job[w].url
      old == IF pages[u] = None THEN [md |-> -1, last |-> 0, by |-> "reembed"] ELSE pages[u]
      row == [md |-> job[w].md, model |-> Model,
              last |-> IF w = Reindex THEN old.last ELSE job[w].md,
              by |-> IF w # Reindex THEN "crawl" ELSE IF old.md = job[w].md THEN old.by ELSE "reembed"]
  IN  Put(u, row) /\ chunks' = recut(u, row)

Commit(w) ==
  /\ job[w].stage = "embed"
  /\ Upsert(w)
  /\ IF w = Reindex THEN NextRow /\ UNCHANGED failed ELSE Stage(w, "tail") /\ NoTools
  /\ UNCHANGED <<site, up>>

\* the chunker, the embedding model or the database fails
StoreFails(w) ==
  /\ job[w].stage = "embed"
  /\ w = Reindex => Cardinality(failed) < MaxFailures
  /\ IF w = Reindex THEN NextRow /\ failed' = failed \cup {job[w].form}
     ELSE job' = [job EXCEPT ![w] = Idle] /\ NoTools
  /\ UNCHANGED <<pages, chunks, site, up>>

\* _delete_short_url_row: the content lives under its final URL now
CrawlDone(c) ==
  /\ job[c].stage = "tail"
  /\ job' = [job EXCEPT ![c] = Idle]
  /\ \/ job[c].form # job[c].key /\ Drop(job[c].form)
     \/ UNCHANGED <<pages, chunks>>   \* the URL was no short one, or the DELETE fails
  /\ UNCHANGED <<site, up>> /\ NoTools

-----------------------------------------------------------------------------
(***************************************************************************)
(* The dashboard                                                           *)
(***************************************************************************)
\* the dashboard, on any row
Delete(u) ==
  /\ up /\ u \in Stored /\ Drop(u)
  /\ UNCHANGED <<site, job, up>> /\ NoTools

-----------------------------------------------------------------------------
(***************************************************************************)
(* reindex._run, executed in the container of the service                  *)
(***************************************************************************)
Stale(u) == u \in Stored /\ (force' \/ pages[u].model # Model)

ReindexStart ==
  /\ up /\ phase = "idle"
  /\ force' \in BOOLEAN
  /\ phase' = IF \E u \in Urls : Stale(u) THEN "batch" ELSE "done"
  /\ cursor' = 0 /\ failed' = {}
  /\ UNCHANGED <<pages, chunks, site, job, up, batch, mergeVars>>

RowsOf(urls) == {[url |-> u, md |-> pages[u].md] : u \in urls}

\* mutant: batches are counted off, though the rows that are done drop out
stale_batch_offset ==
  RowsOf({u \in Urls : Stale(u) /\ Cardinality({v \in Urls : Stale(v) /\ v < u})
                                    \in cursor .. cursor + BatchSize - 1})

\* the first stale rows behind the cursor, by URL
stale_batch ==
  RowsOf({u \in Urls : Stale(u) /\ u > cursor
                      /\ Cardinality({v \in Urls : Stale(v) /\ cursor < v /\ v < u}) < BatchSize})

ReadBatch ==
  /\ phase = "batch" /\ batch = {}
  /\ UNCHANGED force
  /\ batch' = stale_batch
  /\ phase' = IF batch' = {} THEN "done" ELSE "batch"
  /\ UNCHANGED <<pages, chunks, site, job, up, cursor, failed, mergeVars>>

\* _reembed_page: what the batch held is stored under the canonical URL
Reembed ==
  /\ phase = "batch" /\ job[Reindex].stage = "idle"
  /\ \E row \in batch :
       /\ \A other \in batch : row.url <= other.url
       /\ job' = [job EXCEPT ![Reindex] = [stage |-> "check", process |-> None, key |-> 0,
                                           url |-> Canonical[row.url], md |-> row.md,
                                           form |-> row.url]]
  /\ UNCHANGED <<pages, chunks, site, up>> /\ NoTools

ReindexEnd ==
  /\ phase = "done" /\ phase' = "idle" /\ force' = FALSE /\ cursor' = 0 /\ failed' = {}
  /\ UNCHANGED <<pages, chunks, site, job, up, batch, mergeVars>>

-----------------------------------------------------------------------------
(***************************************************************************)
(* Stop, restart and merge_dupes                                           *)
(***************************************************************************)
\* the container stops, or dies, with everything that runs in it
Stop ==
  /\ up /\ up' = FALSE
  /\ job' = [w \in Writers |-> Idle]
  /\ phase' = "idle" /\ force' = FALSE /\ cursor' = 0 /\ batch' = {} /\ failed' = {}
  /\ UNCHANGED <<pages, chunks, site, mergeVars>>

Away == UNCHANGED <<site, job, up, phase, force, cursor, batch, failed>>

\* mutant: the service comes back while the merge is under way
StartAnyway ==
  /\ ~up /\ up' = TRUE
  /\ UNCHANGED <<pages, chunks, site, job>> /\ NoTools

Start ==
  /\ ~up /\ merge # "running" /\ up' = TRUE /\ merge' = "idle"
  /\ UNCHANGED <<pages, chunks, site, job, phase, force, cursor, batch, failed, plan, draft, tidy>>

Group(u) == {v \in Stored : Canonical[v] = u}

pending == {u \in Urls : Group(u) # {} /\ Group(u) # {u}}

MergeRead ==
  /\ ~up /\ merge # "running" /\ merge' = "running"
  /\ plan' = pending /\ draft' = [pages |-> pages, chunks |-> chunks]
  /\ UNCHANGED <<pages, chunks, tidy>> /\ Away

\* DELETE and UPDATE of both tables, while no foreign key ties them
Erased(tables, urls) ==
  LET rest(t) == [u \in Urls |-> IF u \in urls THEN None ELSE t[u]]
  IN  [pages |-> rest(tables.pages), chunks |-> rest(tables.chunks)]
Renamed(tables, u, v) ==
  LET moved(t) == [t EXCEPT ![v] = t[u], ![u] = None]
  IN  [pages |-> moved(tables.pages), chunks |-> moved(tables.chunks)]
\* the new name is taken: pages.url is a key, and so is chunks.url with chunks.seq
Occupied(tables, u, v) ==
  tables.pages[v] # None \/ (tables.chunks[v] # None /\ tables.chunks[u] # None)

\* mutant: the survivor gets its name before the others are gone
renamed_first(tables, u, keep) == keep # u /\ Occupied(tables, keep, u)

\* _merge_group: the losers go, the survivor is renamed, unless the database refuses
refused(tables, u, keep) == keep # u /\ Occupied(Erased(tables, Group(u) \ {keep}), keep, u)
merged(tables, u, keep) ==
  LET rest == Erased(tables, Group(u) \ {keep})
  IN  IF keep = u THEN rest ELSE Renamed(rest, keep, u)

Rollback(outcome) ==
  /\ merge' = outcome /\ plan' = {} /\ draft' = None /\ UNCHANGED <<pages, chunks, tidy>>

\* _merge_groups: one group after the other, in the order of their names.  Which row
\* survives depends on fetch counts and lengths: any of its group.
MergeGroup ==
  /\ merge = "running"
  /\ \E u \in plan : \E keep \in Group(u) :
       /\ \A v \in plan : u <= v
       /\ \/ refused(draft, u, keep) /\ Rollback("refused")
          \/ /\ ~ refused(draft, u, keep)
             /\ draft' = merged(draft, u, keep) /\ plan' = plan \ {u}
             /\ UNCHANGED <<pages, chunks, merge, tidy>>
  /\ Away

Orphans(tables) == {u \in Urls : tables.chunks[u] # None /\ tables.pages[u] = None}

\* the foreign key is added again, which an orphan forbids, and all is committed
MergeEnd ==
  /\ merge = "running" /\ plan = {}
  /\ IF Orphans(draft) # {} THEN Rollback("refused")
     ELSE /\ pages' = draft.pages /\ chunks' = draft.chunks /\ tidy' = TRUE
          /\ merge' = "idle" /\ plan' = {} /\ draft' = None
  /\ Away

\* the tool is killed, or the database fails
MergeFails == merge = "running" /\ Rollback("idle") /\ Away

-----------------------------------------------------------------------------
Next ==
  \/ (\E u \in Finals : SiteChanges(u)) \/ (\E u \in Urls : Delete(u))
  \/ \E c \in Crawls : Crawl(c) \/ Stamp(c) \/ CrawlDone(c)
  \/ \E w \in Writers : Check(w) \/ Commit(w) \/ StoreFails(w)
  \/ ReindexStart \/ ReadBatch \/ Reembed \/ ReindexEnd
  \/ Stop \/ Start \/ MergeRead \/ MergeGroup \/ MergeEnd \/ MergeFails

Spec == Init /\ [][Next]_vars

-----------------------------------------------------------------------------
(***************************************************************************)
(* Properties                                                              *)
(***************************************************************************)
\* Rows, jobs and the state of the tools keep their shape.
TypeOK ==
  /\ pages \in [Urls -> Row \cup {None}]
  /\ chunks \in [Urls -> [md : 0 .. MaxVersion, model : {"old", Model}] \cup {None}]
  /\ site \in [Finals -> 1 .. MaxVersion]
  /\ job \in [Writers -> Job]
  /\ job[Reindex].stage # "idle" => job[Reindex].form \in {r.url : r \in batch}
  /\ phase \in {"idle", "batch", "done"} /\ cursor \in Urls \cup {0} /\ failed \subseteq Urls
  /\ merge \in {"idle", "running", "refused"} /\ plan \subseteq Urls
  /\ (merge = "running" => ~up) /\ (phase # "idle" => up) /\ {up, force, tidy} \subseteq BOOLEAN

\* What the search finds is what the page says: the chunks of a page are made
\* of the markdown and with the model its row names, and no chunk is left of
\* a page that is gone, whoever stored, re-embedded, merged or deleted last.
ChunksMatchPage ==
  \A u \in Urls : chunks[u] = IF pages[u] = None THEN None ELSE ChunksOf(pages[u])

\* What is under these URLs was stored by crawls that INFLIGHT keeps apart: there is one
\* process, and no two keys store under one of them or under a URL that merging moves there.
Guarded ==
  {u \in Urls :
    /\ \A p, q \in Processes : p = q
    /\ \E into \in SUBSET Urls :
         /\ u \in into /\ \A v \in Urls : Canonical[v] \in into => v \in into
         /\ \A k, l \in Keys : Home(k) = Home(l) /\ Home(k) \in into => k = l}

StampTrue(u) == pages[u].last <= pages[u].md \/ pages[u].by = "reembed"

\* Where one process crawls, a page is never stamped with a crawl that is newer than
\* what it holds, so that a fetch takes old content for fresh, except where the
\* re-embedding has put back what it had read before that crawl (reindex.py:112).
StampedContentIsFresh == \A u \in Stored \cap Guarded : StampTrue(u)

\* When the re-embedding reports that it is done, no vector of the old model is
\* left but those it counts as failed and those of rows stored under a URL that
\* is not canonical, although its filter shrinks, and pages come, go and are
\* crawled, while it works its way through the table.
ReindexReachesAll ==
  phase = "done" =>
    \A u \in Stored : pages[u].model = Model \/ u \in failed \/ Canonical[u] # u

\* Merging loses no page: it changes nothing, or what was stored under any form of a
\* URL is stored once, under the form they all normalize to, as one of the rows it had
\* been.  The database stops it only where such a form is stored itself and normalizes
\* to another one yet.  Once it has run, no other form is stored again.
MergeKeepsPages ==
  [][/\ ~up => \/ UNCHANGED pages
               \/ /\ Stored' = {Canonical[u] : u \in Stored}
                  /\ \A u \in Stored' : \E v \in Group(u) : pages'[u] = pages[v]
     /\ merge' = "refused" /\ merge # "refused" =>
          \E u, v \in Stored : Canonical[v] = u /\ Canonical[u] # u
     /\ tidy' => \A u \in Stored' : \E v \in Urls : Canonical[v] = u]_vars

=============================================================================
