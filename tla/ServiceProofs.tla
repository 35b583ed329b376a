--------------------------- MODULE ServiceProofs ---------------------------
(***************************************************************************)
(* The database is closed behind everyone who uses it, for any URLs,       *)
(* bounds and retries.  Shutdown stops one user of the database after the  *)
(* other, so what is stopped must not be set off again by what still runs: *)
(* a crawl or a fetch may kick the worker, and a crawl may answer a fetch  *)
(* that is over.  And the pages of a fetch are cut cleanly, for any text.  *)
(***************************************************************************)
EXTENDS MCService, SequenceLemmas, SequenceTheorems

ProcessDown == {"boot", "reset", "closed"}  \* nothing of it has been started, or all is stopped

\* A tick, kicked or timed, runs under the lock, and the lock is held by a tick.
LockOfTicks ==
  /\ lock \in {"none", "kick", "worker"}
  /\ lock = "kick" <=> kick \in {"tick", "stopping"}
  /\ lock = "worker" <=> worker \in {"tick", "stopping"}

\* A crawl is waited for by its part of a fetch, or its client has left.
Attended == \A u \in Urls : probe[u] # "none" => u \in adopted \/ part[u] = "wait"

\* The parts of a fetch are gone with it, and fetches are gone before shutdown.
FetchParts ==
  /\ ~fetch => part = NoParts
  /\ fetch => stage = "up"

\* What each await of shutdown has joined is over, and nothing starts it again;
\* the worker is cancelled by one of them only.
Joined ==
  /\ ~dbOpen => stage \in {"boot", "closed"}
  /\ stage \notin {"up", "probes"} => probe = NoParts /\ kick \in {"none", "stopping"}
  /\ stage \notin {"up", "probes", "kick"} => kick = "none" /\ worker \in {"none", "stopping"}
  /\ stage \in ProcessDown \cup {"pools"} => worker = "none"
  /\ worker = "stopping" => stage = "worker"

SType ==
  /\ stage \in ProcessDown \cup {"up", "probes", "kick", "worker", "pools"}
  /\ part \in [Urls -> {"none", "todo", "lookup", "wait", "requeue", "read", "resolved", "failed"}]
  /\ probe \in [Urls -> {"none", "crawl", "route", "stopping", "unrouting", "stored", "error"}]
  /\ kick \in {"none", "debounce", "tick", "stopping"}
  /\ worker \in {"none", "sleep", "tick", "stopping"}
  /\ fetch \in BOOLEAN

Orderly == SType /\ LockOfTicks /\ Attended /\ FetchParts /\ Joined

\* An orderly process has closed the database last.
LEMMA OrderlyCloses == Orderly => DbClosedLast
BY DEF Orderly, SType, LockOfTicks, FetchParts, Joined, ProcessDown, DbClosedLast

\* A process that has not booted is orderly.
LEMMA OrderlyInit == Init => Orderly
BY DEF Init, Orderly, SType, LockOfTicks, Attended, FetchParts, Joined, ProcessDown, NoParts

\* Boot, the awaits of shutdown and a restart.
LEMMA ProcessOrderly ==
  ASSUME Orderly, Process \/ BeginStop \/ Restart
  PROVE  Orderly'
<1> USE DEF Orderly, SType, LockOfTicks, Attended, FetchParts, Joined, ProcessDown,
            fetchVars, tickVars, procVars
<1>1. CASE Connect \/ GiveUpBoot \/ StartWorker
  BY <1>1 DEF Connect, GiveUpBoot, StartWorker
<1>2. CASE StopKick
  BY <1>2 DEF StopKick
<1>3. CASE StopWorker \/ ClosePools \/ CloseDb
  <2>1. CASE StopWorker  BY <2>1 DEF StopWorker
  <2>2. CASE ClosePools  BY <2>2 DEF ClosePools
  <2>3. CASE CloseDb  BY <2>3 DEF CloseDb
  <2>4. QED  BY <1>3, <2>1, <2>2, <2>3
<1>4. CASE BeginStop
  <2>1. probe' \in [Urls -> {"none", "crawl", "route", "stopping", "unrouting", "stored", "error"}]
    BY <1>4 DEF BeginStop, Cancelled
  <2>2. \A u \in Urls : probe'[u] # "none" => probe[u] # "none"
    BY <1>4 DEF BeginStop, Cancelled, Running
  <2>3. QED  BY <1>4, <2>1, <2>2 DEF BeginStop
<1>5. CASE Restart
  BY <1>5 DEF Restart, Volatile, NoParts
<1>6. QED  BY <1>1, <1>2, <1>3, <1>4, <1>5 DEF Process

\* Ticks: the lock goes from hand to hand.
LEMMA TicksOrderly ==
  ASSUME Orderly,
         \/ KickFires \/ TimerFires \/ KickTickEnds \/ WorkerTickEnds
         \/ TickStopped \/ TickCrashes
  PROVE  Orderly'
<1> USE DEF Orderly, SType, LockOfTicks, Attended, FetchParts, Joined, ProcessDown,
            fetchVars, procVars
<1>1. CASE KickFires \/ TimerFires
  BY <1>1 DEF KickFires, TimerFires, BeginTick
<1>2. CASE KickTickEnds \/ WorkerTickEnds \/ TickStopped
  BY <1>2 DEF KickTickEnds, WorkerTickEnds, TickStopped
<1>3. CASE TickCrashes
  BY <1>3 DEF TickCrashes, worker_after
<1>4. QED  BY <1>1, <1>2, <1>3

\* Crawls: one that still runs is not yet joined, so it may kick the worker.
LEMMA ProbesOrderly ==
  ASSUME Orderly, NEW u \in Urls,
         ProbeEnds(u) \/ ProbeWalled(u) \/ ProbeRoutes(u) \/ Settle(u) \/ Expire(u)
  PROVE  Orderly'
<1> USE DEF Orderly, ProcessDown, tickVars, procVars
<1>1. probe[u] # "none" /\ stage \in {"up", "probes"}
  BY DEF SType, Joined, NoParts, ProbeEnds, ProbeWalled, ProbeRoutes, Settle, Expire, Running
<1>2. CASE ProbeEnds(u) \/ ProbeWalled(u) \/ Expire(u)
  <2>1. \E p \in {"route", "stopping", "unrouting", "stored", "error"} :
          probe' = [probe EXCEPT ![u] = p]
    BY <1>2 DEF ProbeEnds, ProbeWalled, Expire, Cancelled
  <2>2. UNCHANGED <<stage, dbOpen, fetch, part, adopted, kick, worker, lock>>
    BY <1>2 DEF ProbeEnds, ProbeWalled, Expire
  <2>3. SType'  BY <2>1, <2>2 DEF SType
  <2>4. Attended'  BY <1>1, <2>1, <2>2 DEF Attended, SType
  <2>5. QED  BY <1>1, <2>2, <2>3, <2>4 DEF SType, LockOfTicks, FetchParts, Joined
<1>3. CASE ProbeRoutes(u)
  <2>1. /\ probe' = [probe EXCEPT ![u] = "error"]
        /\ kick' \in {kick, "debounce"} /\ (kick' # kick => kick = "none")
        /\ UNCHANGED <<stage, dbOpen, fetch, part, adopted, worker, lock>>
    BY <1>3 DEF ProbeRoutes, Enqueue, kick_worker
  <2>2. SType'  BY <2>1 DEF SType
  <2>3. Attended'  BY <1>1, <2>1 DEF Attended, SType
  <2>4. QED  BY <1>1, <2>1, <2>2, <2>3 DEF SType, LockOfTicks, FetchParts, Joined
<1>4. CASE Settle(u)
  <2>1. /\ probe' = [probe EXCEPT ![u] = "none"]
        /\ UNCHANGED <<stage, dbOpen, fetch, kick, worker, lock>>
        /\ \/ u \in adopted /\ adopted' = adopted \ {u} /\ part' = part
           \/ /\ u \notin adopted /\ adopted' = adopted
              /\ \E p \in {"read", "failed"} : part' = [part EXCEPT ![u] = p]
    BY <1>4 DEF Settle, Part
  <2>2. SType'  BY <2>1 DEF SType
  <2>3. Attended'  BY <2>1 DEF Attended, SType
  <2>4. u \notin adopted => fetch
    BY <1>1 DEF Attended, FetchParts, NoParts
  <2>5. QED  BY <1>1, <2>1, <2>2, <2>3, <2>4 DEF SType, LockOfTicks, FetchParts, Joined
<1>5. QED  BY <1>2, <1>3, <1>4

\* Fetches: one that is at work keeps the server from stopping.
LEMMA FetchOrderly ==
  ASSUME Orderly,
         \/ \E u \in Urls : \/ TakeUrl(u) \/ Lookup(u) \/ ReadBack(u)
                            \/ Timeout(u) \/ Requeue(u)
         \/ BeginFetch \/ EndFetch \/ ClientLeaves
  PROVE  Orderly'
<1> USE DEF Orderly, ProcessDown, tickVars, procVars
<1>1. ASSUME NEW u \in Urls, TakeUrl(u) \/ Lookup(u) \/ ReadBack(u) \/ Timeout(u) \/ Requeue(u)
      PROVE  Orderly'
  <2>1. fetch /\ stage = "up"
    BY <1>1 DEF FetchParts, NoParts, TakeUrl, Lookup, ReadBack, Timeout, Requeue
  <2>2. UNCHANGED <<stage, dbOpen, fetch, worker, lock>>
    BY <1>1 DEF TakeUrl, Lookup, ReadBack, Timeout, Requeue
  <2>3. kick' = kick \/ (kick = "none" /\ kick' = "debounce")
    BY <1>1 DEF TakeUrl, Lookup, ReadBack, Timeout, Requeue, Enqueue, kick_worker, SType
  <2>4. \E p \in {"lookup", "wait", "requeue", "resolved", "failed"} :
          /\ part' = [part EXCEPT ![u] = p]
          /\ \/ probe' = probe /\ p # "wait"
             \/ p = "wait" /\ probe' = [probe EXCEPT ![u] = "crawl"]
          /\ adopted \subseteq adopted'
          /\ u \in adopted' \/ part[u] # "wait"
    BY <1>1 DEF TakeUrl, Lookup, ReadBack, Timeout, Requeue, Part
  <2>5. SType'  BY <2>2, <2>3, <2>4 DEF SType
  <2>6. Attended'  BY <2>4 DEF Attended, SType
  <2>7. QED  BY <2>1, <2>2, <2>3, <2>5, <2>6 DEF LockOfTicks, FetchParts, Joined
<1>2. CASE BeginFetch
  <2>1. /\ stage = "up" /\ ~fetch /\ fetch' = TRUE
        /\ part' \in [Urls -> {"none", "todo"}]
        /\ UNCHANGED <<stage, dbOpen, probe, adopted, kick, worker, lock>>
    BY <1>2 DEF BeginFetch
  <2>2. Attended'  BY <2>1 DEF Attended, FetchParts, NoParts
  <2>3. SType'  BY <2>1 DEF SType
  <2>4. QED  BY <2>1, <2>2, <2>3 DEF LockOfTicks, FetchParts, Joined
<1>3. CASE EndFetch \/ ClientLeaves
  <2>1. /\ fetch' = FALSE /\ part' = NoParts
        /\ UNCHANGED <<stage, dbOpen, probe, kick, worker, lock>>
        /\ adopted \subseteq adopted'
        /\ \A u \in Urls : part[u] = "wait" => u \in adopted'
    BY <1>3 DEF EndFetch, ClientLeaves
  <2>2. Attended'  BY <2>1 DEF Attended
  <2>3. SType'  BY <2>1 DEF SType, NoParts
  <2>4. QED  BY <2>1, <2>2, <2>3 DEF LockOfTicks, FetchParts, Joined
<1>4. QED  BY <1>1, <1>2, <1>3

\* No crawl, fetch or tick is left when the pool of the database is closed,
\* through any number of stops, crashes and restarts.
THEOREM DatabaseClosedLast == Spec => []DbClosedLast
<1>1. Orderly /\ [Next]_vars => Orderly'
  <2> SUFFICES ASSUME Orderly, [Next]_vars  PROVE Orderly'
    OBVIOUS
  <2>1. CASE Process \/ BeginStop \/ Restart  BY <2>1, ProcessOrderly
  <2>2. CASE Tasks
    BY <2>2, TicksOrderly, ProbesOrderly DEF Tasks
  <2>3. CASE TickCrashes  BY <2>3, TicksOrderly
  <2>4. CASE BeginFetch \/ EndFetch \/ ClientLeaves  BY <2>4, FetchOrderly
  <2>5. CASE \E u \in Urls : Fetching(u) \/ ProbeEnds(u) \/ ProbeWalled(u)
    BY <2>5, FetchOrderly, ProbesOrderly DEF Fetching
  <2>6. CASE UNCHANGED vars
    BY <2>6 DEF vars, procVars, fetchVars, tickVars, Orderly, SType, LockOfTicks,
                Attended, FetchParts, Joined
  <2>7. QED  BY <2>1, <2>2, <2>3, <2>4, <2>5, <2>6 DEF Next
<1>2. QED  BY OrderlyInit, OrderlyCloses, <1>1, PTL DEF Spec

---------------------------------------------------------------------------
(* The cut of a page.                                                      *)

\* rfind returns the last position of some characters, or 0 when there is none.
LEMMA LastAtFacts ==
  ASSUME NEW T, NEW text \in Seq(T), NEW c
  PROVE  /\ LastAt(text, c) \in 0 .. Len(text)
         /\ LastAt(text, c) # 0 => text[LastAt(text, c)] \in c
         /\ \A j \in 1 .. Len(text) : j > LastAt(text, c) => text[j] \notin c
<1> DEFINE at == {i \in DOMAIN text : text[i] \in c}
<1>1. at \in SUBSET (1 .. Len(text)) /\ Len(text) \in Nat /\ DOMAIN text = 1 .. Len(text)
  OBVIOUS
<1>2. CASE at = {}
  <2>1. LastAt(text, c) = 0
    BY <1>2 DEF LastAt
  <2> QED
    BY <1>1, <1>2, <2>1
<1>3. CASE at # {}
  <2> HIDE DEF at
  <2>1. \E i \in at : \A j \in at : i >= j
    BY <1>1, <1>3, LastExists
  <2>2. LastAt(text, c) = CHOOSE i \in at : \A j \in at : i >= j
    BY <1>3 DEF LastAt, at
  <2>3. PICK l : l = LastAt(text, c)
    OBVIOUS
  <2>4. l \in at /\ \A j \in at : l >= j
    BY <2>1, <2>2, <2>3
  <2>5. l \in 1 .. Len(text) /\ text[l] \in c
    BY <1>1, <2>4 DEF at
  <2>6. ASSUME NEW j \in 1 .. Len(text), j > l
        PROVE  text[j] \notin c
    BY <1>1, <2>4, <2>5, <2>6 DEF at
  <2> QED
    BY <2>3, <2>5, <2>6
<1> QED
  BY <1>2, <1>3

\* rstrip keeps everything up to the last position that is no blank.
LEMMA StripFacts ==
  ASSUME NEW T, NEW text \in Seq(T)
  PROVE  \E m \in 0 .. Len(text) :
           /\ rstrip(text) = SubSeq(text, 1, m)
           /\ m < Len(text) => text[m + 1] \in Blank
<1> DEFINE solid == {i \in DOMAIN text : text[i] \notin Blank}
           Kept(m) == /\ rstrip(text) = SubSeq(text, 1, m)
                      /\ m < Len(text) => text[m + 1] \in Blank
<1>1. Len(text) \in Nat /\ DOMAIN text = 1 .. Len(text)
  OBVIOUS
<1>2. \A i : i \in solid <=> i \in 1 .. Len(text) /\ text[i] \notin Blank
  BY <1>1
<1> HIDE DEF solid
<1>3. CASE solid = {}
  <2>1. rstrip(text) = SubSeq(text, 1, 0)
    <3>1. rstrip(text) = <<>>
      BY <1>3 DEF rstrip, solid
    <3>2. SubSeq(text, 1, 0) = <<>>
      BY SubSeqEmpty
    <3> QED
      BY <3>1, <3>2
  <2>2. 0 < Len(text) => text[0 + 1] \in Blank
    <3>1. 0 < Len(text) => 1 \in 1 .. Len(text) /\ 0 + 1 = 1
      BY <1>1
    <3> QED
      BY <1>2, <1>3, <3>1
  <2>3. Kept(0)
    BY <2>1, <2>2
  <2> HIDE DEF Kept
  <2>4. \E m \in 0 .. Len(text) : Kept(m)
    BY <1>1, <2>3
  <2> QED
    BY <2>4 DEF Kept
<1>4. CASE solid # {}
  <2>1. \E i \in solid : \A j \in solid : i >= j
    <3>1. solid \in SUBSET (1 .. Len(text))
      BY <1>2
    <3> QED
      BY <1>1, <1>4, <3>1, LastExists
  <2>2. PICK m : m = CHOOSE i \in solid : \A j \in solid : i >= j
    OBVIOUS
  <2>3. rstrip(text) = SubSeq(text, 1, m)
    BY <1>4, <2>2 DEF rstrip, solid
  <2>4. m \in solid /\ \A j \in solid : m >= j
    BY <2>1, <2>2
  <2>5. m \in 1 .. Len(text)
    BY <1>2, <2>4
  <2>6. m < Len(text) => m + 1 \in 1 .. Len(text) /\ ~(m >= m + 1)
    BY <1>1, <2>5
  <2>7. m < Len(text) => text[m + 1] \in Blank
    BY <1>2, <2>4, <2>6
  <2>8. Kept(m)
    BY <2>3, <2>7
  <2> HIDE DEF Kept
  <2>9. \E k \in 0 .. Len(text) : Kept(k)
    BY <1>1, <2>5, <2>8
  <2> QED
    BY <2>9 DEF Kept
<1> QED
  BY <1>3, <1>4

\* s is the first k tokens of t.
Begins(T, s, t, k) ==
  s \in Seq(T) /\ Len(s) = k /\ \A i \in 1 .. k : s[i] = t[i]

\* What is cut from a beginning is a beginning.
LEMMA CutBegins ==
  ASSUME NEW T, NEW t \in Seq(T), NEW k \in 0 .. Len(t), NEW s, Begins(T, s, t, k), NEW j \in 0 .. k
  PROVE  Begins(T, SubSeq(s, 1, j), t, j)
<1>1. \A i \in 1 .. j : i \in 1 .. k /\ s[i] \in T /\ s[i] = t[i]
  BY DEF Begins
<1>2. /\ SubSeq(s, 1, j) \in Seq(T)
      /\ Len(SubSeq(s, 1, j)) = IF 1 <= j THEN j - 1 + 1 ELSE 0
      /\ \A i \in 1 .. j - 1 + 1 : SubSeq(s, 1, j)[i] = s[1 + i - 1]
  BY <1>1, SubSeqProperties
<1>3. Len(SubSeq(s, 1, j)) = j
  BY <1>2
<1>4. \A i \in 1 .. j : i \in 1 .. j - 1 + 1 /\ 1 + i - 1 = i
  OBVIOUS
<1> QED
  BY <1>1, <1>2, <1>3, <1>4 DEF Begins

\* A beginning is a prefix.
LEMMA BeginsIsPrefix ==
  ASSUME NEW T, NEW t \in Seq(T), NEW k \in 0 .. Len(t), NEW s, Begins(T, s, t, k)
  PROVE  IsPrefix(s, t)
<1>1. Begins(T, t, t, Len(t)) /\ Len(t) \in 0 .. Len(t)
  BY DEF Begins
<1>2. Begins(T, SubSeq(t, 1, k), t, k)
  BY <1>1, CutBegins
<1>3. Begins(T, SubSeq(s, 1, k), t, k)
  BY CutBegins
<1>4. SubSeq(s, 1, k) = SubSeq(t, 1, k)
  BY <1>2, <1>3, SeqEqual DEF Begins
<1> QED
  BY <1>4 DEF IsPrefix, Begins

\* As many tags end as begin in the beginning of a text without stray ">": it does not
\* break off inside a tag.
LEMMA TagsClosed ==
  ASSUME NEW T, NEW text \in Seq(T), NoStray(text), NEW n \in 0 .. Len(text),
         NEW raw, Begins(T, raw, text, n), ~(Count(raw, "<") > Count(raw, ">"))
  PROVE  ~InTag(raw)
<1> DEFINE i == LastAt(raw, {"<"})
           j == LastAt(raw, {">"})
           pre == SubSeq(text, 1, i - 1)
           Places(x, c) == {k \in DOMAIN x : x[k] = c}
<1>1. /\ n \in Nat /\ Len(text) \in Nat /\ n <= Len(text) /\ raw \in Seq(T) /\ Len(raw) = n
      /\ DOMAIN raw = 1 .. n /\ Begins(T, text, text, Len(text)) /\ Len(text) \in 0 .. Len(text)
  BY DEF Begins
<1>2. /\ i \in 0 .. n /\ (i # 0 => raw[i] = "<") /\ \A k \in 1 .. n : k > i => raw[k] # "<"
      /\ j \in 0 .. n /\ \A k \in 1 .. n : k > j => raw[k] # ">"
  BY <1>1, LastAtFacts
<1> SUFFICES ASSUME i > j  PROVE FALSE
  BY DEF InTag
<1> HIDE DEF i, j
<1>3. i \in 1 .. n /\ i - 1 \in 0 .. Len(text)
  BY <1>1, <1>2
<1>4. Begins(T, pre, text, i - 1)
  BY <1>1, <1>3, CutBegins
<1> HIDE DEF pre
<1>5. DOMAIN pre = 1 .. i - 1 /\ \A k \in 1 .. i - 1 : pre[k] = raw[k]
  <2>1. \A k \in 1 .. i - 1 : k \in 1 .. n /\ pre[k] = text[k]
    BY <1>1, <1>3, <1>4 DEF Begins
  <2>2. \A k \in 1 .. n : raw[k] = text[k]
    BY DEF Begins
  <2>3. pre \in Seq(T) /\ Len(pre) = i - 1
    BY <1>4 DEF Begins
  <2> QED
    BY <1>3, <2>1, <2>2, <2>3
<1>6. \A c : IsFiniteSet(Places(pre, c)) /\ Cardinality(Places(pre, c)) \in Nat
  <2>1. TAKE c
  <2>2. i - 1 \in Nat /\ Places(pre, c) \in SUBSET (1 .. i - 1)
    BY <1>3, <1>5
  <2>3. IsFiniteSet(1 .. i - 1)
    BY <2>2, FirstCount
  <2> HIDE DEF Places
  <2> QED
    BY <2>2, <2>3, FS_Subset, FS_CardinalityType
<1>7. Places(raw, ">") = Places(pre, ">")
  <2>1. \A k \in 1 .. n : raw[k] = ">" => k \in 1 .. i - 1
    BY <1>2, <1>3
  <2>2. \A k \in 1 .. i - 1 : k \in 1 .. n
    BY <1>1, <1>3
  <2> QED
    BY <1>1, <1>5, <2>1, <2>2
<1>8. Places(raw, "<") = Places(pre, "<") \cup {i} /\ i \notin Places(pre, "<")
  <2>1. \A k \in 1 .. n : raw[k] = "<" => k \in 1 .. i - 1 \/ k = i
    BY <1>2, <1>3
  <2>2. \A k \in 1 .. i - 1 : k \in 1 .. n
    BY <1>1, <1>3
  <2>3. i \notin 1 .. i - 1 /\ i \in 1 .. n /\ raw[i] = "<"
    BY <1>2, <1>3
  <2> QED
    BY <1>1, <1>5, <2>1, <2>2, <2>3
<1>9. Count(raw, "<") = Count(pre, "<") + 1 /\ Count(raw, ">") = Count(pre, ">")
  <2>1. Cardinality(Places(pre, "<") \cup {i}) = Cardinality(Places(pre, "<")) + 1
    <3> HIDE DEF Places
    <3> QED
      BY <1>6, <1>8, FS_AddElement
  <2> QED
    BY <1>7, <1>8, <2>1 DEF Count
<1>10. Count(pre, ">") <= Count(pre, "<")
  BY <1>3 DEF NoStray, pre
<1>11. Count(pre, "<") \in Nat /\ Count(pre, ">") \in Nat
  BY <1>6 DEF Count
<1> QED
  BY <1>9, <1>10, <1>11

\* What is kept of a page is cut at a tag or a blank, or there is no blank to cut it at in
\* the second half of what it may keep; and inside a tag only at a blank, or where no
\* earlier tag ends.
LEMMA HeadCut ==
  ASSUME NEW T, NEW text \in Seq(T), NEW n \in Nat \ {0}, n < Len(text)
  PROVE  \E m \in 0 .. n :
           /\ Begins(T, boundary_cut_head(text, n), text, m)
           /\ m > 0 => \/ text[m] = ">" \/ text[m + 1] \in Blank
                       \/ \A i \in n \div 2 + 2 .. n : text[i] \notin Blank
           /\ m > 0 /\ NoStray(text) /\ InTag(boundary_cut_head(text, n)) =>
                text[m + 1] \in Blank \/ \A i \in 2 .. n : text[i] # ">"
<1> DEFINE raw  == SubSeq(text, 1, n)
           ends == LastAt(raw, {">"})
           open == Count(raw, "<") > Count(raw, ">")
           torn == open /\ ends > 1
           cut  == IF torn THEN SubSeq(raw, 1, ends) ELSE raw
           best == LastAt(cut, Blank) - 1
           kept == IF best > n \div 2 THEN SubSeq(cut, 1, best) ELSE cut
<1>0. n \in 0 .. Len(text) /\ Len(text) \in Nat /\ boundary_cut_head(text, n) = rstrip(kept)
  BY DEF boundary_cut_head
<1>g. PICK gt : gt = ">"
  OBVIOUS
<1>s. PICK blank : blank = Blank
  OBVIOUS
<1>h. PICK half \in Nat : half = n \div 2
  OBVIOUS
<1>1. Begins(T, raw, text, n)
  <2>1. Begins(T, text, text, Len(text)) /\ Len(text) \in 0 .. Len(text)
    BY DEF Begins
  <2> QED
    BY <1>0, <2>1, CutBegins
<1> HIDE DEF raw
<1>e. /\ ends \in 0 .. n /\ (ends # 0 => raw[ends] = gt)
      /\ \A k \in 1 .. n : k > ends => raw[k] # gt
  BY <1>1, <1>g, LastAtFacts DEF Begins
<1> HIDE DEF ends, open
<1>2. PICK L \in Nat : L <= n /\ Begins(T, cut, text, L) /\ (torn => text[L] = gt) /\ (~torn => L = n /\ cut = raw)
  <2>1. CASE torn
    <3>1. ends \in 1 .. n /\ raw[ends] = gt
      BY <1>e, <2>1
    <3>2. PICK L : L = ends
      OBVIOUS
    <3>3. L \in 1 .. n /\ text[L] = gt
      BY <1>1, <3>1, <3>2 DEF Begins
    <3>4. L \in 0 .. n
      BY <3>3
    <3>5. Begins(T, SubSeq(raw, 1, L), text, L)
      BY <1>0, <1>1, <3>4, CutBegins
    <3>6. L \in Nat /\ L <= n
      <4>1. L \in 1 .. n
        BY <3>3
      <4> HIDE DEF cut, torn, best, kept
      <4> QED
        BY <4>1
    <3> QED
      BY <1>g, <2>1, <3>2, <3>3, <3>5, <3>6 DEF cut
  <2>2. CASE ~torn
    BY <1>1, <2>2
  <2> QED
    BY <2>1, <2>2
<1> HIDE DEF cut, torn, best, kept
<1>3. PICK b : b = LastAt(cut, blank)
  OBVIOUS
<1>4. /\ b \in 0 .. L
      /\ b # 0 => text[b] \in blank
      /\ \A j \in 1 .. L : j > b => text[j] \notin blank
  <2>1. /\ b \in 0 .. L
        /\ b # 0 => cut[b] \in blank
        /\ \A j \in 1 .. L : j > b => cut[j] \notin blank
    BY <1>2, <1>3, LastAtFacts DEF Begins
  <2>2. b # 0 => b \in 1 .. L
    BY <1>2, <2>1
  <2> QED
    BY <1>2, <2>1, <2>2 DEF Begins
<1>5. /\ b \in Nat /\ b <= L /\ L \in Nat /\ L <= n /\ L <= Len(text)
      /\ L \in 0 .. Len(text)
  <2>1. L \in Nat /\ L <= n
    BY <1>2
  <2>2. b \in Nat /\ b <= L
    BY <1>4, <2>1
  <2> QED
    BY <1>0, <2>1, <2>2
<1>6. kept = IF b - 1 > half THEN SubSeq(cut, 1, b - 1) ELSE cut
  BY <1>h, <1>s, <1>3 DEF kept, best
<1>7. PICK p \in Nat :
        /\ p <= L /\ Begins(T, kept, text, p)
        /\ \/ p = L /\ b <= half + 1
           \/ text[p + 1] \in blank
  <2>1. CASE b - 1 > half
    <3>1. b - 1 \in 0 .. L /\ (b - 1) + 1 = b /\ b # 0 /\ b - 1 \in Nat /\ b - 1 <= L
      BY <1>5, <2>1
    <3>2. Begins(T, SubSeq(cut, 1, b - 1), text, b - 1)
      BY <1>2, <1>5, <3>1, CutBegins
    <3>3. text[(b - 1) + 1] \in blank
      BY <1>4, <3>1
    <3> QED
      BY <1>6, <2>1, <3>1, <3>2, <3>3
  <2>2. CASE ~(b - 1 > half)
    <3>1. b <= half + 1
      BY <1>5, <2>2
    <3>2. L <= L /\ Begins(T, kept, text, L)
      BY <1>2, <1>5, <1>6, <2>2
    <3> QED
      BY <1>5, <3>1, <3>2
  <2> QED
    BY <2>1, <2>2
<1>8. PICK m \in 0 .. p : /\ rstrip(kept) = SubSeq(kept, 1, m)
                          /\ m < p => kept[m + 1] \in blank
  BY <1>s, <1>7, StripFacts DEF Begins
<1>9. m \in Nat /\ m <= p /\ m <= n /\ m \in 0 .. n /\ p \in 0 .. Len(text)
  <2>1. m \in Nat /\ m <= p
    OBVIOUS
  <2>2. p \in Nat /\ p <= L
    BY <1>7
  <2> QED
    BY <1>5, <2>1, <2>2
<1>10. Begins(T, rstrip(kept), text, m)
  BY <1>7, <1>8, <1>9, CutBegins
<1>11. ASSUME m > 0
       PROVE  \/ text[m] = gt \/ text[m + 1] \in blank
              \/ \A i \in half + 2 .. n : text[i] \notin blank
  <2>1. CASE m < p
    <3>1. m + 1 \in 1 .. p
      BY <1>9, <2>1
    <3> QED
      BY <1>7, <1>8, <2>1, <3>1 DEF Begins
  <2>2. CASE m = p /\ text[p + 1] \in blank
    BY <2>2
  <2>3. CASE m = p /\ p = L /\ b <= half + 1
    <3>1. CASE L = n
      <4>1. ASSUME NEW i \in half + 2 .. n
            PROVE  text[i] \notin blank
        <5>1. i \in Int /\ i > b /\ i <= L /\ i >= 1
          BY <1>5, <2>3, <3>1
        <5>2. i \in 1 .. L
          BY <1>5, <5>1
        <5> QED
          BY <1>4, <5>1, <5>2
      <4> QED
        BY <4>1
    <3>2. CASE text[L] = gt
      BY <2>3, <3>2
    <3> QED
      BY <1>2, <3>1, <3>2
  <2>4. m < p \/ m = p
    BY <1>9
  <2>5. (p = L /\ b <= half + 1) \/ text[p + 1] \in blank
    BY <1>7
  <2> QED
    BY <2>1, <2>2, <2>3, <2>4, <2>5
<1>12. ASSUME m = p, p = L, NoStray(text), InTag(rstrip(kept))
       PROVE  \A i \in 2 .. n : text[i] # gt
  <2>1. rstrip(kept) = cut
    BY <1>2, <1>10, <1>12, SeqEqual DEF Begins
  <2>2. LastAt(cut, {"<"}) > LastAt(cut, {gt})
    BY <1>g, <1>12, <2>1 DEF InTag
  <2>3. ~torn
    <3>1. SUFFICES ASSUME torn  PROVE FALSE
      OBVIOUS
    <3>2. LastAt(cut, {"<"}) \in 0 .. L
      BY <1>2, LastAtFacts DEF Begins
    <3>3. LastAt(cut, {gt}) \in 0 .. L /\ \A k \in 1 .. L : k > LastAt(cut, {gt}) => cut[k] # gt
      BY <1>2, LastAtFacts DEF Begins
    <3>4. L > 0 => cut[L] = gt /\ L \in 1 .. L
      BY <1>2, <1>5, <3>1 DEF Begins
    <3>5. PICK x : x = LastAt(cut, {"<"})
      OBVIOUS
    <3>6. PICK y : y = LastAt(cut, {gt})
      OBVIOUS
    <3>7. x \in 0 .. L /\ y \in 0 .. L /\ x > y
      BY <2>2, <3>2, <3>3, <3>5, <3>6
    <3>8. L > 0 /\ L > y
      BY ONLY <1>5, <3>7
    <3> QED
      BY <3>3, <3>4, <3>6, <3>8
  <2>4. cut = raw /\ L = n
    BY <1>2, <2>3
  <2>5. open
    BY <1>0, <1>1, <1>12, <2>1, <2>4, TagsClosed DEF open
  <2>6. ~(ends > 1)
    BY <2>3, <2>5 DEF torn
  <2>7. \A i \in 2 .. n : i \in 1 .. n /\ i > ends
    BY <1>e, <2>6
  <2> QED
    BY <1>1, <1>e, <2>7 DEF Begins
<1>13. ASSUME m > 0, NoStray(text), InTag(rstrip(kept))
       PROVE  text[m + 1] \in blank \/ \A i \in 2 .. n : text[i] # gt
  <2>1. CASE m < p
    <3>1. m + 1 \in 1 .. p
      BY <1>9, <2>1
    <3> QED
      BY <1>7, <1>8, <2>1, <3>1 DEF Begins
  <2>2. CASE m = p /\ text[p + 1] \in blank
    BY <2>2
  <2>3. CASE m = p /\ p = L
    BY <1>12, <1>13, <2>3
  <2> QED
    BY <1>7, <1>9, <2>1, <2>2, <2>3
<1> QED
  BY <1>0, <1>g, <1>s, <1>h, <1>9, <1>10, <1>11, <1>13

\* The pages of a bulk fetch are cut cleanly (truncation.py:62): whatever a page
\* holds and however long it is, what is kept of it is its beginning, fits, and
\* ends with a tag or a word unless there is no blank to end it at.
THEOREM HeadCutClean ==
  ASSUME NEW T, NEW text \in Seq(T), NEW n \in Nat
  PROVE  HeadCutSound(text, n)
<1> DEFINE kept == truncate_page(text, n, "head")
<1>0. Len(text) \in Nat /\ Begins(T, text, text, Len(text)) /\ Begins(T, <<>>, text, 0)
  BY DEF Begins
<1>1. CASE n = 0
  <2>1. kept = <<>>
    BY <1>1 DEF truncate_page
  <2> HIDE DEF kept
  <2>2. IsPrefix(kept, text)
    BY <1>0, <2>1, BeginsIsPrefix
  <2>3. Len(kept) = 0 /\ Len(kept) \notin 1 .. Len(text) - 1
    BY <2>1
  <2> QED
    BY <1>1, <2>2, <2>3 DEF HeadCutSound, kept
<1>2. CASE n # 0 /\ Len(text) <= n
  <2>1. kept = text
    BY <1>2 DEF truncate_page
  <2> HIDE DEF kept
  <2>2. IsPrefix(kept, text)
    BY <1>0, <2>1, BeginsIsPrefix
  <2>3. Len(kept) <= n /\ Len(kept) \notin 1 .. Len(text) - 1
    BY <1>0, <1>2, <2>1
  <2> QED
    BY <2>2, <2>3 DEF HeadCutSound, kept
<1>3. CASE n # 0 /\ n < Len(text)
  <2>1. kept = boundary_cut_head(text, n)
    BY <1>0, <1>3 DEF truncate_page
  <2> HIDE DEF kept
  <2>2. PICK m \in 0 .. n :
          /\ Begins(T, kept, text, m)
          /\ m > 0 => \/ text[m] = ">" \/ text[m + 1] \in Blank
                      \/ \A i \in n \div 2 + 2 .. n : text[i] \notin Blank
          /\ m > 0 /\ NoStray(text) /\ InTag(kept) =>
               text[m + 1] \in Blank \/ \A i \in 2 .. n : text[i] # ">"
    BY <1>3, <2>1, HeadCut
  <2>3. m \in Nat /\ m <= n /\ m \in 0 .. Len(text)
    BY <1>0, <1>3
  <2>4. IsPrefix(kept, text)
    BY <2>2, <2>3, BeginsIsPrefix
  <2>5. Len(kept) = m /\ (m > 0 => kept[m] = text[m])
    <3>1. m > 0 => m \in 1 .. m
      BY <2>3
    <3> QED
      BY <2>2, <3>1 DEF Begins
  <2>6. Len(kept) \in 1 .. Len(text) - 1 => m > 0
    BY <2>5
  <2> QED
    BY <2>2, <2>3, <2>4, <2>5, <2>6 DEF HeadCutSound, kept
<1> QED
  BY <1>0, <1>1, <1>2, <1>3

---------------------------------------------------------------------------
(* The budget of a bulk fetch.                                             *)

\* A sum is taken from left to right.
SumRun(s, f) ==
  /\ f \in [0 .. Len(s) -> Int]
  /\ f[0] = 0
  /\ \A i \in 1 .. Len(s) : f[i] = f[i - 1] + s[i]
  /\ Total(s) = f[Len(s)]

\* What Total computes.
LEMMA TotalRuns ==
  ASSUME NEW s \in Seq(Int)
  PROVE  \E f : SumRun(s, f)
<1> DEFINE N == Len(s)
           F == [ai \in Int \X (1 .. N) |-> ai[1] + s[ai[2]]]
           iter == CHOOSE it : it = [t \in SUBSET DOMAIN s |->
                     IF t = {} THEN 0 ELSE it[t \ {Max(t)}] + s[Max(t)]]
           f == [n \in 0 .. N |-> iter[1 .. n]]
<1>1. N \in Nat /\ DOMAIN s = 1 .. N /\ \A i \in 1 .. N : s[i] \in Int
  OBVIOUS
<1>2. F \in [Int \X (1 .. N) -> Int]  BY <1>1
<1>3. \A a \in Int : \A i \in 1 .. N : F[<<a, i>>] = a + s[i]
  OBVIOUS
<1>4. Total(s) = iter[DOMAIN s]  BY DEF Total, FoldLeft, MapThenFoldSet
<1> HIDE DEF F, N
<1>5. PICK g : Folds(Int, 0, N, F, g)
  <2>1. 0 \in Int
    OBVIOUS
  <2>2. QED  BY <1>1, <1>2, <2>1, FoldExists
<1>6. ASSUME NEW t \in SUBSET (1 .. N)
      PROVE  g[t] = IF t = {} THEN 0 ELSE g[t \ {Max(t)}] + s[Max(t)]
  <2>1. CASE t = {}  BY <1>5, <2>1 DEF Folds
  <2>2. CASE t # {}
    <3>1. Max(t) \in 1 .. N  BY <1>1, <2>2, MaxFacts
    <3>2. g[t \ {Max(t)}] \in Int  BY <1>5 DEF Folds
    <3>3. QED  BY <1>3, <1>5, <2>2, <3>1, <3>2 DEF Folds
  <2>3. QED  BY <2>1, <2>2
<1>7. g = [t \in SUBSET DOMAIN s |-> IF t = {} THEN 0 ELSE g[t \ {Max(t)}] + s[Max(t)]]
  BY <1>1, <1>5, <1>6 DEF Folds
<1>8. iter = [t \in SUBSET DOMAIN s |-> IF t = {} THEN 0 ELSE iter[t \ {Max(t)}] + s[Max(t)]]
  BY <1>7
<1> HIDE DEF iter
<1>9. iter[1 .. 0] = 0
  <2>1. 1 .. 0 = {} /\ {} \in SUBSET DOMAIN s
    OBVIOUS
  <2>2. QED  BY <1>8, <2>1
<1>10. ASSUME NEW i \in 1 .. N  PROVE iter[1 .. i] = iter[1 .. i - 1] + s[i]
  <2>1. 1 .. i \in SUBSET DOMAIN s  BY <1>1
  <2>2. Max(1 .. i) = i /\ (1 .. i) \ {Max(1 .. i)} = 1 .. i - 1 /\ 1 .. i # {}
    <3>1. i \in Nat /\ i # 0  BY <1>1
    <3>2. QED  BY <3>1, MaxOfFirst
  <2>3. QED  BY <1>8, <2>1, <2>2
<1>11. f[0] = 0  BY <1>1, <1>9
<1>12. \A i \in 1 .. N : f[i] = f[i - 1] + s[i]
  <2> SUFFICES ASSUME NEW i \in 1 .. N  PROVE f[i] = f[i - 1] + s[i]
    OBVIOUS
  <2>1. i \in 0 .. N /\ i - 1 \in 0 .. N  BY <1>1
  <2>2. QED  BY <1>10, <2>1
<1>13. \A n \in 0 .. N : f[n] \in Int
  <2> DEFINE S == {n \in 0 .. N : f[n] \in Int}
  <2> HIDE DEF f
  <2>1. 0 \in S  BY <1>1, <1>11
  <2>2. ASSUME NEW n \in Nat, n < N, n \in S  PROVE n + 1 \in S
    <3>1. n + 1 \in 1 .. N /\ (n + 1) - 1 = n  BY <1>1, <2>2
    <3>2. f[n + 1] = f[n] + s[n + 1]  BY <1>12, <3>1
    <3>3. QED  BY <1>1, <2>2, <3>1, <3>2
  <2> HIDE DEF S
  <2>3. \A n \in 0 .. N : n \in S  BY <1>1, <2>1, <2>2, UpTo
  <2>4. QED  BY <2>3 DEF S
<1>14. f \in [0 .. N -> Int]  BY <1>13
<1>15. Total(s) = f[N]  BY <1>1, <1>4
<1> HIDE DEF f
<1>16. SumRun(s, f)  BY <1>11, <1>12, <1>14, <1>15 DEF SumRun, N
<1>17. QED  BY <1>16

\* The sum of some numbers, each of them at least one, is at least their count.
LEMMA TotalAtLeast ==
  ASSUME NEW s \in Seq(Nat \ {0}), NEW f, SumRun(s, f)
  PROVE  \A n \in 0 .. Len(s) : f[n] >= n
<1> DEFINE N == Len(s)
           S == {n \in 0 .. N : f[n] >= n}
<1>1. N \in Nat /\ \A i \in 1 .. N : s[i] \in Nat /\ s[i] >= 1
  OBVIOUS
<1>2. f \in [0 .. N -> Int] /\ f[0] = 0 /\ \A i \in 1 .. N : f[i] = f[i - 1] + s[i]
  BY DEF SumRun
<1> HIDE DEF N
<1>3. 0 \in S  BY <1>1, <1>2
<1>4. ASSUME NEW n \in Nat, n < N, n \in S  PROVE n + 1 \in S
  <2>1. n + 1 \in 1 .. N /\ (n + 1) - 1 = n /\ n \in 0 .. N /\ n + 1 \in 0 .. N
    BY <1>1, <1>4
  <2>2. f[n + 1] = f[n] + s[n + 1]  BY <1>2, <2>1
  <2>3. s[n + 1] \in Nat /\ s[n + 1] >= 1 /\ f[n] \in Int  BY <1>1, <1>2, <2>1
  <2>4. f[n] >= n  BY <1>4
  <2>5. f[n + 1] >= n + 1  BY <2>2, <2>3, <2>4
  <2>6. QED  BY <2>1, <2>5
<1> HIDE DEF S
<1>5. \A n \in 0 .. N : n \in S  BY <1>1, <1>3, <1>4, UpTo
<1>6. QED  BY <1>5 DEF S, N

\* Ones add up to their count.
LEMMA TotalOfOnes ==
  ASSUME NEW s \in Seq(Nat), \A i \in DOMAIN s : s[i] = 1
  PROVE  Total(s) = Len(s)
<1> DEFINE N == Len(s)
<1>1. N \in Nat /\ \A i \in 1 .. N : s[i] = 1
  OBVIOUS
<1>2. s \in Seq(Int)
  OBVIOUS
<1>3. PICK f : SumRun(s, f)  BY <1>2, TotalRuns
<1>4. /\ f \in [0 .. N -> Int] /\ f[0] = 0 /\ \A i \in 1 .. N : f[i] = f[i - 1] + s[i]
      /\ Total(s) = f[N]
  BY <1>3 DEF SumRun
<1> DEFINE S == {n \in 0 .. N : f[n] = n}
<1> HIDE DEF N
<1>5. 0 \in S  BY <1>1, <1>4
<1>6. ASSUME NEW n \in Nat, n < N, n \in S  PROVE n + 1 \in S
  <2>1. n + 1 \in 1 .. N /\ (n + 1) - 1 = n  BY <1>1, <1>6
  <2>2. f[n + 1] = f[n] + s[n + 1] /\ s[n + 1] = 1  BY <1>1, <1>4, <2>1
  <2>3. QED  BY <1>1, <1>6, <2>1, <2>2
<1> HIDE DEF S
<1>7. \A n \in 0 .. N : n \in S  BY <1>1, <1>5, <1>6, UpTo
<1>8. N \in S  BY <1>1, <1>7
<1>9. QED  BY <1>4, <1>8 DEF S, N

\* A whole number of parts that is no more than the product does not grow by
\* taking another one.
LEMMA SharesAdd ==
  ASSUME NEW a \in Int, NEW p \in Int, NEW x \in Int, NEW y \in Int, NEW b \in Int, NEW w \in Int,
         a * w <= b * p, x * w <= b * y
  PROVE  (a + x) * w <= b * (p + y)
<1>1. (a + x) * w = a * w + x * w
  OBVIOUS
<1>2. b * (p + y) = b * p + b * y
  OBVIOUS
<1>3. QED  BY <1>1, <1>2

\* A common positive factor can be left out.
LEMMA FactorOut ==
  ASSUME NEW a \in Int, NEW b \in Int, NEW w \in Nat \ {0}
  PROVE  (a * w <= b * w => a <= b) /\ (a * w < b * w => a < b)
<1>1. ASSUME a > b  PROVE a * w >= b * w + w
  <2>1. (a - b - 1) * w >= 0
    <3>1. a - b - 1 \in Nat  BY <1>1
    <3>2. QED  BY <3>1
  <2>2. (a - b - 1) * w = a * w - b * w - w
    OBVIOUS
  <2>3. QED  BY <2>1, <2>2
<1>2. a * w \in Int /\ b * w \in Int
  OBVIOUS
<1>3. a = b => a * w = b * w
  OBVIOUS
<1>4. QED  BY <1>1, <1>2, <1>3

\* What a share is: the floor of the exact one, or one less when that is whole.
LEMMA ShareBounds ==
  ASSUME NEW b \in Nat, NEW p \in Nat, NEW w \in Nat \ {0}, NEW short \in BOOLEAN
  PROVE  /\ Share(b, p, w, short) \in Int
         /\ Share(b, p, w, short) * w <= b * p
         /\ b > w /\ p > 0 => Share(b, p, w, short) >= p
<1> DEFINE n == b * p
           q == n \div w
           r == n % w
           s == Share(b, p, w, short)
<1>1. n \in Nat
  OBVIOUS
<1>2. q \in Nat /\ r \in 0 .. w - 1 /\ n = q * w + r
  <2> HIDE DEF n
  <2>1. QED  BY <1>1
<1>3. s = q - (IF short /\ r = 0 THEN 1 ELSE 0)  BY DEF Share
<1> HIDE DEF q, r, s
<1>4. s \in Int /\ (s = q \/ (s = q - 1 /\ r = 0))  BY <1>2, <1>3
<1>5. s * w <= n
  <2>1. CASE s = q  BY <1>1, <1>2, <2>1
  <2>2. CASE s = q - 1
    <3>1. (q - 1) * w = q * w - w  BY <1>2
    <3>2. q * w \in Int  BY <1>2
    <3>3. QED  BY <1>1, <1>2, <2>2, <3>1, <3>2
  <2>3. QED  BY <1>4, <2>1, <2>2
<1>6. ASSUME b > w, p > 0  PROVE s >= p
  <2>1. n >= w * p + p
    <3>1. (b - w - 1) * p >= 0
      <4>1. b - w - 1 \in Nat  BY <1>6
      <4>2. QED  BY <4>1
    <3>2. (b - w - 1) * p = b * p - w * p - p
      OBVIOUS
    <3>3. QED  BY <3>1, <3>2
  <2>2. w * p = p * w /\ p * w \in Int /\ q * w \in Int  BY <1>2
  <2> HIDE DEF n
  <2>3. CASE r = 0
    <3>1. p * w < q * w  BY <1>1, <1>2, <1>6, <2>1, <2>2, <2>3
    <3>2. p < q  BY <1>2, <3>1, FactorOut
    <3>3. QED  BY <1>2, <1>4, <3>2
  <2>4. CASE r # 0
    <3>1. s = q  BY <1>4, <2>4
    <3>2. (q + 1) * w = q * w + w  BY <1>2
    <3>3. p * w < (q + 1) * w  BY <1>1, <1>2, <1>6, <2>1, <2>2, <3>2
    <3>4. p < q + 1  BY <1>2, <3>3, FactorOut
    <3>5. QED  BY <1>2, <3>1, <3>4
  <2>5. QED  BY <2>3, <2>4
<1>7. QED  BY <1>4, <1>5, <1>6 DEF s

\* The weights are parts of a whole, one for each page, and add up to it.
LEMMA WeightsAddUp ==
  ASSUME NEW strategy, NEW lens \in Seq(Nat \ {0}), NEW fetches \in Seq(Nat),
         Len(fetches) = Len(lens)
  PROVE  LET w == weights_for(strategy, lens, fetches) IN
         /\ w.part \in Seq(Nat \ {0}) /\ Len(w.part) = Len(lens)
         /\ w.whole = Total(w.part)
         /\ strategy \in {"head", "tail"} => w.part = lens
<1> DEFINE N == Len(lens)
           w == weights_for(strategy, lens, fetches)
           ones == [i \in DOMAIN lens |-> 1]
           more == [i \in DOMAIN fetches |-> fetches[i] + 1]
<1>1. N \in Nat /\ DOMAIN lens = 1 .. N /\ DOMAIN fetches = 1 .. N
  OBVIOUS
<1>2. CASE strategy \in {"head", "tail"}
  <2>1. w.part = lens /\ w.whole = Total(lens)  BY <1>2 DEF weights_for
  <2>2. QED  BY <2>1
<1>3. CASE /\ strategy \notin {"head", "tail"}
           /\ strategy = "even" \/ \A i \in DOMAIN fetches : fetches[i] <= 0
  <2>1. w.part = ones /\ w.whole = Len(lens)  BY <1>3 DEF weights_for
  <2>2. ones \in Seq(Nat \ {0}) /\ ones \in Seq(Nat) /\ Len(ones) = N  BY <1>1
  <2>3. \A i \in DOMAIN ones : ones[i] = 1
    OBVIOUS
  <2> HIDE DEF ones, w
  <2>4. Total(ones) = Len(ones)  BY <2>2, <2>3, TotalOfOnes
  <2>5. QED  BY <1>3, <2>1, <2>2, <2>4 DEF w
<1>4. CASE /\ strategy \notin {"head", "tail"}
           /\ ~ (strategy = "even" \/ \A i \in DOMAIN fetches : fetches[i] <= 0)
  <2>1. w.part = more /\ w.whole = Total(more)  BY <1>4 DEF weights_for
  <2>2. more \in Seq(Nat \ {0}) /\ Len(more) = N
    <3>1. \A i \in 1 .. N : more[i] \in Nat \ {0}  BY <1>1
    <3>2. QED  BY <1>1, <3>1
  <2> HIDE DEF more, w
  <2>3. QED  BY <1>4, <2>1, <2>2 DEF w
<1>5. QED  BY <1>2, <1>3, <1>4

\* The budget of a bulk fetch is kept and shared out fairly (truncation.py:56),
\* for any number of pages of any length, whatever the rounding of each share.
THEOREM AllocationKeepsBudget ==
  ASSUME NEW strategy \in STRATEGIES, NEW lens \in Seq(Nat), NEW fetches \in Seq(Nat),
         Len(fetches) = Len(lens), NEW budget \in Nat, NEW per_page \in Nat
  PROVE  AllocationSound(strategy, lens, fetches, budget, per_page)
<1> SUFFICES ASSUME NEW short \in BOOLEAN, budget # 0
    PROVE LET got == allocate_budgets(strategy, lens, fetches, budget, per_page, short) IN
      /\ Total(got) <= budget
      /\ \A i \in DOMAIN got :
           got[i] \in 0 .. Greatest(1, lens[i]) /\ (per_page # 0 => got[i] <= per_page)
      /\ Total([i \in DOMAIN lens |-> Greatest(1, lens[i])]) < budget /\ per_page = 0 /\ strategy \in {"head", "tail"}
           => \A i \in DOMAIN got : got[i] >= lens[i]
  BY DEF AllocationSound
<1> DEFINE N     == Len(lens)
           full  == [i \in DOMAIN lens |-> Greatest(1, lens[i])]
           w     == weights_for(strategy, full, fetches)
           share(i) == Share(budget, w.part[i], w.whole, short)
           cap(n) == IF per_page = 0 THEN n ELSE Least(n, per_page)
           got   == allocate_budgets(strategy, lens, fetches, budget, per_page, short)
<1>1. N \in Nat /\ DOMAIN lens = 1 .. N /\ \A i \in 1 .. N : lens[i] \in Nat
  OBVIOUS
<1>2. /\ full \in Seq(Nat \ {0}) /\ Len(full) = N /\ DOMAIN full = 1 .. N
      /\ \A i \in 1 .. N : full[i] = Greatest(1, lens[i]) /\ full[i] >= lens[i] /\ full[i] \in Nat \ {0}
  <2>1. \A i \in 1 .. N : full[i] = Greatest(1, lens[i])  BY <1>1
  <2>2. \A i \in 1 .. N : full[i] >= lens[i] /\ full[i] \in Nat \ {0}
    BY <1>1, <2>1 DEF Greatest
  <2>3. DOMAIN full = 1 .. N  BY <1>1
  <2>4. full \in [1 .. N -> Nat \ {0}]  BY <2>2, <2>3
  <2>5. full \in Seq(Nat \ {0}) /\ Len(full) = N  BY <1>1, <2>4
  <2>6. QED  BY <2>1, <2>2, <2>3, <2>5
<1>3. got = [i \in 1 .. N |-> Greatest(0, Least(cap(share(i)), full[i]))]
  BY <1>1, <1>2 DEF allocate_budgets
<1> HIDE DEF N, full, w, got
<1>4. /\ w.part \in Seq(Nat \ {0}) /\ Len(w.part) = N
      /\ w.whole = Total(w.part)
      /\ strategy \in {"head", "tail"} => w.part = full
  <2>1. Len(fetches) = Len(full)  BY <1>2 DEF N
  <2>2. QED  BY <1>2, <2>1, WeightsAddUp DEF w
<1>5. \A i \in 1 .. N : w.part[i] \in Nat \ {0}  BY <1>1, <1>4
<1>6. PICK P : SumRun(w.part, P)
  <2>1. w.part \in Seq(Int)  BY <1>4
  <2>2. QED  BY <2>1, TotalRuns
<1>7. /\ P \in [0 .. N -> Int] /\ P[0] = 0 /\ \A i \in 1 .. N : P[i] = P[i - 1] + w.part[i]
      /\ w.whole = P[N] /\ w.whole \in Int /\ w.whole >= N
  <2>1. \A n \in 0 .. N : P[n] >= n  BY <1>4, <1>6, TotalAtLeast
  <2>2. QED  BY <1>1, <1>4, <1>6, <2>1 DEF SumRun
<1>8. ASSUME NEW i \in 1 .. N
      PROVE  /\ w.whole \in Nat \ {0}
             /\ share(i) \in Int /\ share(i) * w.whole <= budget * w.part[i]
             /\ budget > w.whole => share(i) >= w.part[i]
             /\ got[i] = Greatest(0, Least(cap(share(i)), full[i]))
  <2>1. w.whole \in Nat \ {0}  BY <1>1, <1>7
  <2>2. w.part[i] \in Nat /\ w.part[i] > 0  BY <1>5
  <2>3. QED  BY <1>3, <2>1, <2>2, ShareBounds
<1>9. ASSUME NEW i \in 1 .. N
      PROVE  /\ got[i] \in Nat /\ got[i] <= full[i] /\ (per_page # 0 => got[i] <= per_page)
             /\ got[i] * w.whole <= budget * w.part[i]
             /\ budget > w.whole /\ per_page = 0 /\ w.part = full => got[i] = full[i]
  <2>1. PICK s \in Int : s = share(i)  BY <1>8
  <2>2. s * w.whole <= budget * w.part[i]  BY <1>8, <2>1
  <2>3. got[i] = Greatest(0, Least(cap(s), full[i]))  BY <1>8, <2>1
  <2>4. full[i] \in Nat \ {0}  BY <1>2
  <2>5. got[i] \in Nat /\ got[i] <= full[i] /\ (got[i] = 0 \/ got[i] <= s)
    BY <2>3, <2>4 DEF Greatest, Least
  <2>6. per_page # 0 => got[i] <= per_page  BY <2>3, <2>4 DEF Greatest, Least
  <2>7. got[i] * w.whole <= budget * w.part[i]
    <3>1. w.whole \in Nat \ {0} /\ w.part[i] \in Nat  BY <1>5, <1>8
    <3>2. budget * w.part[i] \in Nat  BY <3>1
    <3>3. CASE got[i] = 0  BY <3>1, <3>2, <3>3
    <3>4. CASE got[i] <= s
      <4>1. (s - got[i]) * w.whole >= 0
        <5>1. s - got[i] \in Nat  BY <2>5, <3>4
        <5>2. QED  BY <3>1, <5>1
      <4>2. (s - got[i]) * w.whole = s * w.whole - got[i] * w.whole  BY <2>5, <3>1
      <4>3. s * w.whole \in Int /\ got[i] * w.whole \in Int  BY <2>5, <3>1
      <4>4. QED  BY <2>2, <3>2, <4>1, <4>2, <4>3
    <3>5. QED  BY <2>5, <3>3, <3>4
  <2>8. ASSUME budget > w.whole, per_page = 0, w.part = full  PROVE got[i] = full[i]
    <3>1. s >= full[i]  BY <1>8, <2>1, <2>8
    <3>2. QED  BY <2>3, <2>4, <2>8, <3>1 DEF Greatest, Least
  <2>9. QED  BY <2>5, <2>6, <2>7, <2>8
<1>10. got \in Seq(Int) /\ Len(got) = N /\ DOMAIN got = 1 .. N
  <2>1. DOMAIN got = 1 .. N /\ got \in [1 .. N -> Int]  BY <1>3, <1>9
  <2>2. QED  BY <1>1, <2>1
<1>11. PICK G : SumRun(got, G)  BY <1>10, TotalRuns
<1>12. /\ G \in [0 .. N -> Int] /\ G[0] = 0 /\ \A i \in 1 .. N : G[i] = G[i - 1] + got[i]
       /\ Total(got) = G[N]
  BY <1>10, <1>11 DEF SumRun
<1>13. \A n \in 0 .. N : G[n] * w.whole <= budget * P[n]
  <2> DEFINE S == {n \in 0 .. N : G[n] * w.whole <= budget * P[n]}
  <2>1. 0 \in S
    <3>1. G[0] * w.whole = 0 /\ budget * P[0] = 0  BY <1>7, <1>12
    <3>2. QED  BY <1>1, <3>1
  <2>2. ASSUME NEW n \in Nat, n < N, n \in S  PROVE n + 1 \in S
    <3>1. n + 1 \in 1 .. N /\ (n + 1) - 1 = n /\ n \in 0 .. N /\ n + 1 \in 0 .. N
      BY <1>1, <2>2
    <3>2. G[n + 1] = G[n] + got[n + 1] /\ P[n + 1] = P[n] + w.part[n + 1]
      BY <1>7, <1>12, <3>1
    <3>3. G[n] * w.whole <= budget * P[n]  BY <2>2
    <3>4. got[n + 1] * w.whole <= budget * w.part[n + 1]  BY <1>9, <3>1
    <3>5. /\ G[n] \in Int /\ P[n] \in Int /\ got[n + 1] \in Int /\ w.part[n + 1] \in Int
          /\ w.whole \in Int
      <4>1. G[n] \in Int /\ P[n] \in Int /\ w.whole \in Int  BY <1>7, <1>12, <3>1
      <4>2. got[n + 1] \in Int  BY <1>9, <3>1
      <4>3. w.part[n + 1] \in Int  BY <1>5, <3>1
      <4>4. QED  BY <4>1, <4>2, <4>3
    <3>6. (G[n] + got[n + 1]) * w.whole <= budget * (P[n] + w.part[n + 1])
      <4>1. budget \in Int
        OBVIOUS
      <4>2. QED  BY <3>3, <3>4, <3>5, <4>1, SharesAdd, Zenon
    <3>7. G[n + 1] * w.whole <= budget * P[n + 1]  BY <3>2, <3>6
    <3>8. QED  BY <3>1, <3>7
  <2> HIDE DEF S
  <2>3. \A n \in 0 .. N : n \in S  BY <1>1, <2>1, <2>2, UpTo
  <2>4. QED  BY <2>3 DEF S
<1>14. Total(got) <= budget
  <2>1. CASE N = 0  BY <1>12, <2>1
  <2>2. CASE N # 0
    <3>1. w.whole \in Nat \ {0}  BY <1>1, <1>7, <2>2
    <3>2. G[N] * w.whole <= budget * w.whole  BY <1>1, <1>7, <1>13
    <3>3. G[N] \in Int  BY <1>1, <1>12
    <3>4. G[N] <= budget
      <4>1. budget \in Int
        OBVIOUS
      <4>2. QED  BY <3>1, <3>2, <3>3, <4>1, FactorOut, Zenon
    <3>5. QED  BY <1>12, <3>4
  <2>3. QED  BY <2>1, <2>2
<1>15. ASSUME NEW i \in DOMAIN got
       PROVE  got[i] \in 0 .. Greatest(1, lens[i]) /\ (per_page # 0 => got[i] <= per_page)
  BY <1>2, <1>9, <1>10
<1>16. ASSUME Total(full) < budget, per_page = 0, strategy \in {"head", "tail"},
              NEW i \in DOMAIN got
       PROVE  got[i] >= lens[i]
  <2>1. w.part = full /\ w.whole < budget  BY <1>4, <1>16
  <2>2. i \in 1 .. N  BY <1>10
  <2>3. got[i] = full[i]  BY <1>7, <1>9, <1>16, <2>1, <2>2
  <2>4. QED  BY <1>1, <1>2, <2>2, <2>3
<1>17. QED  BY <1>14, <1>15, <1>16 DEF full, got

\* The samples that are tried before the process boots.
Sampled == sample = NoSample \/ sample \in Samples

\* A list of numbers that may stand in a sample.
ListUpTo(list, k) == list \in Seq(Nat) /\ Len(list) = k

\* Nothing but samples is tried.
LEMMA SampledAlways == MCSpec => []Sampled
<1>1. MCInit => Sampled  BY DEF MCInit, Sampled
<1>2. Sampled /\ [MCNext]_<<vars, sample>> => Sampled'
  BY DEF Sampled, MCNext, Tried, NoSample, Samples
<1>3. QED  BY <1>1, <1>2, PTL DEF MCSpec

\* A sampled text is a list of characters, and a sampled budget one of pages.
LEMMA SampledShapes ==
  ASSUME Sampled
  PROVE  /\ sample.text \in Seq(Letters) /\ sample.chars \in Nat
         /\ sample.budget # NoBudget =>
              /\ sample.budget.strategy \in STRATEGIES
              /\ sample.budget.lens \in Seq(Nat) /\ sample.budget.fetches \in Seq(Nat)
              /\ Len(sample.budget.fetches) = Len(sample.budget.lens)
              /\ sample.budget.budget \in Nat /\ sample.budget.per_page \in Nat
<1>1. PICK C : C = Letters
  OBVIOUS
<1>3. <<>> \in Seq(C)
  OBVIOUS
<1>4. ASSUME NEW k \in Nat, NEW D, NEW list \in [1 .. k -> D]
      PROVE  list \in Seq(D) /\ Len(list) = k
  OBVIOUS
<1>5. CASE sample = NoSample  BY <1>1, <1>3, <1>5 DEF NoSample
<1>6. CASE sample \in [budget : Budgets, text : {<<>>}, chars : {0}]
  <2>1. PICK b : b = sample.budget
    OBVIOUS
  <2>2. b \in Budgets /\ sample.text = <<>> /\ sample.chars = 0  BY <1>6, <2>1
  <2>3. PICK k \in 1 .. 2 :
          b \in [strategy : STRATEGIES, lens : [1 .. k -> {0, 1, 3, 7}], fetches : [1 .. k -> {0, 1, 4}],
                 budget : {0, 1, 2, 5, 12}, per_page : {0, 2}]
    BY <2>2 DEF Budgets
  <2>4. k \in Nat
    OBVIOUS
  <2>5. b.lens \in [1 .. k -> Nat] /\ b.fetches \in [1 .. k -> Nat]
    <3>1. b.lens \in [1 .. k -> {0, 1, 3, 7}] /\ b.fetches \in [1 .. k -> {0, 1, 4}]  BY ONLY <2>3
    <3>2. QED  BY ONLY <3>1
  <2>6. ListUpTo(b.lens, k) /\ ListUpTo(b.fetches, k)
    BY <1>4, <2>4, <2>5 DEF ListUpTo
  <2>7. b.strategy \in STRATEGIES /\ b.budget \in Nat /\ b.per_page \in Nat  BY ONLY <2>3
  <2>8. QED  BY <1>1, <1>3, <2>1, <2>2, <2>6, <2>7 DEF ListUpTo
<1>7. CASE sample \in UNION {[budget : {NoBudget}, text : [1 .. k -> Letters], chars : 0 .. k] : k \in 1 .. 5}
  <2>1. PICK k \in 1 .. 5 :
          sample \in [budget : {NoBudget}, text : [1 .. k -> Letters], chars : 0 .. k]
    BY <1>7
  <2>2. sample.budget = NoBudget /\ sample.text \in [1 .. k -> Letters] /\ sample.chars \in 0 .. k
    BY <2>1
  <2>3. sample.text \in [1 .. k -> C]  BY ONLY <1>1, <2>2
  <2>4. sample.text \in Seq(C)
    <3>1. k \in Nat
      OBVIOUS
    <3>2. QED  BY <1>4, <2>3, <3>1
  <2>5. QED  BY <1>1, <2>2, <2>4
<1>8. QED  BY <1>5, <1>6, <1>7 DEF Sampled, Samples

\* The budgets and cuts that the run tries are kept and clean: they are among
\* those that AllocationKeepsBudget and HeadCutClean are about.
THEOREM TruncationAlwaysSound == MCSpec => []TruncationSound
<1>1. ASSUME Sampled  PROVE TruncationSound
  <2>1. sample.budget # NoBudget =>
          AllocationSound(sample.budget.strategy, sample.budget.lens, sample.budget.fetches,
                          sample.budget.budget, sample.budget.per_page)
    BY <1>1, SampledShapes, AllocationKeepsBudget
  <2>2. HeadCutSound(sample.text, sample.chars)  BY <1>1, SampledShapes, HeadCutClean
  <2>3. QED  BY <2>1, <2>2 DEF TruncationSound
<1>2. QED  BY <1>1, SampledAlways, PTL

=============================================================================
