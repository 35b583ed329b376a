-------------------------- MODULE DocumentProofs --------------------------
(***************************************************************************)
(* What a crawl makes of what it is sent: theorems about HttpDownload, for *)
(* redirect chains of any length, and about Botwall, for any page.         *)
(***************************************************************************)
EXTENDS MCCrawl, SequenceLemmas

---------------------------------------------------------------------------
(* Downloads.                                                              *)

\* A download, and what its callbacks are given, for any types of documents.
Downloads(Mime) ==
  [mime : Mime, length : Nat, loc : BOOLEAN, status : Nat, received : Nat, body : Nat,
   error : {"", "type", "size"}, dead : BOOLEAN]
Calls(Mime) ==
  [kind : {"type"}, val : Mime] \cup [kind : {"status", "length", "loc", "end", "chunk"}, val : Nat]

\* Every callback leaves a download, whatever it is given.
LEMMA TakeTyped ==
  ASSUME NEW Mime, "" \in Mime, NEW d \in Downloads(Mime), NEW e \in Calls(Mime)
  PROVE  Take(d, e) \in Downloads(Mime)
<1>1. CASE d.dead  BY <1>1 DEF Take
<1>2. CASE ~ d.dead /\ e.kind = "end"
  <2>1. Take(d, e) = finish_headers(d)  BY <1>2 DEF Take
  <2>2. QED  BY <2>1 DEF finish_headers, Refuse, Downloads
<1>3. CASE ~ d.dead /\ e.kind = "chunk"
  <2>1. Take(d, e) = write(d, e.val)  BY <1>3 DEF Take
  <2>2. e.val \in Nat  BY <1>3 DEF Calls
  <2>3. d.received \in Nat /\ d.body \in Nat  BY DEF Downloads
  <2>4. d.received + e.val \in Nat /\ d.body + e.val \in Nat  BY ONLY <2>2, <2>3
  <2>5. QED  BY <2>1, <2>4 DEF write, Refuse, Downloads
<1>4. CASE ~ d.dead /\ e.kind = "status"
  <2>1. PICK none, no, v : none = "" /\ no = 0 /\ v = e.val
    OBVIOUS
  <2>2. Take(d, e) = [d EXCEPT !.status = v, !.mime = none, !.length = no, !.loc = FALSE]
    BY <1>4, <2>1 DEF Take, header
  <2>3. v \in Nat /\ none \in Mime /\ no \in Nat  BY <1>4, <2>1 DEF Calls
  <2>4. QED  BY ONLY <2>2, <2>3, d \in Downloads(Mime) DEF Downloads
<1>5. CASE ~ d.dead /\ e.kind = "type"
  <2>1. Take(d, e) = [d EXCEPT !.mime = e.val]  BY <1>5 DEF Take, header
  <2>2. e.val \in Mime  BY <1>5 DEF Calls
  <2>3. QED  BY <2>1, <2>2 DEF Downloads
<1>6. CASE ~ d.dead /\ e.kind = "length"
  <2>1. Take(d, e) = [d EXCEPT !.length = e.val]  BY <1>6 DEF Take, header
  <2>2. e.val \in Nat  BY <1>6 DEF Calls
  <2>3. QED  BY <2>1, <2>2 DEF Downloads
<1>7. CASE ~ d.dead /\ e.kind = "loc"
  <2>1. Take(d, e) = [d EXCEPT !.loc = TRUE]  BY <1>7 DEF Take, header
  <2>2. QED  BY <2>1 DEF Downloads
<1>8. QED  BY <1>1, <1>2, <1>3, <1>4, <1>5, <1>6, <1>7 DEF Calls

\* The callbacks as a function.
Taking(Mime) == [de \in Downloads(Mime) \X Calls(Mime) |-> Take(de[1], de[2])]

\* It is a function on downloads, and each of its values is a callback's.
LEMMA TakingFacts ==
  ASSUME NEW Mime, "" \in Mime
  PROVE  /\ Taking(Mime) \in [Downloads(Mime) \X Calls(Mime) -> Downloads(Mime)]
         /\ \A d \in Downloads(Mime) : \A e \in Calls(Mime) :
              Taking(Mime)[<<d, e>>] = Take(d, e)
BY TakeTyped DEF Taking

\* What a download comes to is what the callbacks make of it, one by one.
LEMMA DownloadEnds ==
  ASSUME NEW Mime, "" \in Mime, NEW list \in Seq(Calls(Mime))
  PROVE  /\ Fresh \in Downloads(Mime)
         /\ Download(list) = Ends(Taking(Mime), Downloads(Mime), list, Fresh)
<1>1. PICK A, T, step : A = Downloads(Mime) /\ T = Calls(Mime) /\ step = Taking(Mime)
  OBVIOUS
<1>2. step \in [A \X T -> A] /\ \A d \in A : \A e \in T : step[<<d, e>>] = Take(d, e)
  BY <1>1, TakingFacts
<1>3. Fresh \in Downloads(Mime)  BY DEF Fresh, Downloads
<1>4. PICK a : a = Fresh
  OBVIOUS
<1>5. a \in A /\ list \in Seq(T)  BY <1>1, <1>3, <1>4
<1> DEFINE iter == CHOOSE it : it = [t \in SUBSET DOMAIN list |->
                     IF t = {} THEN Fresh ELSE Take(it[t \ {Max(t)}], list[Max(t)])]
<1>6. Download(list) = iter[DOMAIN list]
  BY Zenon DEF Download, FoldLeft, MapThenFoldSet
<1>7. PICK g : Solved(A, T, step, list, a, g)
  BY <1>2, <1>5, FoldSolved, Zenon
<1>8. g = [t \in SUBSET DOMAIN list |->
            IF t = {} THEN Fresh ELSE Take(g[t \ {Max(t)}], list[Max(t)])]
  BY ONLY <1>2, <1>4, <1>7 DEF Solved
<1>9. iter = [t \in SUBSET DOMAIN list |->
               IF t = {} THEN Fresh ELSE Take(iter[t \ {Max(t)}], list[Max(t)])]
  BY ONLY <1>8
<1> HIDE DEF iter
<1>10. iter[{}] = a
  <2>1. {} \in SUBSET DOMAIN list
    OBVIOUS
  <2>2. QED  BY ONLY <1>4, <1>9, <2>1
<1>11. ASSUME NEW t \in SUBSET DOMAIN list,
              t # {} /\ iter[t \ {Max(t)}] \in A /\ list[Max(t)] \in T
       PROVE  iter[t] = step[<<iter[t \ {Max(t)}], list[Max(t)]>>]
  <2>1. iter[t] = Take(iter[t \ {Max(t)}], list[Max(t)])
    BY ONLY <1>9, <1>11
  <2>2. QED  BY ONLY <1>2, <1>11, <2>1
<1>12. iter[DOMAIN list] = Ends(step, A, list, a)
  <2>1. Follows(A, T, step, list, a, iter)  BY ONLY <1>10, <1>11 DEF Follows
  <2>2. step \in [A \X T -> A] /\ list \in Seq(T) /\ a \in A  BY <1>2, <1>5
  <2>3. PICK D : D = DOMAIN list
    OBVIOUS
  <2>4. EndsAt(step, A, list, a, iter, D)  BY <2>1, <2>2, <2>3, FoldEnds, Zenon
  <2>5. QED  BY ONLY <2>3, <2>4 DEF EndsAt
<1>13. QED  BY <1>1, <1>3, <1>4, <1>6, <1>12

After(Mime, list, d) == Ends(Taking(Mime), Downloads(Mime), list, d)
AfterBoth(Mime, u, v, w, d) == After(Mime, w, d) = After(Mime, v, After(Mime, u, d))

\* A download stays one, whatever calls it takes in.
LEMMA AfterTyped ==
  ASSUME NEW Mime, "" \in Mime, NEW d \in Downloads(Mime), NEW list \in Seq(Calls(Mime))
  PROVE  After(Mime, list, d) \in Downloads(Mime)
BY TakingFacts, ThroughFacts, Zenon DEF After

\* No call leaves it as it is.
LEMMA AfterNone ==
  ASSUME NEW Mime, "" \in Mime, NEW d \in Downloads(Mime)
  PROVE  After(Mime, <<>>, d) = d
BY TakingFacts, EndsNone, Zenon DEF After

\* One call is one callback.
LEMMA AfterOne ==
  ASSUME NEW Mime, "" \in Mime, NEW d \in Downloads(Mime), NEW e \in Calls(Mime)
  PROVE  After(Mime, <<e>>, d) = Take(d, e)
<1>1. After(Mime, <<e>>, d) = Taking(Mime)[<<d, e>>]
  <2>1. IsEnd(Taking(Mime), Downloads(Mime), <<e>>, d, Taking(Mime)[<<d, e>>])
    BY TakingFacts, EndsOne, Zenon
  <2>2. QED  BY ONLY <2>1 DEF IsEnd, After
<1>2. QED  BY <1>1, TakingFacts

\* The calls of a longer list are taken in after those of the first part.
LEMMA AfterOther ==
  ASSUME NEW Mime, "" \in Mime, NEW d \in Downloads(Mime),
         NEW u \in Seq(Calls(Mime)), NEW v \in Seq(Calls(Mime)), NEW w, w = u \o v
  PROVE  AfterBoth(Mime, u, v, w, d)
<1>1. GoesOn(Taking(Mime), Downloads(Mime), u, v, w, d)
  BY TakingFacts, EndsBoth, Zenon
<1>2. QED  BY <1>1 DEF GoesOn, AfterBoth, After

---------------------------------------------------------------------------
(* The hops of a download.                                                 *)

\* What a hop may declare and send.
HopsOf(Mime) == [status : Nat, mime : Mime, length : Nat, loc : BOOLEAN, chunks : Seq(Nat)]

ChunkEvents(chunks) == [i \in DOMAIN chunks |-> Event("chunk", chunks[i])]
Declared(d, hop) ==
  [d EXCEPT !.status = hop.status, !.mime = hop.mime, !.length = hop.length, !.loc = hop.loc]

\* Every line and chunk of a hop is a call.
LEMMA EventsTyped ==
  ASSUME NEW Mime, NEW hop \in HopsOf(Mime)
  PROVE  /\ Event("status", hop.status) \in Calls(Mime)
         /\ Event("type", hop.mime) \in Calls(Mime)
         /\ Event("length", hop.length) \in Calls(Mime)
         /\ Event("loc", 0) \in Calls(Mime) /\ Event("end", 0) \in Calls(Mime)
         /\ ChunkEvents(hop.chunks) \in Seq(Calls(Mime))
<1>1. /\ hop.status \in Nat /\ hop.mime \in Mime /\ hop.length \in Nat /\ hop.loc \in BOOLEAN
      /\ hop.chunks \in Seq(Nat)
  BY DEF HopsOf
<1>2. \A kind \in {"status", "length", "loc", "end", "chunk"} : \A n \in Nat :
        Event(kind, n) \in Calls(Mime)
  BY DEF Event, Calls
<1>3. Event("type", hop.mime) \in Calls(Mime)  BY <1>1 DEF Event, Calls
<1>4. ChunkEvents(hop.chunks) \in Seq(Calls(Mime))
  <2>0. PICK sizes \in Seq(Nat) : sizes = hop.chunks
    BY <1>1
  <2>1. PICK len \in Nat : DOMAIN hop.chunks = 1 .. len /\ \A i \in 1 .. len : hop.chunks[i] \in Nat
    BY ONLY <2>0, sizes \in Seq(Nat)
  <2>2. \A i \in 1 .. len : Event("chunk", hop.chunks[i]) \in Calls(Mime)
    BY <1>2, <2>1, Zenon
  <2>3. QED  BY <2>1, <2>2 DEF ChunkEvents
<1>5. 0 \in Nat
  OBVIOUS
<1>6. QED  BY <1>1, <1>2, <1>3, <1>4, <1>5, Zenon

AfterMaybe(Mime, list, d, b, e) ==
  list \in Seq(Calls(Mime)) /\ After(Mime, list, d) = IF b THEN d ELSE Take(d, e)

\* A line that may be missing.
LEMMA AfterOptional ==
  ASSUME NEW Mime, "" \in Mime, NEW d \in Downloads(Mime), NEW e \in Calls(Mime),
         NEW b \in BOOLEAN, NEW list, list = IF b THEN <<>> ELSE <<e>>
  PROVE  AfterMaybe(Mime, list, d, b, e)
<1>1. After(Mime, <<>>, d) = d /\ After(Mime, <<e>>, d) = Take(d, e)
  BY AfterNone, AfterOne
<1>2. PICK T : T = Calls(Mime)
  OBVIOUS
<1>3. list \in Seq(T)
  <2>1. <<>> \in Seq(T) /\ <<e>> \in Seq(T)  BY ONLY <1>2, e \in Calls(Mime)
  <2>2. QED  BY <2>1
<1>4. QED  BY <1>1, <1>2, <1>3 DEF AfterMaybe

HopBecomes(Mime, hop, d, judged) ==
  /\ HopEvents(hop) \in Seq(Calls(Mime)) /\ judged \in Downloads(Mime)
  /\ After(Mime, HopEvents(hop), d) = After(Mime, ChunkEvents(hop.chunks), judged)

\* What a hop declares replaces what the hop before it declared, and is judged
\* before the first chunk; a transfer that has ended takes in nothing.
LEMMA HopTaken ==
  ASSUME NEW Mime, "" \in Mime, NEW d \in Downloads(Mime), NEW hop \in HopsOf(Mime),
         NEW judged, judged = IF d.dead THEN d ELSE finish_headers(Declared(d, hop))
  PROVE  HopBecomes(Mime, hop, d, judged)
<1>1. PICK e1, e2, e3, e4, e5, chunks :
        /\ e1 = Event("status", hop.status) /\ e2 = Event("type", hop.mime)
        /\ e3 = Event("length", hop.length) /\ e4 = Event("loc", 0) /\ e5 = Event("end", 0)
        /\ chunks = ChunkEvents(hop.chunks)
  OBVIOUS
<1>2. /\ e1 \in Calls(Mime) /\ e2 \in Calls(Mime) /\ e3 \in Calls(Mime) /\ e4 \in Calls(Mime)
      /\ e5 \in Calls(Mime) /\ chunks \in Seq(Calls(Mime))
  BY <1>1, EventsTyped
<1>3. PICK b2, b3, b4 : /\ b2 = (hop.mime = "") /\ b3 = (hop.length = 0) /\ b4 = ~ hop.loc
                        /\ b2 \in BOOLEAN /\ b3 \in BOOLEAN /\ b4 \in BOOLEAN
  OBVIOUS
<1>4. PICK u1, u2, u3, u4, u5 :
        /\ u1 = <<e1>> /\ u2 = (IF b2 THEN <<>> ELSE <<e2>>)
        /\ u3 = (IF b3 THEN <<>> ELSE <<e3>>) /\ u4 = (IF b4 THEN <<>> ELSE <<e4>>) /\ u5 = <<e5>>
  OBVIOUS
<1>5. PICK w2, w3, w4, w5, w6 :
        /\ w2 = u1 \o u2 /\ w3 = w2 \o u3 /\ w4 = w3 \o u4 /\ w5 = w4 \o u5 /\ w6 = w5 \o chunks
  OBVIOUS
<1>6. HopEvents(hop) = w6
  BY <1>1, <1>3, <1>4, <1>5 DEF HopEvents, ChunkEvents
<1>7. /\ u1 \in Seq(Calls(Mime)) /\ u2 \in Seq(Calls(Mime)) /\ u3 \in Seq(Calls(Mime))
      /\ u4 \in Seq(Calls(Mime)) /\ u5 \in Seq(Calls(Mime))
  <2>1. PICK T : T = Calls(Mime)
    OBVIOUS
  <2>2. /\ <<>> \in Seq(T) /\ <<e1>> \in Seq(T) /\ <<e2>> \in Seq(T) /\ <<e3>> \in Seq(T)
        /\ <<e4>> \in Seq(T) /\ <<e5>> \in Seq(T)
    BY ONLY <1>2, <2>1
  <2>3. QED  BY ONLY <1>4, <2>1, <2>2
<1>8. /\ w2 \in Seq(Calls(Mime)) /\ w3 \in Seq(Calls(Mime)) /\ w4 \in Seq(Calls(Mime))
      /\ w5 \in Seq(Calls(Mime)) /\ w6 \in Seq(Calls(Mime))
  <2>1. PICK T : T = Calls(Mime)
    OBVIOUS
  <2>2. \A x, y \in Seq(T) : x \o y \in Seq(T)
    BY ONLY TRUE
  <2>3. QED  BY ONLY <1>2, <1>5, <1>7, <2>1, <2>2
<1>9. /\ AfterBoth(Mime, u1, u2, w2, d) /\ AfterBoth(Mime, w2, u3, w3, d)
      /\ AfterBoth(Mime, w3, u4, w4, d) /\ AfterBoth(Mime, w4, u5, w5, d)
      /\ AfterBoth(Mime, w5, chunks, w6, d)
  BY <1>2, <1>5, <1>7, <1>8, AfterOther, Zenon
<1>10. PICK d1, d2, d3, d4, d5 :
         /\ d1 = Take(d, e1) /\ d2 = (IF b2 THEN d1 ELSE Take(d1, e2))
         /\ d3 = (IF b3 THEN d2 ELSE Take(d2, e3)) /\ d4 = (IF b4 THEN d3 ELSE Take(d3, e4))
         /\ d5 = Take(d4, e5)
  OBVIOUS
<1>11. d1 \in Downloads(Mime)  BY <1>2, <1>10, TakeTyped
<1>12. d2 \in Downloads(Mime)  BY <1>2, <1>10, <1>11, TakeTyped
<1>13. d3 \in Downloads(Mime)  BY <1>2, <1>10, <1>12, TakeTyped
<1>14. d4 \in Downloads(Mime)  BY <1>2, <1>10, <1>13, TakeTyped
<1>15. d5 \in Downloads(Mime)  BY <1>2, <1>10, <1>14, TakeTyped
<1>16. After(Mime, u1, d) = d1  BY <1>2, <1>4, <1>10, AfterOne
<1>17. After(Mime, w2, d) = d2
  <2>0. AfterMaybe(Mime, u2, d1, b2, e2)  BY <1>2, <1>3, <1>4, <1>11, AfterOptional, Zenon
  <2>1. After(Mime, u2, d1) = d2  BY ONLY <1>10, <2>0 DEF AfterMaybe
  <2>2. QED  BY ONLY <1>9, <1>16, <2>1 DEF AfterBoth
<1>18. After(Mime, w3, d) = d3
  <2>0. AfterMaybe(Mime, u3, d2, b3, e3)  BY <1>2, <1>3, <1>4, <1>12, AfterOptional, Zenon
  <2>1. After(Mime, u3, d2) = d3  BY ONLY <1>10, <2>0 DEF AfterMaybe
  <2>2. QED  BY ONLY <1>9, <1>17, <2>1 DEF AfterBoth
<1>19. After(Mime, w4, d) = d4
  <2>0. AfterMaybe(Mime, u4, d3, b4, e4)  BY <1>2, <1>3, <1>4, <1>13, AfterOptional, Zenon
  <2>1. After(Mime, u4, d3) = d4  BY ONLY <1>10, <2>0 DEF AfterMaybe
  <2>2. QED  BY ONLY <1>9, <1>18, <2>1 DEF AfterBoth
<1>20. After(Mime, w5, d) = d5
  <2>1. After(Mime, u5, d4) = d5  BY <1>2, <1>4, <1>10, <1>14, AfterOne
  <2>2. QED  BY ONLY <1>9, <1>19, <2>1 DEF AfterBoth
<1>21. After(Mime, w6, d) = After(Mime, chunks, d5)
  BY ONLY <1>9, <1>20 DEF AfterBoth
<1>22. d5 = judged
  <2>1. CASE d.dead
    <3>1. d1 = d  BY <1>10, <2>1 DEF Take
    <3>2. d2 = d  BY <1>10, <2>1, <3>1 DEF Take
    <3>3. d3 = d  BY <1>10, <2>1, <3>2 DEF Take
    <3>4. d4 = d  BY <1>10, <2>1, <3>3 DEF Take
    <3>5. d5 = d  BY <1>10, <2>1, <3>4 DEF Take
    <3>6. QED  BY <2>1, <3>5
  <2>2. CASE ~ d.dead
    <3>1. d1 = [d EXCEPT !.status = hop.status, !.mime = "", !.length = 0, !.loc = FALSE]
      BY <1>1, <1>10, <2>2 DEF Take, header, Event
    <3>2. d2 = [d1 EXCEPT !.mime = hop.mime] /\ ~ d1.dead
      <4>1. ~ d1.dead /\ d1.mime = ""  BY <2>2, <3>1 DEF Downloads
      <4>2. CASE b2  BY <1>3, <1>10, <1>11, <4>1, <4>2 DEF Downloads
      <4>3. CASE ~ b2  BY <1>1, <1>10, <4>1, <4>3 DEF Take, header, Event
      <4>4. QED  BY <1>3, <4>1, <4>2, <4>3
    <3>3. d3 = [d2 EXCEPT !.length = hop.length] /\ ~ d2.dead
      <4>1. ~ d2.dead /\ d2.length = 0  BY <1>11, <3>1, <3>2 DEF Downloads
      <4>2. CASE b3  BY <1>3, <1>10, <1>12, <4>1, <4>2 DEF Downloads
      <4>3. CASE ~ b3  BY <1>1, <1>10, <4>1, <4>3 DEF Take, header, Event
      <4>4. QED  BY <1>3, <4>1, <4>2, <4>3
    <3>4. d4 = [d3 EXCEPT !.loc = hop.loc] /\ ~ d3.dead
      <4>1. ~ d3.dead /\ d3.loc = FALSE  BY <1>11, <1>12, <3>1, <3>2, <3>3 DEF Downloads
      <4>2. hop.loc \in BOOLEAN  BY DEF HopsOf
      <4>3. CASE b4  BY <1>3, <1>10, <1>13, <4>1, <4>2, <4>3 DEF Downloads
      <4>4. CASE ~ b4  BY <1>1, <1>3, <1>10, <4>1, <4>2, <4>4 DEF Take, header, Event
      <4>5. QED  BY <1>3, <4>1, <4>3, <4>4
    <3>5. d4 = Declared(d, hop) /\ ~ d4.dead
      BY <1>11, <1>12, <1>13, <3>1, <3>2, <3>3, <3>4 DEF Declared, Downloads
    <3>6. d5 = finish_headers(d4)  BY <1>1, <1>10, <3>5 DEF Take, Event
    <3>7. QED  BY <2>2, <3>5, <3>6
  <2>3. QED  BY <2>1, <2>2
<1>23. QED  BY <1>1, <1>6, <1>8, <1>15, <1>21, <1>22 DEF HopBecomes

---------------------------------------------------------------------------
(* What has been received and kept.                                        *)

Plus == [an \in Nat \X Nat |-> an[1] + an[2]]

Adds(list, n, s) ==
  /\ s \in [0 .. n -> Nat] /\ s[0] = 0 /\ s[n] = Sum(list)
  /\ \A i \in 1 .. n : s[i] = s[i - 1] + list[i]

\* A sum is the numbers, added one by one.
LEMMA SumEnds ==
  ASSUME NEW list \in Seq(Nat), NEW n, n = Len(list)
  PROVE  \E s : Adds(list, n, s)
<1>1. PICK A, T, step : A = Nat /\ T = Nat /\ step = Plus
  OBVIOUS
<1>2. /\ step \in [A \X T -> A] /\ 0 \in A /\ list \in Seq(T)
      /\ \A a \in A : \A i \in T : step[<<a, i>>] = a + i
  BY <1>1 DEF Plus
<1> DEFINE iter == CHOOSE it : it = [t \in SUBSET DOMAIN list |->
                     IF t = {} THEN 0 ELSE it[t \ {Max(t)}] + list[Max(t)]]
<1>3. Sum(list) = iter[DOMAIN list]
  BY Zenon DEF Sum, FoldLeft, MapThenFoldSet
<1>4. PICK g : Solved(A, T, step, list, 0, g)
  BY <1>2, FoldSolved, Zenon
<1>5. g = [t \in SUBSET DOMAIN list |-> IF t = {} THEN 0 ELSE g[t \ {Max(t)}] + list[Max(t)]]
  BY ONLY <1>2, <1>4 DEF Solved
<1>6. iter = [t \in SUBSET DOMAIN list |-> IF t = {} THEN 0 ELSE iter[t \ {Max(t)}] + list[Max(t)]]
  BY ONLY <1>5
<1> HIDE DEF iter
<1>7. iter[{}] = 0
  <2>1. {} \in SUBSET DOMAIN list
    OBVIOUS
  <2>2. QED  BY ONLY <1>6, <2>1
<1>8. ASSUME NEW t \in SUBSET DOMAIN list,
             t # {} /\ iter[t \ {Max(t)}] \in A /\ list[Max(t)] \in T
      PROVE  iter[t] = step[<<iter[t \ {Max(t)}], list[Max(t)]>>]
  <2>1. iter[t] = iter[t \ {Max(t)}] + list[Max(t)]
    BY ONLY <1>6, <1>8
  <2>2. QED  BY ONLY <1>2, <1>8, <2>1
<1>9. Follows(A, T, step, list, 0, iter)  BY ONLY <1>7, <1>8 DEF Follows
<1>10. PICK D : D = DOMAIN list
  OBVIOUS
<1>11. EndsAt(step, A, list, 0, iter, D)  BY <1>2, <1>9, <1>10, FoldEnds, Zenon
<1>12. Sum(list) = Ends(step, A, list, 0)  BY ONLY <1>3, <1>10, <1>11 DEF EndsAt
<1>13. PICK h : Through(step, A, list, 0, h)  BY <1>2, ThroughFacts, Zenon
<1>14. Passes(step, list, n, 0, h, Ends(step, A, list, 0))
  BY <1>2, <1>13, ThroughEnds, Zenon
<1>15. h[0] = 0 /\ h[n] = Sum(list) /\ \A i \in 1 .. n : h[i] = step[<<h[i - 1], list[i]>>]
  BY ONLY <1>12, <1>14 DEF Passes
<1>16. h \in [0 .. n -> Nat]  BY <1>1, <1>13 DEF Through, Runs
<1>17. \A i \in 1 .. n : h[i] = h[i - 1] + list[i]
  <2> SUFFICES ASSUME NEW i \in 1 .. n  PROVE h[i] = h[i - 1] + list[i]
    OBVIOUS
  <2>1. n \in Nat /\ list[i] \in T  BY <1>1
  <2>2. i - 1 \in 0 .. n  BY ONLY <2>1, i \in 1 .. n
  <2>3. h[i - 1] \in A  BY <1>1, <1>16, <2>2
  <2>4. QED  BY ONLY <1>2, <1>15, <2>1, <2>3, i \in 1 .. n
<1>18. Adds(list, n, h)  BY ONLY <1>15, <1>16, <1>17 DEF Adds
<1>19. QED  BY <1>18

\* A sum is a number.
LEMMA SumTyped == \A list \in Seq(Nat) : Sum(list) \in Nat
<1> SUFFICES ASSUME NEW list \in Seq(Nat)  PROVE Sum(list) \in Nat
  OBVIOUS
<1>1. PICK n : n = Len(list) /\ n \in Nat
  OBVIOUS
<1>2. PICK s : Adds(list, n, s)
  BY <1>1, SumEnds, Zenon
<1>3. n \in Nat  BY <1>1
<1>4. QED  BY ONLY <1>2, <1>3 DEF Adds

\* The sum of no numbers.
LEMMA SumNone == Sum(<<>>) = 0
<1>1. PICK list, N : list = <<>> /\ N = Nat
  OBVIOUS
<1>2. 0 = Len(list) /\ list \in Seq(N)  BY ONLY <1>1
<1>0. list \in Seq(Nat)  BY ONLY <1>1, <1>2
<1>3. PICK s : Adds(list, 0, s)  BY <1>0, <1>2, SumEnds, Zenon
<1>4. QED  BY ONLY <1>1, <1>3 DEF Adds

\* So much has been sent, and so much of it is to be kept.
Holds(d, total, kept) ==
  /\ d.body <= MaxBytes
  /\ total <= MaxBytes => ~ d.dead /\ d.error = "" /\ d.received = total /\ d.body = kept
  /\ total > MaxBytes => d.dead /\ d.error # ""

\* One chunk more.
LEMMA ChunkTaken ==
  ASSUME NEW Mime, "" \in Mime, NEW d \in Downloads(Mime), NEW n \in Nat,
         NEW total \in Nat, NEW kept \in Nat, kept <= total, Holds(d, total, kept),
         NEW next, next = Take(d, Event("chunk", n)),
         NEW more, more = IF Redirected(d) THEN kept ELSE kept + n
  PROVE  Holds(next, total + n, more) /\ Redirected(next) = Redirected(d)
<1>1. d.body \in Nat /\ d.received \in Nat /\ d.dead \in BOOLEAN  BY DEF Downloads
<1>2. MaxBytes \in Nat  BY MaxBytesAssumption
<1>3. CASE total > MaxBytes
  <2>1. d.dead /\ d.error # "" /\ d.body <= MaxBytes  BY <1>3 DEF Holds
  <2>2. next = d  BY <2>1 DEF Take
  <2>3. total + n > MaxBytes /\ ~ (total + n <= MaxBytes)
    BY ONLY <1>2, <1>3, total \in Nat, n \in Nat
  <2>4. QED  BY <2>1, <2>2, <2>3 DEF Holds
<1>4. CASE total <= MaxBytes
  <2>1. ~ d.dead /\ d.error = "" /\ d.received = total /\ d.body = kept /\ d.body <= MaxBytes
    BY <1>4 DEF Holds
  <2>2. PICK got : got = [d EXCEPT !.received = @ + n]
    OBVIOUS
  <2>3. /\ got.received = total + n /\ got.body = kept /\ ~ got.dead /\ got.error = ""
        /\ got.status = d.status /\ got.loc = d.loc
    BY <2>1, <2>2 DEF Downloads
  <2>4. next = write(d, n)  BY <2>1 DEF Take, Event
  <2>5. CASE total + n > MaxBytes
    <3>1. next = Refuse(got, "size")  BY <2>2, <2>3, <2>4, <2>5 DEF write
    <3>2. /\ next.dead /\ next.error # "" /\ next.body = got.body
          /\ next.status = d.status /\ next.loc = d.loc
      BY <2>2, <2>3, <3>1 DEF Refuse, Downloads
    <3>3. ~ (total + n <= MaxBytes)  BY ONLY <1>2, <2>5, total \in Nat, n \in Nat
    <3>4. next.body <= MaxBytes  BY <2>1, <2>3, <3>2
    <3>5. Redirected(next) = Redirected(d)  BY <3>2 DEF Redirected
    <3>6. QED  BY <2>5, <3>2, <3>3, <3>4, <3>5 DEF Holds
  <2>6. CASE ~ (total + n > MaxBytes)
    <3>0. total + n <= MaxBytes /\ kept + n <= MaxBytes
      BY ONLY <1>2, <2>6, total \in Nat, n \in Nat, kept \in Nat, kept <= total
    <3>1. CASE Redirected(d)
      <4>1. Redirected(got)  BY <2>3, <3>1 DEF Redirected
      <4>2. next = got
        BY <2>2, <2>3, <2>4, <2>6, <3>1 DEF write
      <4>3. more = kept /\ kept <= MaxBytes  BY <2>1, <3>1
      <4>4. QED  BY <2>3, <2>6, <3>0, <3>1, <4>1, <4>2, <4>3 DEF Holds
    <3>2. CASE ~ Redirected(d)
      <4>1. next = [got EXCEPT !.body = @ + n]
        BY <2>2, <2>3, <2>4, <2>6, <3>2 DEF write
      <4>2. /\ next.received = total + n /\ next.body = kept + n /\ ~ next.dead
            /\ next.error = "" /\ next.status = d.status /\ next.loc = d.loc
        BY <2>2, <2>3, <4>1 DEF Downloads
      <4>3. Redirected(next) = Redirected(d)  BY <4>2 DEF Redirected
      <4>4. more = kept + n  BY <3>2
      <4>5. QED  BY <2>6, <3>0, <4>2, <4>3, <4>4 DEF Holds
    <3>3. QED  BY <3>1, <3>2
  <2>7. QED  BY <2>5, <2>6
<1>5. QED  BY ONLY <1>2, <1>3, <1>4, total \in Nat

StepsOf(Mime, list, n, d, h) ==
  /\ h \in [0 .. n -> Downloads(Mime)] /\ h[0] = d /\ h[n] = After(Mime, list, d)
  /\ \A i \in 1 .. n : h[i] = Take(h[i - 1], list[i])

\* The downloads between the calls.
LEMMA AfterSteps ==
  ASSUME NEW Mime, "" \in Mime, NEW d \in Downloads(Mime),
         NEW list \in Seq(Calls(Mime)), NEW n, n = Len(list)
  PROVE  \E h : StepsOf(Mime, list, n, d, h)
<1>1. PICK A, T, step : A = Downloads(Mime) /\ T = Calls(Mime) /\ step = Taking(Mime)
  OBVIOUS
<1>2. step \in [A \X T -> A] /\ \A x \in A : \A e \in T : step[<<x, e>>] = Take(x, e)
  BY <1>1, TakingFacts
<1>3. d \in A /\ list \in Seq(T)  BY <1>1
<1>4. PICK h : Through(step, A, list, d, h)  BY <1>2, <1>3, ThroughFacts, Zenon
<1>5. Passes(step, list, n, d, h, Ends(step, A, list, d))
  BY <1>2, <1>3, <1>4, ThroughEnds, Zenon
<1>6. /\ h[0] = d /\ h[n] = After(Mime, list, d)
      /\ \A i \in 1 .. n : h[i] = step[<<h[i - 1], list[i]>>]
  BY ONLY <1>1, <1>5 DEF Passes, After
<1>7. n \in Nat /\ \A i \in 1 .. n : list[i] \in T  BY ONLY <1>3, n = Len(list)
<1>8. h \in [0 .. n -> A]  BY <1>4 DEF Through, Runs
<1>9. \A i \in 1 .. n : h[i] = Take(h[i - 1], list[i])
  <2> SUFFICES ASSUME NEW i \in 1 .. n  PROVE h[i] = Take(h[i - 1], list[i])
    OBVIOUS
  <2>1. i - 1 \in 0 .. n  BY ONLY <1>7, i \in 1 .. n
  <2>2. h[i - 1] \in A  BY ONLY <1>8, <2>1
  <2>3. QED  BY ONLY <1>2, <1>6, <1>7, <2>2, i \in 1 .. n
<1>10. StepsOf(Mime, list, n, d, h)  BY ONLY <1>1, <1>6, <1>8, <1>9 DEF StepsOf
<1>11. QED  BY <1>10

\* A transfer that has ended takes in nothing more.
LEMMA DeadStays ==
  ASSUME NEW Mime, "" \in Mime, NEW d \in Downloads(Mime), d.dead,
         NEW list \in Seq(Calls(Mime))
  PROVE  After(Mime, list, d) = d
<1>1. PICK n : n = Len(list)
  OBVIOUS
<1>2. PICK h : StepsOf(Mime, list, n, d, h)
  BY <1>1, AfterSteps, Zenon
<1>3. n \in Nat  BY ONLY <1>1, list \in Seq(Calls(Mime))
<1>4. \A e : Take(d, e) = d  BY DEF Take
<1>5. PICK k : k = [i \in 0 .. n |-> d]
  OBVIOUS
<1>6. h[0] = k[0]  BY ONLY <1>2, <1>3, <1>5 DEF StepsOf
<1>7. ASSUME NEW i \in 1 .. n, h[i - 1] = k[i - 1]  PROVE h[i] = k[i]
  <2>1. i - 1 \in 0 .. n /\ i \in 0 .. n  BY ONLY <1>3, i \in 1 .. n
  <2>2. h[i] = Take(h[i - 1], list[i])  BY ONLY <1>2, i \in 1 .. n DEF StepsOf
  <2>3. QED  BY ONLY <1>4, <1>5, <1>7, <2>1, <2>2
<1>8. h[n] = k[n]  BY ONLY <1>3, <1>6, <1>7, RunsMeet, Zenon
<1>9. n \in 0 .. n  BY ONLY <1>3
<1>10. QED  BY ONLY <1>2, <1>5, <1>8, <1>9 DEF StepsOf

Kept(d, kept, n) == IF Redirected(d) THEN kept ELSE kept + n

\* The chunks of a hop.
LEMMA ChunksTaken ==
  ASSUME NEW Mime, "" \in Mime, NEW d \in Downloads(Mime), NEW sizes \in Seq(Nat),
         NEW list \in Seq(Calls(Mime)), list = ChunkEvents(sizes),
         NEW total \in Nat, NEW kept \in Nat, kept <= total, Holds(d, total, kept)
  PROVE  Holds(After(Mime, list, d), total + Sum(sizes), Kept(d, kept, Sum(sizes)))
<1>1. PICK n : n = Len(sizes)
  OBVIOUS
<1>2. n \in Nat /\ n = Len(list) /\ \A i \in 1 .. n : sizes[i] \in Nat /\ list[i] = Event("chunk", sizes[i])
  BY ONLY <1>1, sizes \in Seq(Nat), list = ChunkEvents(sizes) DEF ChunkEvents
<1>3. PICK h : StepsOf(Mime, list, n, d, h)
  BY <1>2, AfterSteps, Zenon
<1>4. PICK s : Adds(sizes, n, s)
  BY <1>1, SumEnds, Zenon
<1> DEFINE P(i) == /\ Holds(h[i], total + s[i], Kept(d, kept, s[i]))
                   /\ Redirected(h[i]) = Redirected(d)
           S == {i \in 0 .. n : P(i)}
<1>5. 0 \in S
  <2>1. 0 \in 0 .. n /\ total + 0 = total /\ kept + 0 = kept  BY ONLY <1>2, total \in Nat, kept \in Nat
  <2>2. h[0] = d /\ s[0] = 0  BY ONLY <1>3, <1>4 DEF StepsOf, Adds
  <2>3. Kept(d, kept, s[0]) = kept  BY ONLY <2>1, <2>2 DEF Kept
  <2>4. total + s[0] = total  BY ONLY <2>1, <2>2
  <2>5. P(0)  BY ONLY <2>2, <2>3, <2>4, Holds(d, total, kept)
  <2>6. QED  BY ONLY <2>1, <2>5
<1>6. ASSUME NEW i \in Nat, i < n, i \in S  PROVE i + 1 \in S
  <2>1. i + 1 \in 1 .. n /\ i + 1 \in 0 .. n /\ (i + 1) - 1 = i /\ i \in 0 .. n
    BY ONLY <1>2, <1>6
  <2>2. PICK x, y, m : x = h[i] /\ y = h[i + 1] /\ m = sizes[i + 1]
    OBVIOUS
  <2>3. x \in Downloads(Mime) /\ m \in Nat /\ y = Take(x, Event("chunk", m))
    BY ONLY <1>2, <1>3, <2>1, <2>2 DEF StepsOf
  <2>4. P(i)  BY ONLY <1>6
  <2>5. PICK u, v, w : u = total + s[i] /\ v = Kept(d, kept, s[i]) /\ w = (IF Redirected(x) THEN v ELSE v + m)
    OBVIOUS
  <2>6. s[i] \in Nat  BY ONLY <1>4, <2>1 DEF Adds
  <2>7. u \in Nat /\ v \in Nat /\ v <= u
    <3>1. u = total + s[i] /\ (v = kept \/ v = kept + s[i])
      BY ONLY <2>5 DEF Kept
    <3>2. QED  BY ONLY <2>6, <3>1, total \in Nat, kept \in Nat, kept <= total
  <2>8. Holds(x, u, v) /\ Redirected(x) = Redirected(d)  BY ONLY <2>2, <2>4, <2>5
  <2>9. Holds(y, u + m, w) /\ Redirected(y) = Redirected(x)
    BY <2>3, <2>5, <2>7, <2>8, ChunkTaken, Zenon
  <2>10. s[i + 1] = s[i] + m  BY ONLY <1>4, <2>1, <2>2 DEF Adds
  <2>11. u + m = total + s[i + 1] /\ w = Kept(d, kept, s[i + 1])
    BY ONLY <2>3, <2>5, <2>6, <2>8, <2>10, total \in Nat, kept \in Nat DEF Kept
  <2>12. P(i + 1)  BY ONLY <2>2, <2>8, <2>9, <2>11
  <2>13. QED  BY ONLY <2>1, <2>12
<1>7. S \subseteq 0 .. n
  OBVIOUS
<1>8. \A i \in S : P(i)
  OBVIOUS
<1> HIDE DEF S
<1>9. \A i \in 0 .. n : i \in S  BY ONLY <1>2, <1>5, <1>6, UpTo
<1>10. n \in 0 .. n  BY ONLY <1>2
<1>11. P(n)  BY ONLY <1>8, <1>9, <1>10
<1>12. QED  BY ONLY <1>3, <1>4, <1>11 DEF StepsOf, Adds

Continues(hop) ==
  \/ hop.status < 200 /\ hop.chunks = <<>>
  \/ hop.status \in Redirects /\ hop.loc

\* A hop that is not the last leaves a download that has kept nothing.
LEMMA HopPassed ==
  ASSUME NEW Mime, "" \in Mime, NEW d \in Downloads(Mime), NEW hop \in HopsOf(Mime),
         Continues(hop), NEW total \in Nat, Holds(d, total, 0)
  PROVE  Holds(After(Mime, HopEvents(hop), d), total + Sent(hop), 0)
<1>1. PICK judged : judged = IF d.dead THEN d ELSE finish_headers(Declared(d, hop))
  OBVIOUS
<1>2. HopBecomes(Mime, hop, d, judged)
  BY <1>1, HopTaken, Zenon
<1>3. PICK sizes \in Seq(Nat) : sizes = hop.chunks  BY DEF HopsOf
<1>4. PICK list \in Seq(Calls(Mime)) : list = ChunkEvents(sizes)
  BY <1>3, EventsTyped
<1>5. Sent(hop) = Sum(sizes) /\ Sum(sizes) \in Nat  BY <1>3, SumTyped DEF Sent
<1>6. judged \in Downloads(Mime) /\ After(Mime, HopEvents(hop), d) = After(Mime, list, judged)
  BY ONLY <1>2, <1>3, <1>4 DEF HopBecomes
<1>7. MaxBytes \in Nat  BY MaxBytesAssumption
<1>8. CASE d.dead
  <2>1. After(Mime, list, d) = d  BY <1>8, DeadStays, Zenon
  <2>2. ~ (total <= MaxBytes)  BY <1>8 DEF Holds
  <2>3. total > MaxBytes  BY ONLY <1>7, <2>2, total \in Nat
  <2>4. d.error # "" /\ d.body <= MaxBytes  BY <2>3 DEF Holds
  <2>5. total + Sum(sizes) > MaxBytes /\ ~ (total + Sum(sizes) <= MaxBytes)
    BY ONLY <1>5, <1>7, <2>3, total \in Nat
  <2>6. judged = d  BY <1>1, <1>8
  <2>7. Holds(d, total + Sum(sizes), 0)  BY ONLY <1>8, <2>4, <2>5 DEF Holds
  <2>8. QED  BY ONLY <1>5, <1>6, <2>1, <2>6, <2>7
<1>9. CASE ~ d.dead
  <2>1. PICK x : x = Declared(d, hop)
    OBVIOUS
  <2>2. /\ x.status = hop.status /\ x.loc = hop.loc /\ x.dead = d.dead /\ x.error = d.error
        /\ x.received = d.received /\ x.body = d.body
    BY <2>1 DEF Declared, Downloads
  <2>3. x.status < 200 \/ Redirected(x)
    BY ONLY <2>2, Continues(hop) DEF Redirected, Continues
  <2>4. judged = x
    <3>1. judged = finish_headers(x)  BY <1>1, <1>9, <2>1
    <3>2. QED  BY ONLY <2>3, <3>1 DEF finish_headers
  <2>5. Holds(x, total, 0)  BY ONLY <2>2, Holds(d, total, 0) DEF Holds
  <2>6. 0 \in Nat /\ 0 <= total  BY ONLY total \in Nat
  <2>7. x \in Downloads(Mime)  BY <1>6, <2>4
  <2>8. Holds(After(Mime, list, x), total + Sum(sizes), Kept(x, 0, Sum(sizes)))
    BY <1>4, <2>5, <2>6, <2>7, ChunksTaken, Zenon
  <2>9. Redirected(x) \/ sizes = <<>>
    BY ONLY <1>3, <2>2, Continues(hop) DEF Redirected, Continues
  <2>10. Kept(x, 0, Sum(sizes)) = 0
    BY ONLY <1>5, <2>9, SumNone DEF Kept
  <2>11. QED  BY ONLY <1>5, <1>6, <2>4, <2>8, <2>10
<1>10. QED  BY <1>8, <1>9

Final(hop) == hop.status >= 200 /\ ~ (hop.status \in Redirects /\ hop.loc)
Fits(hop, total) == hop.mime # "binary" /\ hop.length <= MaxBytes /\ total <= MaxBytes
Exactly(d, hop, total) ==
  /\ d.body <= MaxBytes
  /\ Fits(hop, total) => d.error = "" /\ d.body = Sent(hop)
  /\ ~ Fits(hop, total) => d.error # ""

\* The last hop decides.
LEMMA HopJudged ==
  ASSUME NEW Mime, "" \in Mime, NEW d \in Downloads(Mime), NEW hop \in HopsOf(Mime),
         Final(hop), NEW total \in Nat, Holds(d, total, 0)
  PROVE  Exactly(After(Mime, HopEvents(hop), d), hop, total + Sent(hop))
<1>1. PICK judged : judged = IF d.dead THEN d ELSE finish_headers(Declared(d, hop))
  OBVIOUS
<1>2. HopBecomes(Mime, hop, d, judged)
  BY <1>1, HopTaken, Zenon
<1>3. PICK sizes \in Seq(Nat) : sizes = hop.chunks  BY DEF HopsOf
<1>4. PICK list \in Seq(Calls(Mime)) : list = ChunkEvents(sizes)
  BY <1>3, EventsTyped
<1>5. Sent(hop) = Sum(sizes) /\ Sum(sizes) \in Nat  BY <1>3, SumTyped DEF Sent
<1>6. judged \in Downloads(Mime) /\ After(Mime, HopEvents(hop), d) = After(Mime, list, judged)
  BY ONLY <1>2, <1>3, <1>4 DEF HopBecomes
<1>7. MaxBytes \in Nat  BY MaxBytesAssumption
<1>8. PICK all : all = total + Sum(sizes)
  OBVIOUS
<1>9. CASE d.dead
  <2>1. After(Mime, list, d) = d  BY <1>9, DeadStays, Zenon
  <2>2. ~ (total <= MaxBytes)  BY <1>9 DEF Holds
  <2>3. total > MaxBytes  BY ONLY <1>7, <2>2, total \in Nat
  <2>4. d.error # "" /\ d.body <= MaxBytes  BY <2>3 DEF Holds
  <2>5. ~ (all <= MaxBytes)
    BY ONLY <1>5, <1>7, <1>8, <2>3, total \in Nat
  <2>6. judged = d  BY <1>1, <1>9
  <2>7. Exactly(d, hop, all)  BY ONLY <2>4, <2>5 DEF Exactly, Fits
  <2>8. QED  BY ONLY <1>5, <1>6, <1>8, <2>1, <2>6, <2>7
<1>10. CASE ~ d.dead
  <2>1. PICK x : x = Declared(d, hop)
    OBVIOUS
  <2>2. /\ x.status = hop.status /\ x.mime = hop.mime /\ x.length = hop.length /\ x.loc = hop.loc
        /\ x.dead = d.dead /\ x.error = d.error /\ x.received = d.received /\ x.body = d.body
    BY <2>1 DEF Declared, Downloads
  <2>3. ~ (x.status < 200) /\ ~ Redirected(x)
    <3>1. hop.status \in Nat  BY DEF HopsOf
    <3>2. QED  BY ONLY <2>2, <3>1, Final(hop) DEF Redirected, Final
  <2>4. judged = finish_headers(x)  BY <1>1, <1>10, <2>1
  <2>5. Holds(x, total, 0)  BY ONLY <2>2, Holds(d, total, 0) DEF Holds
  <2>6. 0 \in Nat /\ 0 <= total  BY ONLY total \in Nat
  <2>7. ASSUME NEW why \in {"type", "size"}, judged = Refuse(x, why), ~ Fits(hop, all)
        PROVE  Exactly(After(Mime, HopEvents(hop), d), hop, total + Sent(hop))
    <3>0. x \in Downloads(Mime)  BY <2>1 DEF Declared, Downloads, HopsOf
    <3>1. judged.dead /\ judged.error # "" /\ judged.body = x.body
      BY <2>7, <3>0 DEF Refuse, Downloads
    <3>2. After(Mime, list, judged) = judged  BY <1>6, <3>1, DeadStays, Zenon
    <3>3. judged.body <= MaxBytes  BY ONLY <2>5, <3>1 DEF Holds
    <3>4. Exactly(judged, hop, all)  BY ONLY <2>7, <3>1, <3>3 DEF Exactly
    <3>5. QED  BY ONLY <1>5, <1>6, <1>8, <3>2, <3>4
  <2>8. CASE x.mime = "binary"
    <3>1. judged = Refuse(x, "type")  BY ONLY <2>3, <2>4, <2>8 DEF finish_headers
    <3>2. ~ Fits(hop, all)  BY ONLY <2>2, <2>8 DEF Fits
    <3>3. QED  BY ONLY <2>7, <3>1, <3>2
  <2>9. CASE x.mime # "binary" /\ x.length > MaxBytes
    <3>1. judged = Refuse(x, "size")  BY ONLY <2>3, <2>4, <2>9 DEF finish_headers
    <3>2. ~ (x.length <= MaxBytes)
      <4>1. hop.length \in Nat  BY DEF HopsOf
      <4>2. QED  BY ONLY <1>7, <2>2, <2>9, <4>1
    <3>3. ~ Fits(hop, all)  BY ONLY <2>2, <3>2 DEF Fits
    <3>4. QED  BY ONLY <2>7, <3>1, <3>3
  <2>10. CASE x.mime # "binary" /\ ~ (x.length > MaxBytes)
    <3>1. judged = x  BY ONLY <2>3, <2>4, <2>10 DEF finish_headers
    <3>2. x \in Downloads(Mime)  BY <1>6, <3>1
    <3>3. Holds(After(Mime, list, x), total + Sum(sizes), Kept(x, 0, Sum(sizes)))
      BY <1>4, <2>5, <2>6, <3>2, ChunksTaken, Zenon
    <3>4. Kept(x, 0, Sum(sizes)) = Sum(sizes)  BY ONLY <1>5, <2>3 DEF Kept
    <3>5. PICK end : end = After(Mime, list, x)
      OBVIOUS
    <3>6. Holds(end, all, Sent(hop))  BY ONLY <1>5, <1>8, <3>3, <3>4, <3>5
    <3>7. x.length <= MaxBytes
      <4>1. hop.length \in Nat  BY DEF HopsOf
      <4>2. x.length \in Nat  BY ONLY <2>2, <4>1
      <4>3. ~ (x.length > MaxBytes)  BY <2>10
      <4>4. QED  BY ONLY <1>7, <4>2, <4>3
    <3>8. Fits(hop, all) <=> all <= MaxBytes  BY ONLY <2>2, <2>10, <3>7 DEF Fits
    <3>9. all \in Nat  BY ONLY <1>5, <1>8, total \in Nat
    <3>10. all <= MaxBytes \/ all > MaxBytes  BY ONLY <1>7, <3>9
    <3>11. Exactly(end, hop, all)  BY ONLY <3>6, <3>8, <3>10 DEF Exactly, Holds
    <3>12. QED  BY ONLY <1>5, <1>6, <1>8, <3>1, <3>5, <3>11
  <2>11. QED  BY <2>8, <2>9, <2>10
<1>11. QED  BY <1>9, <1>10

\* A redirect chain as the wire carries it: hops that go on, then one that does not.
Chain(Mime, chain, n) ==
  /\ chain \in Seq(HopsOf(Mime)) /\ n = Len(chain) /\ n >= 1
  /\ \A i \in 1 .. n - 1 : Continues(chain[i])
  /\ Final(chain[n])

\* What a chain sends is a number.
LEMMA TotalTyped ==
  ASSUME NEW Mime, NEW chain, NEW n, Chain(Mime, chain, n)
  PROVE  Total(chain) \in Nat
<1>1. /\ chain \in Seq(HopsOf(Mime)) /\ DOMAIN chain = 1 .. n /\ n \in Nat
      /\ \A i \in 1 .. n : chain[i].chunks \in Seq(Nat)
  <2>1. /\ chain \in Seq(HopsOf(Mime)) /\ DOMAIN chain = 1 .. n /\ n \in Nat
        /\ \A i \in 1 .. n : chain[i] \in HopsOf(Mime)
    BY ONLY Chain(Mime, chain, n) DEF Chain
  <2>2. \A hop \in HopsOf(Mime) : hop.chunks \in Seq(Nat)
    <3>1. PICK Q : Q = Seq(Nat)
      OBVIOUS
    <3>2. \A hop \in HopsOf(Mime) : hop.chunks \in Q  BY ONLY <3>1 DEF HopsOf
    <3>3. QED  BY ONLY <3>1, <3>2
  <2>3. QED  BY ONLY <2>1, <2>2
<1>2. \A i \in 1 .. n : Sent(chain[i]) \in Nat  BY <1>1, SumTyped DEF Sent
<1>3. PICK totals : totals = [i \in DOMAIN chain |-> Sent(chain[i])]
  OBVIOUS
<1>4. totals \in Seq(Nat)
  <2>1. totals \in [1 .. n -> Nat]  BY ONLY <1>1, <1>2, <1>3
  <2>2. QED  BY ONLY <1>1, <2>1
<1>5. QED  BY <1>3, <1>4, SumTyped DEF Total

\* However many hops, and whatever each of them declares and sends: when all of it is
\* taken in, the last hop and the bytes that came have decided.
LEMMA WholeTaken ==
  ASSUME NEW Mime, "" \in Mime, NEW chain, NEW n, Chain(Mime, chain, n)
  PROVE  /\ Wire(chain) \in Seq(Calls(Mime)) /\ n = Len(chain)
         /\ Exactly(Download(Wire(chain)), chain[n], Total(chain))
<1>1. /\ chain \in Seq(HopsOf(Mime)) /\ n = Len(chain) /\ n \in Nat /\ n >= 1
      /\ DOMAIN chain = 1 .. n /\ \A i \in 1 .. n : chain[i] \in HopsOf(Mime)
      /\ (\A i \in 1 .. n - 1 : Continues(chain[i])) /\ Final(chain[n])
  BY ONLY Chain(Mime, chain, n) DEF Chain
<1>2. \A hop \in HopsOf(Mime) : Sent(hop) \in Nat
  <2> SUFFICES ASSUME NEW hop \in HopsOf(Mime)  PROVE Sent(hop) \in Nat
    OBVIOUS
  <2>1. hop.chunks \in Seq(Nat)  BY DEF HopsOf
  <2>2. QED  BY <2>1, SumTyped DEF Sent
<1>3. PICK parts, totals : /\ parts = [i \in DOMAIN chain |-> HopEvents(chain[i])]
                           /\ totals = [i \in DOMAIN chain |-> Sent(chain[i])]
  OBVIOUS
<1>4. \A hop \in HopsOf(Mime) : HopEvents(hop) \in Seq(Calls(Mime))
  <2> SUFFICES ASSUME NEW hop \in HopsOf(Mime)  PROVE HopEvents(hop) \in Seq(Calls(Mime))
    OBVIOUS
  <2>1. Fresh \in Downloads(Mime)  BY DEF Fresh, Downloads
  <2>2. PICK judged : judged = IF Fresh.dead THEN Fresh ELSE finish_headers(Declared(Fresh, hop))
    OBVIOUS
  <2>3. HopBecomes(Mime, hop, Fresh, judged)  BY <2>1, <2>2, HopTaken, Zenon
  <2>4. QED  BY ONLY <2>3 DEF HopBecomes
<1>5. PICK T : T = Calls(Mime)
  OBVIOUS
<1>6. parts \in Seq(Seq(T)) /\ n = Len(parts)
  <2>1. PICK B : B = Seq(T)
    OBVIOUS
  <2>2. \A i \in 1 .. n : HopEvents(chain[i]) \in B  BY ONLY <1>1, <1>4, <1>5, <2>1
  <2>3. parts = [i \in 1 .. n |-> HopEvents(chain[i])]  BY ONLY <1>1, <1>3
  <2>4. parts \in Seq(B) /\ n = Len(parts)  BY ONLY <1>1, <2>2, <2>3
  <2>5. QED  BY ONLY <2>1, <2>4
<1>7. totals \in Seq(Nat) /\ n = Len(totals)
  <2>1. \A i \in 1 .. n : Sent(chain[i]) \in Nat  BY ONLY <1>1, <1>2
  <2>2. totals = [i \in 1 .. n |-> Sent(chain[i])]  BY ONLY <1>1, <1>3
  <2>3. QED  BY ONLY <1>1, <2>1, <2>2
<1>8. PICK A, step, a : A = Downloads(Mime) /\ step = Taking(Mime) /\ a = Fresh
  OBVIOUS
<1>9. step \in [A \X T -> A] /\ a \in A
  <2>1. Fresh \in Downloads(Mime)  BY DEF Fresh, Downloads
  <2>2. QED  BY <1>5, <1>8, <2>1, TakingFacts
<1>10. PICK h : ByParts(step, A, parts, n, a, h)
  BY <1>6, <1>9, EndsFlat, Zenon
<1>11. PICK s : Adds(totals, n, s)
  BY <1>7, SumEnds, Zenon
<1>12. /\ h \in [0 .. n -> Downloads(Mime)] /\ h[0] = Fresh
       /\ \A i \in 1 .. n : h[i] = After(Mime, HopEvents(chain[i]), h[i - 1])
  BY ONLY <1>1, <1>3, <1>8, <1>10 DEF ByParts, After
<1>13. /\ s \in [0 .. n -> Nat] /\ s[0] = 0 /\ s[n] = Sum(totals)
       /\ \A i \in 1 .. n : s[i] = s[i - 1] + Sent(chain[i])
  BY ONLY <1>1, <1>3, <1>11 DEF Adds
<1>14. Wire(chain) \in Seq(Calls(Mime)) /\ Download(Wire(chain)) = h[n]
  <2>1. Wire(chain) = FlattenSeq(parts)  BY ONLY <1>3 DEF Wire
  <2>2. Wire(chain) \in Seq(T)
    <3>1. PICK c : Builds(T, parts, n, c)  BY <1>6, FlattenBuilds, Zenon
    <3>2. QED  BY ONLY <1>1, <2>1, <3>1 DEF Builds
  <2>3. PICK w \in Seq(Calls(Mime)) : w = Wire(chain)  BY ONLY <1>5, <2>2
  <2>4. Download(w) = Ends(Taking(Mime), Downloads(Mime), w, Fresh)  BY DownloadEnds
  <2>5. h[n] = Ends(step, A, w, a)  BY ONLY <1>10, <2>1, <2>3 DEF ByParts
  <2>6. QED  BY ONLY <1>8, <2>3, <2>4, <2>5
<1>15. PICK m : m = n - 1 /\ m \in Nat /\ m + 1 = n  BY ONLY <1>1
<1> DEFINE S == {i \in 0 .. m : Holds(h[i], s[i], 0)}
<1>16. 0 \in S
  <2>0. MaxBytes \in Nat  BY MaxBytesAssumption
  <2>1. 0 <= MaxBytes /\ ~ (0 > MaxBytes)  BY ONLY <2>0
  <2>2. Holds(Fresh, 0, 0)  BY ONLY <2>1 DEF Holds, Fresh
  <2>3. 0 \in 0 .. m  BY ONLY <1>15
  <2>4. QED  BY ONLY <1>12, <1>13, <2>2, <2>3
<1>17. ASSUME NEW i \in Nat, i < m, i \in S  PROVE i + 1 \in S
  <2>1. i + 1 \in 1 .. n /\ i + 1 \in 1 .. n - 1 /\ i + 1 \in 0 .. m /\ (i + 1) - 1 = i /\ i \in 0 .. n
    BY ONLY <1>15, <1>17
  <2>2. PICK d, hop, total : d = h[i] /\ hop = chain[i + 1] /\ total = s[i]
    OBVIOUS
  <2>3. d \in Downloads(Mime) /\ hop \in HopsOf(Mime) /\ total \in Nat /\ Continues(hop)
    BY ONLY <1>1, <1>12, <1>13, <2>1, <2>2
  <2>4. Holds(d, total, 0)  BY ONLY <1>17, <2>2
  <2>5. Holds(After(Mime, HopEvents(hop), d), total + Sent(hop), 0)
    BY <2>3, <2>4, HopPassed, Zenon
  <2>6. h[i + 1] = After(Mime, HopEvents(hop), d) /\ s[i + 1] = total + Sent(hop)
    BY ONLY <1>12, <1>13, <2>1, <2>2
  <2>7. Holds(h[i + 1], s[i + 1], 0)  BY ONLY <2>5, <2>6
  <2>8. QED  BY ONLY <2>1, <2>7
<1>18. \A i \in S : Holds(h[i], s[i], 0)
  OBVIOUS
<1> HIDE DEF S
<1>19. \A i \in 0 .. m : i \in S  BY ONLY <1>15, <1>16, <1>17, UpTo
<1>20. PICK d, hop, total : d = h[m] /\ hop = chain[n] /\ total = s[m]
  OBVIOUS
<1>21. m \in 0 .. m /\ m \in 0 .. n /\ n \in 1 .. n /\ n - 1 = m  BY ONLY <1>15
<1>22. /\ d \in Downloads(Mime) /\ hop \in HopsOf(Mime) /\ total \in Nat /\ Final(hop)
       /\ Holds(d, total, 0)
  BY ONLY <1>1, <1>12, <1>13, <1>18, <1>19, <1>20, <1>21
<1>23. Exactly(After(Mime, HopEvents(hop), d), hop, total + Sent(hop))
  BY <1>22, HopJudged, Zenon
<1>24. h[n] = After(Mime, HopEvents(hop), d) /\ Sum(totals) = total + Sent(hop)
  BY ONLY <1>12, <1>13, <1>20, <1>21
<1>25. Total(chain) = Sum(totals)  BY ONLY <1>3 DEF Total
<1>26. Exactly(Download(Wire(chain)), chain[n], Total(chain))
  BY ONLY <1>14, <1>20, <1>23, <1>24, <1>25
<1>27. QED  BY ONLY <1>1, <1>14, <1>26

\* What every download is like between two calls.
Sound(d) ==
  /\ d.body <= MaxBytes /\ d.body <= d.received
  /\ d.error # "" => d.dead

\* No call changes that.
LEMMA SoundKept ==
  ASSUME NEW Mime, "" \in Mime, NEW d \in Downloads(Mime), NEW e \in Calls(Mime), Sound(d)
  PROVE  Sound(Take(d, e))
<1>1. CASE d.dead  BY <1>1 DEF Take
<1>2. CASE ~ d.dead /\ e.kind = "end"
  <2>1. Take(d, e) = finish_headers(d)  BY <1>2 DEF Take
  <2>2. QED  BY <2>1 DEF finish_headers, Refuse, Downloads, Sound
<1>3. CASE ~ d.dead /\ e.kind = "chunk"
  <2>1. Take(d, e) = write(d, e.val)  BY <1>3 DEF Take
  <2>2. e.val \in Nat  BY <1>3 DEF Calls
  <2>3. d.received \in Nat /\ d.body \in Nat /\ MaxBytes \in Nat
    BY MaxBytesAssumption DEF Downloads
  <2>4. PICK got : got = [d EXCEPT !.received = @ + e.val]
    OBVIOUS
  <2>5. /\ got.body = d.body /\ got.received = d.received + e.val /\ got.error = d.error
        /\ got.dead = d.dead /\ got \in Downloads(Mime)
    <3>0. PICK a, b : a = d.received /\ b = e.val
      OBVIOUS
    <3>1. PICK m : m = d.received + e.val /\ m \in Nat
      <4>1. a + b \in Nat  BY ONLY <2>2, <2>3, <3>0
      <4>2. QED  BY ONLY <3>0, <4>1
    <3>2. got = [d EXCEPT !.received = m]  BY ONLY <2>4, <3>1
    <3>3. QED  BY ONLY <3>1, <3>2, d \in Downloads(Mime) DEF Downloads
  <2>6. write(d, e.val) = IF got.received > MaxBytes THEN Refuse(got, "size")
                          ELSE IF Redirected(d) THEN got ELSE [got EXCEPT !.body = @ + e.val]
    BY <2>4 DEF write
  <2>7. CASE got.received > MaxBytes
    <3>1. /\ Refuse(got, "size").body = got.body /\ Refuse(got, "size").dead
          /\ Refuse(got, "size").received = got.received
      BY <2>5 DEF Refuse, Downloads
    <3>2. PICK a, b, c : a = d.received /\ b = e.val /\ c = d.body
      OBVIOUS
    <3>3. c <= MaxBytes /\ c <= a  BY <3>2 DEF Sound
    <3>4. c <= a + b
      <4>1. c <= a  BY <3>3
      <4>2. QED  BY ONLY <2>2, <2>3, <3>2, <4>1
    <3>5. Take(d, e) = Refuse(got, "size")  BY <2>1, <2>6, <2>7
    <3>6. /\ Take(d, e).body = c /\ Take(d, e).received = a + b /\ Take(d, e).dead
      BY <2>5, <3>1, <3>2, <3>5
    <3>7. QED  BY <3>3, <3>4, <3>6 DEF Sound
  <2>8. CASE ~ (got.received > MaxBytes) /\ Redirected(d)
    <3>1. Take(d, e) = got  BY <2>1, <2>6, <2>8
    <3>2. PICK a, b, c : a = d.received /\ b = e.val /\ c = d.body
      OBVIOUS
    <3>3. c <= MaxBytes /\ c <= a /\ (d.error # "" => d.dead)  BY <3>2 DEF Sound
    <3>4. c <= a + b
      <4>1. c <= a  BY <3>3
      <4>2. QED  BY ONLY <2>2, <2>3, <3>2, <4>1
    <3>5. QED  BY <2>5, <3>1, <3>2, <3>3, <3>4 DEF Sound
  <2>9. CASE ~ (got.received > MaxBytes) /\ ~ Redirected(d)
    <3>1. PICK more : more = [got EXCEPT !.body = @ + e.val]
      OBVIOUS
    <3>2. /\ more.body = d.body + e.val /\ more.received = got.received
          /\ more.error = d.error /\ more.dead = d.dead
      BY <2>5, <3>1 DEF Downloads
    <3>3. Take(d, e) = more  BY <2>1, <2>6, <2>9, <3>1
    <3>4. PICK a, b, c : a = d.received /\ b = e.val /\ c = d.body
      OBVIOUS
    <3>5. c <= a /\ (d.error # "" => d.dead)  BY <3>4 DEF Sound
    <3>6. c + b <= a + b /\ c + b <= MaxBytes
      <4>1. c <= a /\ ~ (a + b > MaxBytes)  BY <2>5, <2>9, <3>4, <3>5
      <4>2. QED  BY ONLY <2>2, <2>3, <3>4, <4>1
    <3>7. QED  BY <2>5, <3>2, <3>3, <3>4, <3>5, <3>6 DEF Sound
  <2>10. QED  BY <2>7, <2>8, <2>9
<1>4. CASE ~ d.dead /\ e.kind \notin {"end", "chunk"}
  <2>1. Take(d, e) = header(d, e) /\ e.kind \in {"type", "status", "length", "loc"}
    BY <1>4 DEF Take, Calls
  <2>2. QED  BY <2>1 DEF header, Downloads, Sound
<1>5. QED  BY <1>1, <1>2, <1>3, <1>4

\* So it holds wherever a transfer ends.
LEMMA SoundAlways ==
  ASSUME NEW Mime, "" \in Mime, NEW list \in Seq(Calls(Mime))
  PROVE  Sound(Download(list)) /\ Download(list) \in Downloads(Mime)
<1>1. PICK n : n = Len(list) /\ n \in Nat
  BY ONLY list \in Seq(Calls(Mime))
<1>2. Fresh \in Downloads(Mime) /\ Download(list) = After(Mime, list, Fresh)
  BY DownloadEnds DEF After
<1>3. PICK h : StepsOf(Mime, list, n, Fresh, h)
  BY <1>1, <1>2, AfterSteps, Zenon
<1> DEFINE S == {i \in 0 .. n : Sound(h[i])}
<1>4. 0 \in S
  <2>1. MaxBytes \in Nat  BY MaxBytesAssumption
  <2>2. Sound(Fresh)
    <3>1. Fresh.body = 0 /\ Fresh.received = 0 /\ Fresh.error = ""  BY DEF Fresh
    <3>2. 0 <= MaxBytes /\ 0 <= 0  BY ONLY <2>1
    <3>3. QED  BY ONLY <3>1, <3>2 DEF Sound
  <2>3. QED  BY ONLY <1>1, <1>3, <2>2 DEF StepsOf
<1>5. ASSUME NEW i \in Nat, i < n, i \in S  PROVE i + 1 \in S
  <2>1. i + 1 \in 1 .. n /\ i + 1 \in 0 .. n /\ (i + 1) - 1 = i /\ i \in 0 .. n
    BY ONLY <1>1, <1>5
  <2>2. PICK d, e : d = h[i] /\ e = list[i + 1]
    OBVIOUS
  <2>3. d \in Downloads(Mime) /\ e \in Calls(Mime) /\ h[i + 1] = Take(d, e) /\ Sound(d)
    BY ONLY <1>1, <1>3, <1>5, <2>1, <2>2, list \in Seq(Calls(Mime)) DEF StepsOf
  <2>4. Sound(Take(d, e))  BY <2>3, SoundKept
  <2>5. QED  BY ONLY <2>1, <2>3, <2>4
<1>6. \A i \in S : Sound(h[i])
  OBVIOUS
<1> HIDE DEF S
<1>7. \A i \in 0 .. n : i \in S  BY ONLY <1>1, <1>4, <1>5, UpTo
<1>8. n \in 0 .. n  BY ONLY <1>1
<1>9. Sound(h[n])  BY ONLY <1>6, <1>7, <1>8
<1>10. QED  BY ONLY <1>2, <1>3, <1>8, <1>9 DEF StepsOf

\* A list is its first n elements and the others.
LEMMA PartsOfWire ==
  ASSUME NEW T, NEW wire \in Seq(T), NEW n \in 0 .. Len(wire)
  PROVE  /\ SubSeq(wire, 1, n) \in Seq(T) /\ SubSeq(wire, n + 1, Len(wire)) \in Seq(T)
         /\ wire = SubSeq(wire, 1, n) \o SubSeq(wire, n + 1, Len(wire))
         /\ n = Len(wire) => SubSeq(wire, 1, n) = wire
<1>1. PICK N \in Nat : N = Len(wire) /\ DOMAIN wire = 1 .. N
  OBVIOUS
<1>2. n \in Nat /\ n <= N  BY ONLY <1>1, n \in 0 .. Len(wire)
<1>3. PICK u, v : u = SubSeq(wire, 1, n) /\ v = SubSeq(wire, n + 1, N)
  OBVIOUS
<1>4. /\ u \in Seq(T) /\ Len(u) = n /\ DOMAIN u = 1 .. n /\ \A i \in 1 .. n : u[i] = wire[i]
  <2>1. 1 <= n + 1 /\ n <= Len(wire) /\ n - 1 + 1 = n /\ \A i \in 1 .. n : 1 + i - 1 = i
    BY ONLY <1>1, <1>2
  <2>2. /\ u \in Seq(T) /\ Len(u) = n - 1 + 1 /\ DOMAIN u = 1 .. n - 1 + 1
        /\ \A i \in 1 .. n - 1 + 1 : u[i] = wire[1 + i - 1]
    BY <1>2, <1>3, <2>1, PartFacts
  <2>3. QED  BY ONLY <2>1, <2>2
<1>5. /\ v \in Seq(T) /\ Len(v) = N - n /\ DOMAIN v = 1 .. N - n
      /\ \A i \in 1 .. N - n : v[i] = wire[n + i]
  <2>1. /\ n + 1 \in Nat \ {0} /\ n + 1 <= N + 1 /\ N <= Len(wire) /\ N - (n + 1) + 1 = N - n
        /\ \A i \in 1 .. N - n : (n + 1) + i - 1 = n + i
    BY ONLY <1>1, <1>2
  <2>2. /\ v \in Seq(T) /\ Len(v) = N - (n + 1) + 1 /\ DOMAIN v = 1 .. N - (n + 1) + 1
        /\ \A i \in 1 .. N - (n + 1) + 1 : v[i] = wire[(n + 1) + i - 1]
    BY <1>1, <1>2, <1>3, <2>1, PartFacts
  <2>3. QED  BY ONLY <2>1, <2>2
<1>6. u \o v \in Seq(T) /\ Len(u \o v) = N
  <2>1. u \o v \in Seq(T) /\ Len(u \o v) = n + (N - n)
    BY <1>4, <1>5, ConcatFacts
  <2>2. QED  BY ONLY <1>1, <1>2, <2>1
<1>7. ASSUME NEW i \in 1 .. N  PROVE (u \o v)[i] = wire[i]
  <2>1. CASE i <= n
    <3>1. i \in 1 .. n  BY ONLY <1>2, <2>1, i \in 1 .. N
    <3>2. (u \o v)[i] = u[i]  BY <1>4, <1>5, <3>1, ConcatFacts
    <3>3. QED  BY ONLY <1>4, <3>1, <3>2
  <2>2. CASE ~ (i <= n)
    <3>1. i - n \in 1 .. N - n /\ n + (i - n) = i  BY ONLY <1>2, <2>2, i \in 1 .. N
    <3>2. (u \o v)[n + (i - n)] = v[i - n]  BY <1>4, <1>5, <3>1, ConcatFacts
    <3>3. QED  BY ONLY <1>5, <3>1, <3>2
  <2>3. QED  BY ONLY <2>1, <2>2
<1>8. wire = u \o v
  <2>1. PICK w \in Seq(T) : w = u \o v  BY <1>6
  <2>2. Len(w) = N /\ \A i \in 1 .. N : w[i] = wire[i]  BY ONLY <1>6, <1>7, <2>1
  <2>3. Len(wire) = Len(w) /\ \A i \in 1 .. Len(wire) : wire[i] = w[i]
    BY ONLY <1>1, <2>2
  <2>4. wire = w  BY <2>1, <2>3, SeqEqual, Zenon
  <2>5. QED  BY ONLY <2>1, <2>4
<1>9. n = Len(wire) => u = wire
  BY ONLY <1>1, <1>4, wire \in Seq(T)
<1>10. QED  BY ONLY <1>1, <1>3, <1>4, <1>5, <1>8, <1>9

\* However many hops, whatever each of them declares and sends, and wherever and
\* however the transfer ends, it is taken in for what it was (DownloadExact).
THEOREM DownloadAlwaysExact ==
  ASSUME NEW Mime, "" \in Mime, NEW chain, NEW n, Chain(Mime, chain, n)
  PROVE  DownloadExact(chain)
<1>1. PICK wire, last, total : wire = Wire(chain) /\ last = chain[n] /\ total = Total(chain)
  OBVIOUS
<1>2. wire \in Seq(Calls(Mime)) /\ n = Len(chain) /\ Exactly(Download(wire), last, total)
  BY <1>1, WholeTaken
<1>3. ASSUME NEW m \in 0 .. Len(wire), NEW end \in Endings(chain, m)
      PROVE  LET part    == SubSeq(wire, 1, m)
                 outcome == FetchOutcome(part, end)
             IN  /\ outcome = "rendered" => Fits(last, total) /\ Download(part).body = Sent(last)
                 /\ outcome = "rejected" =>
                      ~ Fits(last, total) \/ (end = "filesize" /\ Announced(chain))
                 /\ outcome = "error" => end = "network"
                 /\ Download(part).body <= MaxBytes
  <2>1. PICK part, rest : part = SubSeq(wire, 1, m) /\ rest = SubSeq(wire, m + 1, Len(wire))
    OBVIOUS
  <2>2. /\ part \in Seq(Calls(Mime)) /\ rest \in Seq(Calls(Mime)) /\ wire = part \o rest
        /\ m = Len(wire) => part = wire
    BY <1>2, <2>1, PartsOfWire
  <2>3. PICK d : d = Download(part)
    OBVIOUS
  <2>4. Sound(d) /\ d \in Downloads(Mime)  BY <2>2, <2>3, SoundAlways
  <2>5. d.error # "" => Download(wire) = d
    <3>1. SUFFICES ASSUME d.error # ""  PROVE Download(wire) = d
      OBVIOUS
    <3>2. /\ Fresh \in Downloads(Mime) /\ d = After(Mime, part, Fresh)
          /\ Download(wire) = After(Mime, wire, Fresh)
      BY <1>2, <2>2, <2>3, DownloadEnds DEF After
    <3>3. AfterBoth(Mime, part, rest, wire, Fresh)
      BY <1>2, <2>2, <3>2, AfterOther, Zenon
    <3>4. Download(wire) = After(Mime, rest, d)  BY ONLY <3>2, <3>3 DEF AfterBoth
    <3>5. d.dead  BY <2>4, <3>1 DEF Sound
    <3>6. After(Mime, rest, d) = d  BY <2>2, <2>4, <3>5, DeadStays, Zenon
    <3>7. QED  BY ONLY <3>4, <3>6
  <2>6. d.error # "" => ~ Fits(last, total)
    BY ONLY <1>2, <2>5 DEF Exactly
  <2>7. /\ end \in {"done", "network", "filesize"} /\ (end = "done" => m = Len(wire))
        /\ end = "filesize" => Announced(chain) \/ total > MaxBytes
    BY <1>1 DEF Endings
  <2>8. PICK outcome : outcome = FetchOutcome(part, end)
    OBVIOUS
  <2>9. outcome = IF d.error # "" \/ end = "filesize" THEN "rejected"
                  ELSE IF end = "done" THEN "rendered" ELSE "error"
    BY ONLY <2>3, <2>8 DEF FetchOutcome
  <2>10. outcome = "rendered" => Fits(last, total) /\ d.body = Sent(last)
    <3>1. SUFFICES ASSUME outcome = "rendered"
                   PROVE  Fits(last, total) /\ d.body = Sent(last)
      OBVIOUS
    <3>2. d.error = "" /\ end = "done"  BY ONLY <2>9, <3>1
    <3>3. d = Download(wire)  BY ONLY <2>2, <2>3, <2>7, <3>2
    <3>4. QED  BY ONLY <1>2, <3>2, <3>3 DEF Exactly
  <2>11. total > MaxBytes => ~ Fits(last, total)
    <3>1. total \in Nat  BY <1>1, TotalTyped
    <3>2. MaxBytes \in Nat  BY MaxBytesAssumption
    <3>3. total > MaxBytes => ~ (total <= MaxBytes)  BY ONLY <3>1, <3>2
    <3>4. QED  BY <3>3 DEF Fits
  <2>12. outcome = "rejected" => ~ Fits(last, total) \/ (end = "filesize" /\ Announced(chain))
    BY ONLY <2>6, <2>7, <2>9, <2>11
  <2>13. outcome = "error" => end = "network"
    BY ONLY <2>7, <2>9
  <2>14. d.body <= MaxBytes  BY <2>4 DEF Sound
  <2>15. QED  BY ONLY <2>1, <2>3, <2>8, <2>10, <2>12, <2>13, <2>14
<1>4. QED  BY ONLY <1>1, <1>2, <1>3 DEF DownloadExact, Fits

---------------------------------------------------------------------------
(* Walls.                                                                  *)

\* The tokens of a document, and what the two passes over it remember.
Markup == {"<", ">", "dq", "sq", "script", "pre", "/script", "/pre"}
Blocks(T) == [block : {""} \cup Opens, out : Seq(T)]
Tags(T)   == [tag : BOOLEAN, quote : {""} \cup Quotes, out : Seq(T)]
Blocking(T) == [st \in Blocks(T) \X T |-> block_step(st[1], st[2])]
Tagging(T)  == [st \in Tags(T) \X T |-> tag_step(st[1], st[2])]
NoBlock(T) == [o \in Seq(T) |-> [block |-> "", out |-> o]]
NoTag(T)   == [o \in Seq(T) |-> [tag |-> FALSE, quote |-> "", out |-> o]]

\* The first pass is a function on what it remembers, token by token.
LEMMA BlockingFacts ==
  ASSUME NEW T
  PROVE  /\ Blocking(T) \in [Blocks(T) \X T -> Blocks(T)]
         /\ \A s \in Blocks(T) : \A t \in T : Blocking(T)[<<s, t>>] = block_step(s, t)
         /\ NoBlock(T) \in [Seq(T) -> Blocks(T)]
<1>1. ASSUME NEW s \in Blocks(T), NEW t \in T  PROVE block_step(s, t) \in Blocks(T)
  <2>1. s.out \in Seq(T)  BY DEF Blocks
  <2>2. Append(s.out, t) \in Seq(T)  BY <2>1
  <2>3. QED  BY <2>2 DEF block_step, Blocks
<1>2. QED  BY <1>1 DEF Blocking, NoBlock, Blocks

\* So is the second.
LEMMA TaggingFacts ==
  ASSUME NEW T
  PROVE  /\ Tagging(T) \in [Tags(T) \X T -> Tags(T)]
         /\ \A s \in Tags(T) : \A t \in T : Tagging(T)[<<s, t>>] = tag_step(s, t)
         /\ NoTag(T) \in [Seq(T) -> Tags(T)]
<1>1. ASSUME NEW s \in Tags(T), NEW t \in T  PROVE tag_step(s, t) \in Tags(T)
  <2>1. s.out \in Seq(T)  BY DEF Tags
  <2>2. Append(s.out, t) \in Seq(T)  BY <2>1
  <2>3. QED  BY <2>2 DEF tag_step, Tags
<1>2. QED  BY <1>1 DEF Tagging, NoTag, Tags

\* What is left of a document is what the steps of the first pass leave.
LEMMA BlocksEnd ==
  ASSUME NEW T, NEW doc \in Seq(T)
  PROVE  strip_html_blocks(doc) = Ends(Blocking(T), Blocks(T), doc, NoBlock(T)[<<>>]).out
<1>1. PICK A, step, a, B : A = Blocks(T) /\ step = Blocking(T) /\ a = NoBlock(T)[<<>>] /\ B = T
  OBVIOUS
<1>2. /\ step \in [A \X B -> A] /\ \A s \in A : \A t \in B : step[<<s, t>>] = block_step(s, t)
      /\ a \in A /\ doc \in Seq(B)
  <2>1. <<>> \in Seq(T)
    OBVIOUS
  <2>2. QED  BY <1>1, <2>1, BlockingFacts
<1>3. a = [block |-> "", out |-> <<>>]
  <2>1. <<>> \in Seq(T)
    OBVIOUS
  <2>2. QED  BY ONLY <1>1, <2>1 DEF NoBlock
<1> DEFINE iter == CHOOSE it : it = [t \in SUBSET DOMAIN doc |->
                     IF t = {} THEN [block |-> "", out |-> <<>>]
                               ELSE block_step(it[t \ {Max(t)}], doc[Max(t)])]
<1>4. strip_html_blocks(doc) = iter[DOMAIN doc].out
  BY Zenon DEF strip_html_blocks, FoldLeft, MapThenFoldSet
<1>5. PICK g : Solved(A, B, step, doc, a, g)
  BY <1>2, FoldSolved, Zenon
<1>6. g = [t \in SUBSET DOMAIN doc |-> IF t = {} THEN [block |-> "", out |-> <<>>]
                                       ELSE block_step(g[t \ {Max(t)}], doc[Max(t)])]
  BY ONLY <1>2, <1>3, <1>5 DEF Solved
<1>7. iter = [t \in SUBSET DOMAIN doc |-> IF t = {} THEN [block |-> "", out |-> <<>>]
                                          ELSE block_step(iter[t \ {Max(t)}], doc[Max(t)])]
  BY ONLY <1>6
<1> HIDE DEF iter
<1>8. iter[{}] = a
  <2>1. {} \in SUBSET DOMAIN doc
    OBVIOUS
  <2>2. QED  BY ONLY <1>3, <1>7, <2>1
<1>9. ASSUME NEW t \in SUBSET DOMAIN doc,
             t # {} /\ iter[t \ {Max(t)}] \in A /\ doc[Max(t)] \in B
      PROVE  iter[t] = step[<<iter[t \ {Max(t)}], doc[Max(t)]>>]
  <2>1. iter[t] = block_step(iter[t \ {Max(t)}], doc[Max(t)])
    BY ONLY <1>7, <1>9
  <2>2. QED  BY ONLY <1>2, <1>9, <2>1
<1>10. Follows(A, B, step, doc, a, iter)  BY ONLY <1>8, <1>9 DEF Follows
<1>11. PICK D : D = DOMAIN doc
  OBVIOUS
<1>12. EndsAt(step, A, doc, a, iter, D)  BY <1>2, <1>10, <1>11, FoldEnds, Zenon
<1>13. QED  BY ONLY <1>1, <1>4, <1>11, <1>12 DEF EndsAt

\* What is left then is what the steps of the second pass leave.
LEMMA TagsEnd ==
  ASSUME NEW T, NEW doc \in Seq(T)
  PROVE  strip_tags(doc) = Ends(Tagging(T), Tags(T), doc, NoTag(T)[<<>>]).out
<1>1. PICK A, step, a, B : A = Tags(T) /\ step = Tagging(T) /\ a = NoTag(T)[<<>>] /\ B = T
  OBVIOUS
<1>2. /\ step \in [A \X B -> A] /\ \A s \in A : \A t \in B : step[<<s, t>>] = tag_step(s, t)
      /\ a \in A /\ doc \in Seq(B)
  <2>1. <<>> \in Seq(T)
    OBVIOUS
  <2>2. QED  BY <1>1, <2>1, TaggingFacts
<1>3. a = [tag |-> FALSE, quote |-> "", out |-> <<>>]
  <2>1. <<>> \in Seq(T)
    OBVIOUS
  <2>2. QED  BY ONLY <1>1, <2>1 DEF NoTag
<1> DEFINE iter == CHOOSE it : it = [t \in SUBSET DOMAIN doc |->
                     IF t = {} THEN [tag |-> FALSE, quote |-> "", out |-> <<>>]
                               ELSE tag_step(it[t \ {Max(t)}], doc[Max(t)])]
<1>4. strip_tags(doc) = iter[DOMAIN doc].out
  BY Zenon DEF strip_tags, FoldLeft, MapThenFoldSet
<1>5. PICK g : Solved(A, B, step, doc, a, g)
  BY <1>2, FoldSolved, Zenon
<1>6. g = [t \in SUBSET DOMAIN doc |-> IF t = {} THEN [tag |-> FALSE, quote |-> "", out |-> <<>>]
                                       ELSE tag_step(g[t \ {Max(t)}], doc[Max(t)])]
  BY ONLY <1>2, <1>3, <1>5 DEF Solved
<1>7. iter = [t \in SUBSET DOMAIN doc |-> IF t = {} THEN [tag |-> FALSE, quote |-> "", out |-> <<>>]
                                          ELSE tag_step(iter[t \ {Max(t)}], doc[Max(t)])]
  BY ONLY <1>6
<1> HIDE DEF iter
<1>8. iter[{}] = a
  <2>1. {} \in SUBSET DOMAIN doc
    OBVIOUS
  <2>2. QED  BY ONLY <1>3, <1>7, <2>1
<1>9. ASSUME NEW t \in SUBSET DOMAIN doc,
             t # {} /\ iter[t \ {Max(t)}] \in A /\ doc[Max(t)] \in B
      PROVE  iter[t] = step[<<iter[t \ {Max(t)}], doc[Max(t)]>>]
  <2>1. iter[t] = tag_step(iter[t \ {Max(t)}], doc[Max(t)])
    BY ONLY <1>7, <1>9
  <2>2. QED  BY ONLY <1>2, <1>9, <2>1
<1>10. Follows(A, B, step, doc, a, iter)  BY ONLY <1>8, <1>9 DEF Follows
<1>11. PICK D : D = DOMAIN doc
  OBVIOUS
<1>12. EndsAt(step, A, doc, a, iter, D)  BY <1>2, <1>10, <1>11, FoldEnds, Zenon
<1>13. QED  BY ONLY <1>1, <1>4, <1>11, <1>12 DEF EndsAt

---------------------------------------------------------------------------
(* The pieces of a page.                                                   *)

\* A text is one token that begins nothing; a tag may hold whatever its quotes
\* protect, but no block; a block ends with the first tag that closes its kind.
Quoted(inner, n, q) ==
  /\ q \in [0 .. n -> {""} \cup Quotes] /\ q[0] = "" /\ q[n] = ""
  /\ \A i \in 1 .. n :
       IF q[i - 1] # "" THEN q[i] = IF inner[i] = q[i - 1] THEN "" ELSE q[i - 1]
       ELSE inner[i] # ">" /\ q[i] = IF inner[i] \in Quotes THEN inner[i] ELSE ""
Text(T, p)  == p.kind = "text" /\ p.tok \in T \ (Opens \cup {"<"})
Tag(T, p)   == p.kind = "tag" /\ p.inner \in Seq(T \ Opens) /\ \E q : Quoted(p.inner, Len(p.inner), q)
Block(T, p) == p.kind = "block" /\ p.tok \in Opens /\ p.inner \in Seq(T)
               /\ \A i \in DOMAIN p.inner : p.inner[i] # Closes[p.tok]
Piece(T, p) == Text(T, p) \/ Tag(T, p) \/ Block(T, p)

\* What the first pass leaves of a piece.
Unblocked(p) == IF p.kind = "block" THEN <<>> ELSE Spelled(p)

\* The first pass keeps what is in no block, as it is.
LEMMA PlainKept ==
  ASSUME NEW T, NEW list \in Seq(T \ Opens), NEW o \in Seq(T)
  PROVE  ShowsMore(Blocking(T), Blocks(T), list, NoBlock(T), o, list)
<1>1. PICK A, step, state : A = Blocks(T) /\ step = Blocking(T) /\ state = NoBlock(T)
  OBVIOUS
<1>2. step \in [A \X T -> A] /\ state \in [Seq(T) -> A]
  BY <1>1, BlockingFacts
<1>3. list \in Seq(T) /\ \A i \in DOMAIN list : list[i] \in T \ Opens
  BY ONLY list \in Seq(T \ Opens)
<1>4. ASSUME NEW i \in DOMAIN list, NEW x \in Seq(T)
      PROVE  step[<<state[x], list[i]>>] = state[Append(x, list[i])]
  <2>1. PICK t \in T \ Opens : t = list[i]  BY <1>3
  <2>2. Append(x, t) \in Seq(T)  BY ONLY t \in T \ Opens, x \in Seq(T)
  <2>3. state[x] = [block |-> "", out |-> x] /\ state[Append(x, t)] = [block |-> "", out |-> Append(x, t)]
    BY ONLY <1>1, <2>2, x \in Seq(T) DEF NoBlock
  <2>4. PICK s, y : s = state[x] /\ y = Append(x, t)
    OBVIOUS
  <2>5. block_step(s, t) = [block |-> "", out |-> y]
    <3>0. s = [block |-> "", out |-> x]  BY ONLY <2>3, <2>4, Zenon
    <3>1. s.block = "" /\ s.out = x /\ s = [block |-> "", out |-> x]  BY ONLY <3>0
    <3>2. block_step(s, t) = [s EXCEPT !.out = Append(s.out, t)]
      BY ONLY <3>1, t \in T \ Opens DEF block_step
    <3>3. Append(s.out, t) = y  BY ONLY <2>4, <3>1
    <3>4. block_step(s, t) = [s EXCEPT !.out = y]  BY ONLY <3>2, <3>3
    <3>5. QED  BY ONLY <3>1, <3>4
  <2>6. state[x] \in A  BY <1>2
  <2>7. step[<<state[x], t>>] = block_step(state[x], t)  BY <1>1, <2>6, BlockingFacts
  <2>8. QED  BY ONLY <2>1, <2>3, <2>4, <2>5, <2>7
<1>5. ShowsMore(step, A, list, state, o, list)
  BY <1>2, <1>3, <1>4, EndsKept, Zenon
<1>6. QED  BY ONLY <1>1, <1>5

Leads(step, a, e, b)          == step[<<a, e>>] = b
Wraps(first, list, last, all) == all = <<first>> \o list \o <<last>>

\* Three lists, one after the other.
LEMMA EndsThree ==
  ASSUME NEW A, NEW T, NEW step \in [A \X T -> A], NEW a \in A, NEW b \in A, NEW c \in A, NEW d,
         NEW first \in T, NEW list \in Seq(T), NEW last \in T,
         Leads(step, a, first, b), IsEnd(step, A, list, b, c), Leads(step, c, last, d),
         NEW all, Wraps(first, list, last, all)
  PROVE  IsEnd(step, A, all, a, d)
<1>1. PICK u, w : u = <<first>> /\ w = <<last>>
  OBVIOUS
<1>2. u \in Seq(T) /\ w \in Seq(T)  BY ONLY <1>1, first \in T, last \in T
<1>3. PICK uv : uv = u \o list
  OBVIOUS
<1>4. uv \in Seq(T)  BY ONLY <1>2, <1>3, list \in Seq(T)
<1>5. all = uv \o w /\ all \in Seq(T)
  BY ONLY <1>1, <1>2, <1>3, <1>4, Wraps(first, list, last, all) DEF Wraps
<1>6. GoesOn(step, A, u, list, uv, a)  BY <1>2, <1>3, EndsBoth, Zenon
<1>7. GoesOn(step, A, uv, w, all, a)  BY <1>2, <1>4, <1>5, EndsBoth, Zenon
<1>8. IsEnd(step, A, u, a, b)
  <2>1. IsEnd(step, A, <<first>>, a, step[<<a, first>>])  BY EndsOne, Zenon
  <2>2. QED  BY ONLY <1>1, <2>1, Leads(step, a, first, b) DEF IsEnd, Leads
<1>9. IsEnd(step, A, w, c, d)
  <2>1. IsEnd(step, A, <<last>>, c, step[<<c, last>>])  BY EndsOne, Zenon
  <2>2. QED  BY ONLY <1>1, <2>1, Leads(step, c, last, d) DEF IsEnd, Leads
<1>10. Ends(step, A, list, b) = c  BY DEF IsEnd
<1>11. QED  BY ONLY <1>5, <1>6, <1>7, <1>8, <1>9, <1>10 DEF GoesOn, IsEnd

\* The first pass leaves nothing of a block.
LEMMA BlockGone ==
  ASSUME NEW T, Markup \subseteq T, NEW p, Block(T, p), NEW o \in Seq(T)
  PROVE  ShowsMore(Blocking(T), Blocks(T), Spelled(p), NoBlock(T), o, <<>>)
         /\ Spelled(p) \in Seq(T)
<1>1. PICK A, step, tok, close, inner :
        /\ A = Blocks(T) /\ step = Blocking(T) /\ tok = p.tok /\ close = Closes[p.tok] /\ inner = p.inner
  OBVIOUS
<1>2. p.kind = "block" /\ tok \in Opens /\ inner \in Seq(T) /\ \A i \in DOMAIN inner : inner[i] # close
  BY ONLY <1>1, Block(T, p) DEF Block
<1>3. tok \in T /\ close \in T /\ tok # ""
  <2>1. CASE tok = "script"
    <3>1. close = "/script"  BY ONLY <1>1, <2>1 DEF Closes
    <3>2. QED  BY ONLY <2>1, <3>1, Markup \subseteq T DEF Markup
  <2>2. CASE tok = "pre"
    <3>1. close = "/pre"  BY ONLY <1>1, <2>2 DEF Closes
    <3>2. QED  BY ONLY <2>2, <3>1, Markup \subseteq T DEF Markup
  <2>3. QED  BY ONLY <1>2, <2>1, <2>2 DEF Opens
<1>4. PICK a, b : a = [block |-> "", out |-> o] /\ b = [block |-> tok, out |-> o]
  OBVIOUS
<1>5. a \in A /\ b \in A  BY ONLY <1>1, <1>2, <1>4, o \in Seq(T) DEF Blocks
<1>6. /\ step \in [A \X T -> A] /\ \A x \in A : \A t \in T : step[<<x, t>>] = block_step(x, t)
  BY <1>1, BlockingFacts
<1>7. step[<<a, tok>>] = b
  <2>1. a.block = ""  BY ONLY <1>4
  <2>2. block_step(a, tok) = [a EXCEPT !.block = tok]  BY ONLY <1>2, <2>1 DEF block_step
  <2>3. block_step(a, tok) = b  BY ONLY <1>4, <2>2
  <2>4. QED  BY ONLY <1>3, <1>5, <1>6, <2>3
<1>8. Ends(step, A, inner, b) = b
  <2>1. ASSUME NEW i \in DOMAIN inner  PROVE step[<<b, inner[i]>>] = b
    <3>1. inner[i] \in T  BY <1>2
    <3>2. b.block = tok  BY ONLY <1>4
    <3>3. block_step(b, inner[i]) = b
      BY ONLY <1>1, <1>2, <1>3, <3>2, i \in DOMAIN inner DEF block_step
    <3>4. QED  BY ONLY <1>5, <1>6, <3>1, <3>3
  <2>2. QED  BY <1>2, <1>5, <1>6, <2>1, EndsStays, Zenon
<1>9. step[<<b, close>>] = a
  <2>1. b.block = tok  BY ONLY <1>4
  <2>2. block_step(b, close) = [b EXCEPT !.block = ""]  BY ONLY <1>1, <1>3, <2>1 DEF block_step
  <2>3. block_step(b, close) = a  BY ONLY <1>4, <2>2
  <2>4. QED  BY ONLY <1>3, <1>5, <1>6, <2>3
<1>10. PICK all : all = <<tok>> \o inner \o <<close>>
  OBVIOUS
<1>11. IsEnd(step, A, all, a, a)
  <2>1. Leads(step, a, tok, b) /\ IsEnd(step, A, inner, b, b) /\ Leads(step, b, close, a)
    BY ONLY <1>7, <1>8, <1>9 DEF Leads, IsEnd
  <2>2. Wraps(tok, inner, close, all)  BY ONLY <1>10 DEF Wraps
  <2>3. QED  BY <1>2, <1>3, <1>5, <1>6, <2>1, <2>2, EndsThree, Zenon
<1>15. all \in Seq(T)
  <2>1. PICK u, w : u = <<tok>> /\ w = <<close>>
    OBVIOUS
  <2>0. tok \in T /\ close \in T /\ inner \in Seq(T)  BY <1>2, <1>3
  <2>2. u \in Seq(T) /\ w \in Seq(T) /\ inner \in Seq(T)  BY ONLY <2>0, <2>1
  <2>3. all = u \o inner \o w  BY ONLY <1>10, <2>1
  <2>4. QED  BY ONLY <2>2, <2>3
<1>12. Spelled(p) = all  BY ONLY <1>1, <1>2, <1>10 DEF Spelled
<1>13. NoBlock(T)[o] = a /\ NoBlock(T)[o \o <<>>] = a
  <2>1. o \o <<>> = o  BY ONLY o \in Seq(T)
  <2>2. NoBlock(T)[o] = a  BY ONLY <1>4, o \in Seq(T) DEF NoBlock
  <2>3. QED  BY ONLY <2>1, <2>2
<1>14. QED  BY ONLY <1>1, <1>11, <1>12, <1>13, <1>15 DEF IsEnd, ShowsMore

\* Whatever stands in its quotes, the second pass leaves nothing of a tag.
LEMMA TagGone ==
  ASSUME NEW T, Markup \subseteq T, NEW p, Tag(T, p), NEW o \in Seq(T)
  PROVE  ShowsMore(Tagging(T), Tags(T), Spelled(p), NoTag(T), o, <<>>)
         /\ Spelled(p) \in Seq(T \ Opens)
<1>1. PICK A, step, inner : A = Tags(T) /\ step = Tagging(T) /\ inner = p.inner
  OBVIOUS
<1>2. PICK n : n = Len(inner)
  OBVIOUS
<1>3. PICK q : Quoted(inner, n, q)  BY ONLY <1>1, <1>2, Tag(T, p) DEF Tag
<1>4. p.kind = "tag" /\ inner \in Seq(T \ Opens)  BY ONLY <1>1, Tag(T, p) DEF Tag
<1>5. n \in Nat /\ inner \in Seq(T) /\ \A i \in 1 .. n : inner[i] \in T
  BY ONLY <1>2, <1>4
<1>6. PICK lt, gt : lt = "<" /\ gt = ">"
  OBVIOUS
<1>7. lt \in T \ Opens /\ gt \in T \ Opens  BY <1>6 DEF Markup, Opens
<1>8. PICK a, h : /\ a = [tag |-> FALSE, quote |-> "", out |-> o]
                  /\ h = [i \in 0 .. n |-> [tag |-> TRUE, quote |-> q[i], out |-> o]]
  OBVIOUS
<1>9. a \in A /\ \A i \in 0 .. n : h[i] \in A /\ h[i] = [tag |-> TRUE, quote |-> q[i], out |-> o]
  BY ONLY <1>1, <1>3, <1>8, o \in Seq(T) DEF Tags, Quoted
<1>10. PICK b : b = h[0] /\ b = h[n] /\ b = [tag |-> TRUE, quote |-> "", out |-> o] /\ b \in A
  <2>1. 0 \in 0 .. n /\ n \in 0 .. n  BY ONLY <1>5
  <2>2. q[0] = "" /\ q[n] = ""  BY ONLY <1>3 DEF Quoted
  <2>3. QED  BY ONLY <1>9, <2>1, <2>2
<1>11. /\ step \in [A \X T -> A] /\ \A x \in A : \A t \in T : step[<<x, t>>] = tag_step(x, t)
  BY <1>1, TaggingFacts
<1>12. step[<<a, lt>>] = b
  <2>1. a.tag = FALSE  BY ONLY <1>8
  <2>2. tag_step(a, lt) = [a EXCEPT !.tag = TRUE]  BY ONLY <1>6, <2>1 DEF tag_step
  <2>3. tag_step(a, lt) = b  BY ONLY <1>8, <1>10, <2>2
  <2>4. QED  BY ONLY <1>7, <1>9, <1>11, <2>3
<1>13. Ends(step, A, inner, b) = b
  <2>1. PICK end : end = Ends(step, A, inner, b)
    OBVIOUS
  <2>2. PICK k : Passes(step, inner, n, b, k, end)
    BY <1>2, <1>5, <1>10, <1>11, <2>1, ThroughAgain, Zenon
  <2>3. k[0] = h[0]  BY ONLY <1>10, <2>2 DEF Passes
  <2>4. ASSUME NEW i \in 1 .. n, k[i - 1] = h[i - 1]  PROVE k[i] = h[i]
    <3>1. i \in 0 .. n /\ i - 1 \in 0 .. n  BY ONLY <1>5, i \in 1 .. n
    <3>2. k[i] = step[<<h[i - 1], inner[i]>>]  BY ONLY <2>2, <2>4, i \in 1 .. n DEF Passes
    <3>3. k[i] = tag_step(h[i - 1], inner[i])  BY ONLY <1>5, <1>9, <1>11, <3>1, <3>2, i \in 1 .. n
    <3>4. PICK x, t, r, v : x = h[i - 1] /\ t = inner[i] /\ r = q[i - 1] /\ v = q[i]
      OBVIOUS
    <3>5. /\ x = [tag |-> TRUE, quote |-> r, out |-> o] /\ h[i] = [tag |-> TRUE, quote |-> v, out |-> o]
          /\ r \in {""} \cup Quotes
          /\ IF r # "" THEN v = IF t = r THEN "" ELSE r
             ELSE t # ">" /\ v = IF t \in Quotes THEN t ELSE ""
      BY ONLY <1>3, <1>9, <3>1, <3>4, i \in 1 .. n DEF Quoted
    <3>6. x.tag = TRUE /\ x.quote = r  BY ONLY <3>5
    <3>7. tag_step(x, t) = [tag |-> TRUE, quote |-> v, out |-> o]
      <4>1. CASE r # "" /\ t = r
        <5>1. tag_step(x, t) = [x EXCEPT !.quote = ""]  BY ONLY <3>6, <4>1 DEF tag_step
        <5>2. QED  BY ONLY <3>5, <4>1, <5>1
      <4>2. CASE r # "" /\ t # r
        <5>1. tag_step(x, t) = x  BY ONLY <3>6, <4>2 DEF tag_step
        <5>2. QED  BY ONLY <3>5, <4>2, <5>1
      <4>3. CASE r = "" /\ t \in Quotes
        <5>1. tag_step(x, t) = [x EXCEPT !.quote = t]  BY ONLY <3>5, <3>6, <4>3 DEF tag_step
        <5>2. QED  BY ONLY <3>5, <4>3, <5>1
      <4>4. CASE r = "" /\ t \notin Quotes
        <5>1. tag_step(x, t) = x  BY ONLY <3>5, <3>6, <4>4 DEF tag_step
        <5>2. QED  BY ONLY <3>5, <4>4, <5>1
      <4>5. QED  BY ONLY <4>1, <4>2, <4>3, <4>4
    <3>8. QED  BY ONLY <3>3, <3>4, <3>5, <3>7
  <2>5. k[n] = h[n]  BY ONLY <1>5, <2>3, <2>4, RunsMeet, Zenon
  <2>6. QED  BY ONLY <1>10, <2>1, <2>2, <2>5 DEF Passes
<1>14. step[<<b, gt>>] = a
  <2>0. b = [tag |-> TRUE, quote |-> "", out |-> o]  BY <1>10
  <2>1. b.tag = TRUE /\ b.quote = ""  BY ONLY <2>0
  <2>2. tag_step(b, gt) = [b EXCEPT !.tag = FALSE]  BY ONLY <1>6, <2>1 DEF tag_step, Quotes
  <2>3. [b EXCEPT !.tag = FALSE] = [tag |-> FALSE, quote |-> "", out |-> o]
    <3>1. PICK yes, no, none : yes = TRUE /\ no = FALSE /\ none = ""
      OBVIOUS
    <3>2. b = [tag |-> yes, quote |-> none, out |-> o]  BY ONLY <2>0, <3>1, Zenon
    <3>3. [b EXCEPT !.tag = no] = [tag |-> no, quote |-> none, out |-> o]  BY ONLY <3>2
    <3>4. QED  BY ONLY <3>1, <3>3, Zenon
  <2>5. tag_step(b, gt) = a  BY ONLY <1>8, <2>2, <2>3, Zenon
  <2>6. QED  BY ONLY <1>7, <1>10, <1>11, <2>5
<1>15. PICK all : all = <<lt>> \o inner \o <<gt>>
  OBVIOUS
<1>16. IsEnd(step, A, all, a, a)
  <2>1. Leads(step, a, lt, b) /\ IsEnd(step, A, inner, b, b) /\ Leads(step, b, gt, a)
    BY ONLY <1>12, <1>13, <1>14 DEF Leads, IsEnd
  <2>2. Wraps(lt, inner, gt, all)  BY ONLY <1>15 DEF Wraps
  <2>3. lt \in T /\ gt \in T  BY <1>7
  <2>4. QED  BY <1>5, <1>9, <1>10, <1>11, <2>1, <2>2, <2>3, EndsThree, Zenon
<1>17. Spelled(p) = all  BY ONLY <1>1, <1>4, <1>6, <1>15 DEF Spelled
<1>18. all \in Seq(T \ Opens)
  <2>1. PICK R : R = T \ Opens
    OBVIOUS
  <2>2. lt \in R /\ gt \in R /\ inner \in Seq(R)  BY ONLY <1>4, <1>7, <2>1
  <2>3. all \in Seq(R)  BY ONLY <1>15, <2>2
  <2>4. QED  BY ONLY <2>1, <2>3
<1>19. NoTag(T)[o] = a /\ NoTag(T)[o \o <<>>] = a
  <2>1. o \o <<>> = o  BY ONLY o \in Seq(T)
  <2>2. NoTag(T)[o] = a  BY ONLY <1>8, o \in Seq(T) DEF NoTag
  <2>3. QED  BY ONLY <2>1, <2>2
<1>20. QED  BY ONLY <1>1, <1>16, <1>17, <1>18, <1>19 DEF IsEnd, ShowsMore

Seen(T, p) ==
  /\ Spelled(p) \in Seq(T) /\ Unblocked(p) \in Seq(T) /\ Shows(p) \in Seq(T)
  /\ \A o \in Seq(T) : ShowsMore(Blocking(T), Blocks(T), Spelled(p), NoBlock(T), o, Unblocked(p))
  /\ \A o \in Seq(T) : ShowsMore(Tagging(T), Tags(T), Unblocked(p), NoTag(T), o, Shows(p))

\* The two passes over a piece, in any document, keep what a reader sees of it.
LEMMA PieceSeen ==
  ASSUME NEW T, Markup \subseteq T, NEW p, Piece(T, p)
  PROVE  Seen(T, p)
<1>1. <<>> \in Seq(T)
  OBVIOUS
<1>2. CASE Text(T, p)
  <2>1. PICK tok, R, one : tok = p.tok /\ R = T \ Opens /\ one = <<tok>>
    OBVIOUS
  <2>2. p.kind = "text" /\ tok \in R /\ tok \in T /\ tok # "<"  BY ONLY <1>2, <2>1 DEF Text
  <2>3. one \in Seq(R) /\ one \in Seq(T)  BY ONLY <2>1, <2>2
  <2>4. Spelled(p) = one /\ Unblocked(p) = one /\ Shows(p) = one
    BY ONLY <2>1, <2>2 DEF Spelled, Unblocked, Shows
  <2>5. ASSUME NEW o \in Seq(T)
        PROVE  ShowsMore(Blocking(T), Blocks(T), one, NoBlock(T), o, one)
    <3>1. one \in Seq(T \ Opens)  BY ONLY <2>1, <2>3
    <3>2. QED  BY <3>1, PlainKept, Zenon
  <2>6. ASSUME NEW o \in Seq(T)
        PROVE  ShowsMore(Tagging(T), Tags(T), one, NoTag(T), o, one)
    <3>1. PICK A, step, state : A = Tags(T) /\ step = Tagging(T) /\ state = NoTag(T)
      OBVIOUS
    <3>2. step \in [A \X T -> A] /\ state \in [Seq(T) -> A]
      BY <3>1, TaggingFacts
    <3>3. ASSUME NEW x \in Seq(T)  PROVE step[<<state[x], tok>>] = state[Append(x, tok)]
      <4>1. PICK y : y = Append(x, tok)
        OBVIOUS
      <4>2. y \in Seq(T)  BY ONLY <2>2, <4>1, x \in Seq(T)
      <4>3. state[x] = [tag |-> FALSE, quote |-> "", out |-> x]  BY ONLY <3>1, x \in Seq(T) DEF NoTag
      <4>4. state[y] = [tag |-> FALSE, quote |-> "", out |-> y]  BY ONLY <3>1, <4>2 DEF NoTag
      <4>5. PICK s : s = state[x]
        OBVIOUS
      <4>6. s = [tag |-> FALSE, quote |-> "", out |-> x]  BY ONLY <4>3, <4>5, Zenon
      <4>7. s.tag = FALSE /\ s.out = x  BY ONLY <4>6
      <4>8. tag_step(s, tok) = [s EXCEPT !.out = Append(s.out, tok)]
        BY ONLY <2>2, <4>7 DEF tag_step
      <4>9. Append(s.out, tok) = y  BY ONLY <4>1, <4>7
      <4>10. tag_step(s, tok) = [s EXCEPT !.out = y]  BY ONLY <4>8, <4>9
      <4>11. [s EXCEPT !.out = y] = [tag |-> FALSE, quote |-> "", out |-> y]
        <5>1. PICK no, none : no = FALSE /\ none = ""
          OBVIOUS
        <5>2. s = [tag |-> no, quote |-> none, out |-> x]  BY ONLY <4>6, <5>1, Zenon
        <5>3. [s EXCEPT !.out = y] = [tag |-> no, quote |-> none, out |-> y]  BY ONLY <5>2
        <5>4. QED  BY ONLY <5>1, <5>3, Zenon
      <4>12. tag_step(s, tok) = state[y]  BY ONLY <4>4, <4>10, <4>11, Zenon
      <4>13. s \in A  BY <3>2, <4>5
      <4>14. step[<<s, tok>>] = tag_step(s, tok)  BY <2>2, <3>1, <4>13, TaggingFacts
      <4>15. QED  BY ONLY <4>1, <4>5, <4>12, <4>14
    <3>4. \A i \in DOMAIN one : \A x \in Seq(T) : step[<<state[x], one[i]>>] = state[Append(x, one[i])]
      <4>1. \A i \in DOMAIN one : one[i] = tok  BY ONLY <2>1
      <4>2. QED  BY ONLY <3>3, <4>1
    <3>5. ShowsMore(step, A, one, state, o, one)
      BY <2>3, <3>2, <3>4, EndsKept, Zenon
    <3>6. QED  BY ONLY <3>1, <3>5
  <2>7. QED  BY ONLY <2>3, <2>4, <2>5, <2>6 DEF Seen
<1>3. CASE Tag(T, p)
  <2>1. p.kind = "tag"  BY ONLY <1>3 DEF Tag
  <2>2. PICK list : list = Spelled(p)
    OBVIOUS
  <2>3. /\ \A o \in Seq(T) : ShowsMore(Tagging(T), Tags(T), list, NoTag(T), o, <<>>)
        /\ list \in Seq(T \ Opens)
    <3>1. <<>> \in Seq(T)
      OBVIOUS
    <3>2. QED  BY <1>3, <2>2, <3>1, TagGone, Zenon
  <2>4. list \in Seq(T)  BY ONLY <2>3
  <2>5. Unblocked(p) = list /\ Shows(p) = <<>>  BY ONLY <2>1, <2>2 DEF Unblocked, Shows
  <2>6. \A o \in Seq(T) : ShowsMore(Blocking(T), Blocks(T), list, NoBlock(T), o, list)
    BY <2>3, PlainKept, Zenon
  <2>7. QED  BY ONLY <1>1, <2>2, <2>3, <2>4, <2>5, <2>6 DEF Seen
<1>4. CASE Block(T, p)
  <2>1. p.kind = "block"  BY ONLY <1>4 DEF Block
  <2>2. Unblocked(p) = <<>> /\ Shows(p) = <<>>  BY ONLY <2>1 DEF Unblocked, Shows
  <2>3. /\ \A o \in Seq(T) : ShowsMore(Blocking(T), Blocks(T), Spelled(p), NoBlock(T), o, <<>>)
        /\ Spelled(p) \in Seq(T)
    BY <1>1, <1>4, BlockGone, Zenon
  <2>4. ASSUME NEW o \in Seq(T)
        PROVE  ShowsMore(Tagging(T), Tags(T), <<>>, NoTag(T), o, <<>>)
    <3>1. PICK A, step, a : A = Tags(T) /\ step = Tagging(T) /\ a = NoTag(T)[o]
      OBVIOUS
    <3>2. step \in [A \X T -> A] /\ a \in A  BY <3>1, TaggingFacts
    <3>3. Ends(step, A, <<>>, a) = a  BY <3>2, EndsNone, Zenon
    <3>4. o \o <<>> = o  BY ONLY o \in Seq(T)
    <3>5. QED  BY ONLY <3>1, <3>3, <3>4 DEF ShowsMore
  <2>5. QED  BY ONLY <1>1, <2>2, <2>3, <2>4 DEF Seen
<1>5. QED  BY <1>2, <1>3, <1>4 DEF Piece

\* However a page is put together from texts, tags and blocks, whatever its
\* attributes and scripts mention: a reader sees its texts, and it is a wall when
\* they say so (WallIsShown).
THEOREM WallAlwaysTold ==
  ASSUME NEW T, Markup \subseteq T, NEW P, \A p \in P : Piece(T, p), NEW pieces \in Seq(P)
  PROVE  /\ visible_text(Document(pieces)) = Shown(pieces)
         /\ WallIsShown(pieces)
<1>1. PICK N : N = Len(pieces)
  OBVIOUS
<1>2. N \in Nat /\ DOMAIN pieces = 1 .. N /\ \A i \in 1 .. N : pieces[i] \in P
  BY ONLY <1>1, pieces \in Seq(P)
<1>3. \A i \in 1 .. N : Seen(T, pieces[i])
  BY <1>2, PieceSeen, Zenon
<1>4. PICK parts, kept, shows :
        /\ parts = [i \in 1 .. N |-> Spelled(pieces[i])]
        /\ kept  = [i \in 1 .. N |-> Unblocked(pieces[i])]
        /\ shows = [i \in 1 .. N |-> Shows(pieces[i])]
  OBVIOUS
<1>5. PICK S : S = Seq(T)
  OBVIOUS
<1>6. /\ parts \in Seq(S) /\ kept \in Seq(S) /\ shows \in Seq(S)
      /\ N = Len(parts) /\ N = Len(kept) /\ N = Len(shows)
  <2>1. \A i \in 1 .. N : Spelled(pieces[i]) \in S /\ Unblocked(pieces[i]) \in S /\ Shows(pieces[i]) \in S
    BY ONLY <1>3, <1>5 DEF Seen
  <2>2. QED  BY ONLY <1>2, <1>4, <2>1
<1>7. parts \in Seq(Seq(T)) /\ kept \in Seq(Seq(T)) /\ shows \in Seq(Seq(T))
  BY ONLY <1>5, <1>6
<1>8. /\ \A i \in 1 .. N : \A o \in Seq(T) :
           ShowsMore(Blocking(T), Blocks(T), parts[i], NoBlock(T), o, kept[i])
      /\ \A i \in 1 .. N : \A o \in Seq(T) :
           ShowsMore(Tagging(T), Tags(T), kept[i], NoTag(T), o, shows[i])
  BY ONLY <1>3, <1>4 DEF Seen
<1>9. ShowsParts(Blocking(T), Blocks(T), parts, kept, NoBlock(T))
  BY <1>6, <1>7, <1>8, BlockingFacts, EndsShown, Zenon
<1>10. ShowsParts(Tagging(T), Tags(T), kept, shows, NoTag(T))
  BY <1>6, <1>7, <1>8, TaggingFacts, EndsShown, Zenon
<1>11. FlattenSeq(parts) \in Seq(T) /\ FlattenSeq(kept) \in Seq(T) /\ FlattenSeq(shows) \in Seq(T)
  <2>1. ASSUME NEW lists \in Seq(Seq(T)), N = Len(lists)  PROVE FlattenSeq(lists) \in Seq(T)
    <3>1. PICK c : Builds(T, lists, N, c)  BY <2>1, FlattenBuilds, Zenon
    <3>2. QED  BY ONLY <1>2, <3>1 DEF Builds
  <2>2. QED  BY ONLY <1>6, <1>7, <2>1
<1>12. PICK doc, rest, text : doc = FlattenSeq(parts) /\ rest = FlattenSeq(kept) /\ text = FlattenSeq(shows)
  OBVIOUS
<1>13. doc \in Seq(T) /\ rest \in Seq(T) /\ text \in Seq(T)  BY ONLY <1>11, <1>12
<1>14. strip_html_blocks(doc) = rest
  <2>1. strip_html_blocks(doc) = Ends(Blocking(T), Blocks(T), doc, NoBlock(T)[<<>>]).out
    BY <1>13, BlocksEnd, Zenon
  <2>2. Ends(Blocking(T), Blocks(T), doc, NoBlock(T)[<<>>]) = NoBlock(T)[rest]
    BY ONLY <1>9, <1>12 DEF ShowsParts
  <2>3. NoBlock(T)[rest].out = rest  BY ONLY <1>13 DEF NoBlock
  <2>4. QED  BY ONLY <2>1, <2>2, <2>3
<1>15. strip_tags(rest) = text
  <2>1. strip_tags(rest) = Ends(Tagging(T), Tags(T), rest, NoTag(T)[<<>>]).out
    BY <1>13, TagsEnd, Zenon
  <2>2. Ends(Tagging(T), Tags(T), rest, NoTag(T)[<<>>]) = NoTag(T)[text]
    BY ONLY <1>10, <1>12 DEF ShowsParts
  <2>3. NoTag(T)[text].out = text  BY ONLY <1>13 DEF NoTag
  <2>4. QED  BY ONLY <2>1, <2>2, <2>3
<1>16. Document(pieces) = doc /\ Shown(pieces) = text
  BY ONLY <1>2, <1>4, <1>12 DEF Document, Shown
<1>17. visible_text(doc) = text  BY ONLY <1>14, <1>15 DEF visible_text
<1>18. is_botwall(200, TRUE, doc) <=>
         \/ Has(text, "phrase")
         \/ Len(text) <= StructuralMax /\ Has(doc, "asset")
  BY ONLY <1>17 DEF is_botwall
<1>19. QED  BY ONLY <1>16, <1>17, <1>18 DEF WallIsShown

---------------------------------------------------------------------------
(* The documents and downloads that TLC judges are of these kinds.         *)

InQuotes(inner, n, quote) ==
  /\ n = Len(inner) /\ n >= 2 /\ inner[1] = quote /\ inner[n] = quote
  /\ \A i \in 2 .. n - 1 : inner[i] # quote

\* A quoted attribute may hold anything but its own quote.
LEMMA QuotedTag ==
  ASSUME NEW T, NEW p, p.kind = "tag", NEW inner, inner = p.inner, inner \in Seq(T \ Opens),
         NEW n, NEW quote \in Quotes, InQuotes(inner, n, quote)
  PROVE  Tag(T, p)
<1>1. PICK none : none = ""
  OBVIOUS
<1>2. n \in Nat /\ n >= 2  BY ONLY InQuotes(inner, n, quote), inner \in Seq(T \ Opens) DEF InQuotes
<1>3. quote # none /\ quote # ">" /\ none \notin Quotes  BY <1>1 DEF Quotes
<1>4. inner[1] = quote /\ inner[n] = quote /\ \A i \in 2 .. n - 1 : inner[i] # quote /\ n = Len(inner)
  BY ONLY InQuotes(inner, n, quote) DEF InQuotes
<1>5. PICK q : q = [i \in 0 .. n |-> IF i = 0 \/ i = n THEN none ELSE quote]
  OBVIOUS
<1>6. q[0] = none /\ q[n] = none /\ \A i \in 1 .. n - 1 : q[i] = quote
  BY ONLY <1>2, <1>5
<1>7. ASSUME NEW i \in 1 .. n
      PROVE  IF q[i - 1] # none THEN q[i] = IF inner[i] = q[i - 1] THEN none ELSE q[i - 1]
             ELSE inner[i] # ">" /\ q[i] = IF inner[i] \in Quotes THEN inner[i] ELSE none
  <2>1. CASE i = 1
    <3>1. i - 1 = 0 /\ i \in 1 .. n - 1  BY ONLY <1>2, <2>1
    <3>2. q[i - 1] = none /\ q[i] = quote /\ inner[i] = quote  BY ONLY <1>4, <1>6, <2>1, <3>1
    <3>3. QED  BY ONLY <1>3, <3>2, quote \in Quotes
  <2>2. CASE i = n
    <3>1. i - 1 \in 1 .. n - 1  BY ONLY <1>2, <2>2
    <3>2. q[i - 1] = quote /\ q[i] = none /\ inner[i] = quote  BY ONLY <1>4, <1>6, <2>2, <3>1
    <3>3. QED  BY ONLY <1>3, <3>2
  <2>3. CASE i # 1 /\ i # n
    <3>1. i - 1 \in 1 .. n - 1 /\ i \in 1 .. n - 1 /\ i \in 2 .. n - 1
      BY ONLY <1>2, <2>3, i \in 1 .. n
    <3>2. q[i - 1] = quote /\ q[i] = quote /\ inner[i] # quote  BY ONLY <1>4, <1>6, <3>1
    <3>3. QED  BY ONLY <1>3, <3>2
  <2>4. QED  BY ONLY <2>1, <2>2, <2>3
<1>8. q \in [0 .. n -> {none} \cup Quotes]  BY ONLY <1>5, quote \in Quotes
<1>9. Quoted(inner, n, q)  BY ONLY <1>1, <1>6, <1>7, <1>8 DEF Quoted
<1>10. \E held : Quoted(inner, n, held)  BY ONLY <1>9
<1>11. n = Len(inner)  BY ONLY InQuotes(inner, n, quote) DEF InQuotes
<1>12. \E held : Quoted(p.inner, Len(p.inner), held)  BY ONLY <1>10, <1>11, inner = p.inner, Zenon
<1>13. QED  BY ONLY <1>12, p.kind = "tag", inner = p.inner, inner \in Seq(T \ Opens) DEF Tag

\* So may one without quotes hold a token that is none of its ends.
LEMMA PlainTag ==
  ASSUME NEW T, NEW p, p.kind = "tag", NEW inner, inner = p.inner, inner \in Seq(T \ Opens),
         NEW n, n = Len(inner), \A i \in DOMAIN inner : inner[i] \notin Quotes \cup {">"}
  PROVE  Tag(T, p)
<1>1. PICK none : none = ""
  OBVIOUS
<1>2. n \in Nat /\ DOMAIN inner = 1 .. n  BY ONLY n = Len(inner), inner \in Seq(T \ Opens)
<1>3. \A i \in 1 .. n : inner[i] \notin Quotes /\ inner[i] # ">"  BY <1>1, <1>2
<1>4. PICK q : q = [i \in 0 .. n |-> none]
  OBVIOUS
<1>5. \A i \in 0 .. n : q[i] = none  BY ONLY <1>4
<1>6. \A i \in 1 .. n : i \in 0 .. n /\ i - 1 \in 0 .. n  BY ONLY <1>2
<1>7. 0 \in 0 .. n /\ n \in 0 .. n  BY ONLY <1>2
<1>8. q \in [0 .. n -> {none} \cup Quotes]  BY ONLY <1>4
<1>9. Quoted(inner, n, q)  BY ONLY <1>1, <1>3, <1>5, <1>6, <1>7, <1>8 DEF Quoted
<1>10. QED  BY <1>1, <1>9 DEF Tag

Tokens == Markup \cup {"word", "phrase", "asset"}

\* The pieces of the samples are pieces.
LEMMA SampledPieces == \A p \in WellFormed : Piece(Tokens, p)
<1> SUFFICES ASSUME NEW p \in WellFormed  PROVE Piece(Tokens, p)
  OBVIOUS
<1>1. PICK T : T = Tokens
  OBVIOUS
<1>2. /\ "word" \in T /\ "phrase" \in T /\ "asset" \in T /\ "<" \in T /\ ">" \in T /\ "dq" \in T
      /\ "sq" \in T /\ "script" \in T /\ "pre" \in T /\ "/script" \in T /\ "/pre" \in T
  BY <1>1 DEF Tokens, Markup
<1>3. p \in Pieces  BY DEF WellFormed
<1>4. CASE p.kind = "text"
  <2>1. p.tok \in {"word", "phrase", "asset"}  BY <1>3, <1>4 DEF Pieces
  <2>2. QED  BY <1>1, <1>2, <1>4, <2>1 DEF Piece, Text, Opens
<1>5. CASE p.kind = "tag"
  <2>1. p.inner \in {<<>>, <<"dq", ">", "dq">>, <<"sq", "dq", ">", "sq">>, <<"dq", "phrase", "dq">>, <<"asset">>}
    BY <1>3, <1>5 DEF Pieces
  <2>2. PICK dq, sq, gt, ph, cf, R :
          /\ dq = "dq" /\ sq = "sq" /\ gt = ">" /\ ph = "phrase" /\ cf = "asset" /\ R = T \ Opens
    OBVIOUS
  <2>3. dq \in R /\ sq \in R /\ gt \in R /\ ph \in R /\ cf \in R  BY <1>2, <2>2 DEF Opens
  <2>4. dq # sq /\ dq # gt /\ dq # ph /\ gt # sq /\ dq \in Quotes /\ sq \in Quotes
        /\ cf \notin Quotes /\ cf # ">"
    BY <2>2 DEF Quotes
  <2>5. PICK inner : inner = p.inner
    OBVIOUS
  <2>6. CASE inner = <<>>
    <3>1. inner \in Seq(R) /\ 0 = Len(inner)  BY ONLY <2>6
    <3>2. DOMAIN inner = {}  BY ONLY <2>6
    <3>3. inner \in Seq(T \ Opens) /\ \A i \in DOMAIN inner : inner[i] \notin Quotes \cup {">"}
      BY ONLY <2>2, <3>1, <3>2
    <3>5. Tag(T, p)  BY <1>5, <2>5, <3>1, <3>3, PlainTag, Zenon
    <3>4. QED  BY <1>1, <3>5 DEF Piece
  <2>7. CASE inner = <<cf>>
    <3>1. inner \in Seq(R) /\ 1 = Len(inner) /\ inner[1] = cf  BY ONLY <2>3, <2>7
    <3>2. \A i \in DOMAIN inner : inner[i] = cf  BY ONLY <3>1
    <3>3. inner \in Seq(T \ Opens) /\ \A i \in DOMAIN inner : inner[i] \notin Quotes \cup {">"}
      BY ONLY <2>2, <2>4, <3>1, <3>2
    <3>4. Tag(T, p)  BY <1>5, <2>5, <3>1, <3>3, PlainTag, Zenon
    <3>5. QED  BY <1>1, <3>4 DEF Piece
  <2>8. ASSUME NEW mid, mid \in R, mid # dq, inner = <<dq, mid, dq>>  PROVE Tag(T, p)
    <3>1. inner \in Seq(R) /\ 3 = Len(inner)  BY ONLY <2>3, <2>8
    <3>2. inner[1] = dq /\ inner[3] = dq /\ \A i \in 2 .. 3 - 1 : inner[i] # dq  BY ONLY <2>8
    <3>3. PICK n : n = 3
      OBVIOUS
    <3>4. InQuotes(inner, n, dq)  BY ONLY <3>1, <3>2, <3>3 DEF InQuotes
    <3>5. inner \in Seq(T \ Opens)  BY <2>2, <3>1
    <3>6. QED  BY <1>5, <2>4, <2>5, <3>4, <3>5, QuotedTag, Zenon
  <2>9. ASSUME inner = <<sq, dq, gt, sq>>  PROVE Tag(T, p)
    <3>1. inner \in Seq(R) /\ 4 = Len(inner)  BY ONLY <2>3, <2>9
    <3>2. inner[1] = sq /\ inner[4] = sq /\ \A i \in 2 .. 4 - 1 : inner[i] # sq  BY ONLY <2>4, <2>9
    <3>3. PICK n : n = 4
      OBVIOUS
    <3>4. InQuotes(inner, n, sq)  BY ONLY <3>1, <3>2, <3>3 DEF InQuotes
    <3>5. inner \in Seq(T \ Opens)  BY <2>2, <3>1
    <3>6. QED  BY <1>5, <2>4, <2>5, <3>4, <3>5, QuotedTag, Zenon
  <2>10. CASE inner = <<dq, gt, dq>>  BY <1>1, <2>3, <2>4, <2>8, <2>10 DEF Piece
  <2>11. CASE inner = <<dq, ph, dq>>  BY <1>1, <2>3, <2>4, <2>8, <2>11 DEF Piece
  <2>12. CASE inner = <<sq, dq, gt, sq>>  BY <1>1, <2>9, <2>12 DEF Piece
  <2>13. inner = <<>> \/ inner = <<dq, gt, dq>> \/ inner = <<sq, dq, gt, sq>>
         \/ inner = <<dq, ph, dq>> \/ inner = <<cf>>
    BY ONLY <2>1, <2>2, <2>5
  <2>14. QED  BY <2>6, <2>7, <2>10, <2>11, <2>12, <2>13
<1>6. CASE p.kind = "block"
  <2>1. /\ p.tok \in Opens /\ p.inner # <<Closes[p.tok]>>
        /\ p.inner \in {<<>>, <<"phrase">>, <<"asset">>, <<"<">>, <<"dq">>, <<"/pre">>, <<"/script">>, <<"script">>}
    BY <1>3, <1>6 DEF Pieces, WellFormed
  <2>2. PICK inner, close : inner = p.inner /\ close = Closes[p.tok]
    OBVIOUS
  <2>3. inner = <<>> \/ \E x \in T : inner = <<x>>
    BY <1>2, <2>1, <2>2
  <2>4. inner # <<close>>  BY ONLY <2>1, <2>2
  <2>5. inner \in Seq(T) /\ \A i \in DOMAIN inner : inner[i] # close
    <3>1. CASE inner = <<>>  BY ONLY <3>1
    <3>2. ASSUME NEW x \in T, inner = <<x>>
          PROVE  inner \in Seq(T) /\ \A i \in DOMAIN inner : inner[i] # close
      <4>1. x # close  BY ONLY <2>4, <3>2
      <4>2. QED  BY ONLY <3>2, <4>1
    <3>3. QED  BY ONLY <2>3, <3>1, <3>2
  <2>6. Block(T, p)  BY ONLY <1>6, <2>1, <2>2, <2>5 DEF Block
  <2>7. QED  BY <1>1, <2>6 DEF Piece
<1>7. p.kind \in {"text", "tag", "block"}  BY <1>3 DEF Pieces
<1>8. QED  BY <1>4, <1>5, <1>6, <1>7

Mimes == {"", "text", "binary"}

\* The redirect chains of the samples are chains.
LEMMA SampledChains ==
  \A chain \in Chains(HopKinds) : Chain(Mimes, chain, Len(chain))
<1>1. HopKinds \subseteq HopsOf(Mimes)
  <2> SUFFICES ASSUME NEW hop \in HopKinds  PROVE hop \in HopsOf(Mimes)
    OBVIOUS
  <2>1. PICK N, C, S : N = Nat /\ C = {<<>>, <<1>>, <<2>>, <<1, 2>>} /\ S = Seq(N)
    OBVIOUS
  <2>2. <<>> \in S /\ <<1>> \in S /\ <<2>> \in S /\ <<1, 2>> \in S
    BY ONLY <2>1
  <2>3. C \subseteq S  BY ONLY <2>1, <2>2
  <2>4. {100, 200, 302} \subseteq N /\ {0, 3} \subseteq N  BY ONLY <2>1
  <2>5. hop \in [status : {100, 200, 302}, mime : Mimes, length : {0, 3}, loc : BOOLEAN, chunks : C]
    BY <2>1 DEF HopKinds, Mimes
  <2>6. hop \in [status : N, mime : Mimes, length : N, loc : BOOLEAN, chunks : S]
    BY ONLY <2>3, <2>4, <2>5
  <2>7. QED  BY ONLY <2>1, <2>6 DEF HopsOf
<1>2. \A hop \in Hops(HopKinds) : hop \in HopsOf(Mimes) /\ Continues(hop)
  <2> SUFFICES ASSUME NEW hop \in Hops(HopKinds)
               PROVE  hop \in HopsOf(Mimes) /\ Continues(hop)
    OBVIOUS
  <2>1. hop \in HopKinds /\ (hop.status < 200 \/ (hop.status \in Redirects /\ hop.loc))
    BY DEF Hops
  <2>2. hop.status \in {100, 200, 302} /\ (hop.status = 100 => hop.chunks = <<>>)
    BY <2>1 DEF HopKinds
  <2>3. hop.status < 200 => hop.status = 100  BY ONLY <2>2
  <2>4. QED  BY ONLY <1>1, <2>1, <2>2, <2>3 DEF Continues
<1>3. \A hop \in HopKinds \ Hops(HopKinds) : hop \in HopsOf(Mimes) /\ Final(hop)
  <2> SUFFICES ASSUME NEW hop \in HopKinds \ Hops(HopKinds)
               PROVE  hop \in HopsOf(Mimes) /\ Final(hop)
    OBVIOUS
  <2>1. ~ (hop.status < 200) /\ ~ (hop.status \in Redirects /\ hop.loc)
    BY DEF Hops
  <2>2. hop \in HopsOf(Mimes)  BY <1>1
  <2>3. hop.status \in Nat  BY ONLY <2>2 DEF HopsOf
  <2>4. hop.status >= 200  BY ONLY <2>1, <2>3
  <2>5. QED  BY ONLY <2>1, <2>2, <2>4 DEF Final
<1>4. PICK B : B = HopsOf(Mimes)
  OBVIOUS
<1>5. ASSUME NEW last \in HopKinds \ Hops(HopKinds)
      PROVE  Chain(Mimes, <<last>>, Len(<<last>>))
  <2>1. PICK chain : chain = <<last>>
    OBVIOUS
  <2>2. last \in B /\ Final(last)  BY <1>3, <1>4
  <2>3. chain \in Seq(B) /\ Len(chain) = 1 /\ chain[1] = last  BY ONLY <2>1, <2>2
  <2>4. Chain(Mimes, chain, Len(chain))  BY ONLY <1>4, <2>2, <2>3 DEF Chain
  <2>5. QED  BY ONLY <2>1, <2>4
<1>6. ASSUME NEW hop \in Hops(HopKinds), NEW last \in HopKinds \ Hops(HopKinds)
      PROVE  Chain(Mimes, <<hop, last>>, Len(<<hop, last>>))
  <2>1. PICK chain : chain = <<hop, last>>
    OBVIOUS
  <2>2. hop \in B /\ Continues(hop) /\ last \in B /\ Final(last)  BY <1>2, <1>3, <1>4
  <2>3. chain \in Seq(B) /\ Len(chain) = 2 /\ chain[1] = hop /\ chain[2] = last  BY ONLY <2>1, <2>2
  <2>4. Chain(Mimes, chain, Len(chain))  BY ONLY <1>4, <2>2, <2>3 DEF Chain
  <2>5. QED  BY ONLY <2>1, <2>4
<1>7. ASSUME NEW chain \in Hops(HopKinds) \X (HopKinds \ Hops(HopKinds))
      PROVE  Chain(Mimes, chain, Len(chain))
  <2>1. PICK hop \in Hops(HopKinds), last \in HopKinds \ Hops(HopKinds) : chain = <<hop, last>>
    BY <1>7
  <2>2. QED  BY ONLY <1>6, <2>1
<1>8. QED  BY ONLY <1>5, <1>7 DEF Chains

Sampled == sample = NoSample \/ sample \in Samples

\* Only samples are judged.
LEMMA SampledAlways == MCSpec => []Sampled
<1>1. MCInit => Sampled  BY DEF MCInit, Sampled
<1>2. Sampled /\ [MCNext]_<<vars, sample>> => Sampled'
  BY DEF Sampled, MCNext, Judged, NoSample, Samples
<1>3. QED  BY <1>1, <1>2, PTL DEF MCSpec

\* No page of the samples is taken for a wall, or let pass as none, for what its
\* reader does not see.
THEOREM WallsAlwaysTold == MCSpec => []WallsTold
<1>1. ASSUME Sampled  PROVE WallsTold
  <2>1. SUFFICES ASSUME sample.pieces # <<>>  PROVE WallIsShown(sample.pieces)
    BY DEF WallsTold
  <2>2. PICK pieces : pieces = sample.pieces
    OBVIOUS
  <2>3. pieces \in SeqOf(WellFormed, 3)
    BY <1>1, <2>1, <2>2 DEF Sampled, Samples, NoSample
  <2>4. pieces \in Seq(WellFormed)
    <3>1. PICK m \in 0 .. 3 : pieces \in [1 .. m -> WellFormed]  BY ONLY <2>3 DEF SeqOf
    <3>2. m \in Nat
      OBVIOUS
    <3>3. QED  BY ONLY <3>1, <3>2
  <2>5. Markup \subseteq Tokens  BY DEF Tokens
  <2>6. QED  BY <2>2, <2>4, <2>5, SampledPieces, WallAlwaysTold, Zenon
<1>2. QED  BY <1>1, SampledAlways, PTL

\* Nor is a download of the samples refused, kept or given on for anything but what it
\* was, wherever it ends.
THEOREM DownloadsAlwaysExact == MCSpec => []DownloadsExact
<1>1. ASSUME Sampled  PROVE DownloadsExact
  <2>1. SUFFICES ASSUME sample.chain # <<>>  PROVE DownloadExact(sample.chain)
    BY DEF DownloadsExact
  <2>2. PICK chain, n : chain = sample.chain /\ n = Len(chain)
    OBVIOUS
  <2>3. chain \in Chains(HopKinds)
    BY <1>1, <2>1, <2>2 DEF Sampled, Samples, NoSample
  <2>4. Chain(Mimes, chain, n)  BY ONLY <2>2, <2>3, SampledChains
  <2>5. "" \in Mimes  BY DEF Mimes
  <2>6. QED  BY <2>2, <2>4, <2>5, DownloadAlwaysExact, Zenon
<1>2. QED  BY <1>1, SampledAlways, PTL

=============================================================================
