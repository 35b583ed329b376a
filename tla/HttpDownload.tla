---------------------------- MODULE HttpDownload ----------------------------
(***************************************************************************)
(* How the callbacks of the http tier take a download in: header lines of  *)
(* every hop of a redirect chain, then body chunks (crawl/tiers/http.py).  *)
(* A callback that answers _WRITE_ERROR ends the transfer.                 *)
(***************************************************************************)
EXTENDS Integers, Sequences, SequencesExt

CONSTANT MaxBytes           \* CRAWL_HTML_MAX_BYTES
ASSUME MaxBytesAssumption == MaxBytes \in Nat

Redirects == {301, 302, 303, 307, 308}

\* _HtmlDownload.__init__; dead: the callback has ended the transfer
Fresh == [mime |-> "", length |-> 0, loc |-> FALSE, status |-> 0,
          received |-> 0, body |-> 0, error |-> "", dead |-> FALSE]

Redirected(d) == d.status \in Redirects /\ d.loc

Refuse(d, why) == [d EXCEPT !.error = why, !.dead = TRUE]

\* mutant: what the last hop declared is carried over
header_sticky(d, e) ==
  CASE e.kind = "status" -> [d EXCEPT !.status = e.val]
    [] e.kind = "type"   -> [d EXCEPT !.mime = e.val]
    [] e.kind = "length" -> [d EXCEPT !.length = e.val]
    [] e.kind = "loc"    -> [d EXCEPT !.loc = TRUE]

\* header, _record_header: a status line starts over
header(d, e) ==
  CASE e.kind = "status" -> [d EXCEPT !.status = e.val, !.mime = "", !.length = 0, !.loc = FALSE]
    [] e.kind = "type"   -> [d EXCEPT !.mime = e.val]
    [] e.kind = "length" -> [d EXCEPT !.length = e.val]
    [] e.kind = "loc"    -> [d EXCEPT !.loc = TRUE]

\* _finish_headers: only the last hop may be refused for what it declares
finish_headers(d) ==
  IF d.status < 200 \/ Redirected(d) THEN d
  ELSE IF d.mime = "binary" THEN Refuse(d, "type")
  ELSE IF d.length > MaxBytes THEN Refuse(d, "size")
  ELSE d

\* write: nothing is kept past the limit, and nothing of a redirect
write(d, n) ==
  LET got == [d EXCEPT !.received = @ + n]
  IN  IF got.received > MaxBytes THEN Refuse(got, "size")
      ELSE IF Redirected(d) THEN got
      ELSE [got EXCEPT !.body = @ + n]

Take(d, e) ==
  IF d.dead THEN d
  ELSE CASE e.kind = "end"   -> finish_headers(d)
         [] e.kind = "chunk" -> write(d, e.val)
         [] OTHER            -> header(d, e)

Download(events) == FoldLeft(Take, Fresh, events)

\* fetch, _translate_download_error, of a transfer that has delivered these events and
\* is "done", broke off by itself ("network"), or was ended by libcurl for its size
\* ("filesize"): what is refused must not reach a costlier tier
FetchOutcome(events, end) ==
  IF Download(events).error # "" \/ end = "filesize" THEN "rejected"
  ELSE IF end = "done" THEN "rendered" ELSE "error"

-----------------------------------------------------------------------------
(***************************************************************************)
(* A chain of hops, each with what it declares and the chunks it sends.    *)
(***************************************************************************)
Event(kind, val) == [kind |-> kind, val |-> val]

HopEvents(hop) ==
  <<Event("status", hop.status)>>
  \o (IF hop.mime = "" THEN <<>> ELSE <<Event("type", hop.mime)>>)
  \o (IF hop.length = 0 THEN <<>> ELSE <<Event("length", hop.length)>>)
  \o (IF hop.loc THEN <<Event("loc", 0)>> ELSE <<>>)
  \o <<Event("end", 0)>>
  \o [i \in DOMAIN hop.chunks |-> Event("chunk", hop.chunks[i])]

Wire(chain)  == FlattenSeq([i \in DOMAIN chain |-> HopEvents(chain[i])])
Sum(numbers) == FoldLeft(LAMBDA a, n : a + n, 0, numbers)
Sent(hop)    == Sum(hop.chunks)
Hops(kinds)  == {hop \in kinds : hop.status < 200 \/ (hop.status \in Redirects /\ hop.loc)}
Chains(kinds) ==
  {<<last>> : last \in kinds \ Hops(kinds)}
  \cup (Hops(kinds) \X (kinds \ Hops(kinds)))

Total(chain)     == Sum([i \in DOMAIN chain |-> Sent(chain[i])])
Announced(chain) == \E i \in DOMAIN chain : chain[i].length > MaxBytes

\* External: how a transfer may end after n callbacks.  MAXFILESIZE_LARGE makes libcurl
\* end it for decoded bytes, before the callback sees them, or for a length announced,
\* where versions differ on whether that of a redirect counts.
Endings(chain, n) ==
  {end \in {"done", "network", "filesize"} :
     /\ end = "done" => n = Len(Wire(chain))
     /\ end = "filesize" => Announced(chain) \/ Total(chain) > MaxBytes}

\* Wherever a transfer ends: it is refused for the type and the length of the last hop
\* or for the bytes really sent, and for a length an earlier hop announced only when
\* libcurl takes that for the page's; it is an error, which a costlier tier may repair,
\* only when it broke off by itself; a page that is accepted has its own body, whole;
\* and more than the limit is never kept.
DownloadExact(chain) ==
  LET last == chain[Len(chain)]
      fits == last.mime # "binary" /\ last.length <= MaxBytes /\ Total(chain) <= MaxBytes
  IN  \A n \in 0 .. Len(Wire(chain)) : \A end \in Endings(chain, n) :
        LET part    == SubSeq(Wire(chain), 1, n)
            kept    == Download(part).body
            outcome == FetchOutcome(part, end)
        IN  /\ outcome = "rendered" => fits /\ kept = Sent(last)
            /\ outcome = "rejected" => ~ fits \/ (end = "filesize" /\ Announced(chain))
            /\ outcome = "error" => end = "network"
            /\ kept <= MaxBytes

=============================================================================
