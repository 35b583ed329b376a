------------------------------ MODULE Botwall ------------------------------
(***************************************************************************)
(* When is a fetched page a challenge page?  (crawl/botwall.py)            *)
(*                                                                         *)
(* A document is a sequence of tokens: words, phrases of a wall, names of  *)
(* Cloudflare assets, angle brackets, quotes, and the tags that open and   *)
(* close a block whose content is never shown.                             *)
(***************************************************************************)
EXTENDS Integers, Sequences, SequencesExt

CONSTANT StructuralMax      \* _STRUCTURAL_MAX_VISIBLE_CHARS, in tokens

Opens  == {"script", "pre"}                  \* of _BLOCK_TAGS
Closes == [script |-> "/script", pre |-> "/pre"]
Quotes == {"dq", "sq"}

\* the body of the loop: a block runs to the first tag that closes its own kind,
\* and to the end of the document when there is none
block_step(s, t) ==
  IF s.block = ""
  THEN IF t \in Opens THEN [s EXCEPT !.block = t]
                      ELSE [s EXCEPT !.out = Append(@, t)]
  ELSE IF t = Closes[s.block] THEN [s EXCEPT !.block = ""] ELSE s

strip_html_blocks(doc) == FoldLeft(block_step, [block |-> "", out |-> <<>>], doc).out

\* mutant: quotes are not looked at
strip_tags_flat(doc) ==
  LET step(s, t) ==
        CASE ~s.tag /\ t = "<" -> [s EXCEPT !.tag = TRUE]
          [] ~s.tag /\ t # "<" -> [s EXCEPT !.out = Append(@, t)]
          [] s.tag /\ t = ">"  -> [s EXCEPT !.tag = FALSE]
          [] OTHER             -> s
  IN  FoldLeft(step, [tag |-> FALSE, out |-> <<>>], doc).out

\* the body of the loop: a ">" inside a quoted attribute does not end the tag
tag_step(s, t) ==
  CASE ~s.tag /\ t = "<"                      -> [s EXCEPT !.tag = TRUE]
    [] ~s.tag /\ t # "<"                      -> [s EXCEPT !.out = Append(@, t)]
    [] s.tag /\ s.quote # "" /\ t = s.quote   -> [s EXCEPT !.quote = ""]
    [] s.tag /\ s.quote = "" /\ t \in Quotes  -> [s EXCEPT !.quote = t]
    [] s.tag /\ s.quote = "" /\ t = ">"       -> [s EXCEPT !.tag = FALSE]
    [] OTHER                                  -> s

strip_tags(doc) == FoldLeft(tag_step, [tag |-> FALSE, quote |-> "", out |-> <<>>], doc).out

visible_text(doc) == strip_tags(strip_html_blocks(doc))

Has(doc, t) == \E i \in DOMAIN doc : doc[i] = t

\* is_botwall: an error status, a wall's phrase in the visible text, or an
\* asset of a challenge on a page that shows next to nothing.  Only HTML is read.
is_botwall(status, html, doc) ==
  \/ status >= 400
  \/ /\ html
     /\ \/ Has(visible_text(doc), "phrase")
        \/ Len(visible_text(doc)) <= StructuralMax /\ Has(doc, "asset")

-----------------------------------------------------------------------------
(***************************************************************************)
(* What a reader sees of a well-formed page: its pieces are a token of     *)
(* text, a tag with its attributes, or a block with its content.           *)
(***************************************************************************)
Spelled(piece) ==
  CASE piece.kind = "text"  -> <<piece.tok>>
    [] piece.kind = "tag"   -> <<"<">> \o piece.inner \o <<">">>
    [] piece.kind = "block" -> <<piece.tok>> \o piece.inner \o <<Closes[piece.tok]>>

Document(pieces) == FlattenSeq([i \in DOMAIN pieces |-> Spelled(pieces[i])])

Shows(piece)  == IF piece.kind = "text" THEN <<piece.tok>> ELSE <<>>
Shown(pieces) == FlattenSeq([i \in DOMAIN pieces |-> Shows(pieces[i])])

\* A wall is what the reader is shown, never what a script, a sample or an
\* attribute mentions; and a page full of text is no wall for the assets it loads.
WallIsShown(pieces) ==
  LET doc == Document(pieces)
  IN  is_botwall(200, TRUE, doc) <=>
        \/ Has(Shown(pieces), "phrase")
        \/ Len(Shown(pieces)) <= StructuralMax /\ Has(doc, "asset")

=============================================================================
