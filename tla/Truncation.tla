---------------------------- MODULE Truncation ----------------------------
(***************************************************************************)
(* The character budget of a bulk fetch (truncation.py): how many          *)
(* characters each page gets, and where its text is cut.  A text is a      *)
(* sequence of "w" (part of a word), " ", "nl" (a line break), "<" and ">". *)
(***************************************************************************)
EXTENDS Integers, Sequences, FiniteSets, SequencesExt

Blank == {" ", "nl"}

STRATEGIES == {"even", "head", "priority", "smart", "tail"}

Least(a, b)    == IF a < b THEN a ELSE b
Greatest(a, b) == IF a > b THEN a ELSE b
Total(seq)     == FoldLeft(LAMBDA a, b : a + b, 0, seq)

\* _weights_for: parts of a whole
weights_for(strategy, lens, fetches) ==
  IF strategy \in {"head", "tail"} THEN [part |-> lens, whole |-> Total(lens)]
  ELSE IF strategy = "even" \/ \A i \in DOMAIN fetches : fetches[i] <= 0
       THEN [part |-> [i \in DOMAIN lens |-> 1], whole |-> Len(lens)]
       ELSE LET part == [i \in DOMAIN fetches |-> fetches[i] + 1]
            IN  [part |-> part, whole |-> Total(part)]

\* int(budget * weight): the product of floating-point numbers may fall short
\* of a whole number that it should be ("short")
Share(budget, part, whole, short) ==
  (budget * part) \div whole - (IF short /\ (budget * part) % whole = 0 THEN 1 ELSE 0)

\* a budget or a limit of 0 is none
allocate_budgets(strategy, page_lens, fetches, budget, per_page, short) ==
  IF budget = 0 THEN page_lens
  ELSE LET lens == [i \in DOMAIN page_lens |-> Greatest(1, page_lens[i])]
           w    == weights_for(strategy, lens, fetches)
           cap(n) == IF per_page = 0 THEN n ELSE Least(n, per_page)
       IN  [i \in DOMAIN lens |->
              Greatest(0, Least(cap(Share(budget, w.part[i], w.whole, short)), lens[i]))]

Count(text, c) == Cardinality({i \in DOMAIN text : text[i] = c})
LastAt(text, cs) ==   \* rfind of any of cs, from 1; 0 is none
  LET at == {i \in DOMAIN text : text[i] \in cs}
  IN  IF at = {} THEN 0 ELSE CHOOSE i \in at : \A j \in at : i >= j

rstrip(text) ==
  LET solid == {i \in DOMAIN text : text[i] \notin Blank}
  IN  IF solid = {} THEN <<>> ELSE SubSeq(text, 1, CHOOSE i \in solid : \A j \in solid : i >= j)
lstrip(text) == Reverse(rstrip(Reverse(text)))

\* mutant: the ">" is left out of what is kept
boundary_cut_head_short(text, n) ==
  LET raw  == SubSeq(text, 1, n)
      cut  == IF Count(raw, "<") > Count(raw, ">") /\ LastAt(raw, {">"}) > 1
              THEN SubSeq(raw, 1, LastAt(raw, {">"}) - 1) ELSE raw
      best == LastAt(cut, Blank) - 1
  IN  rstrip(IF best > n \div 2 THEN SubSeq(cut, 1, best) ELSE cut)

boundary_cut_head(text, n) ==
  LET raw  == SubSeq(text, 1, n)
      cut  == IF Count(raw, "<") > Count(raw, ">") /\ LastAt(raw, {">"}) > 1
              THEN SubSeq(raw, 1, LastAt(raw, {">"})) ELSE raw
      best == LastAt(cut, Blank) - 1
  IN  rstrip(IF best > n \div 2 THEN SubSeq(cut, 1, best) ELSE cut)

\* no boundary in the last n characters: the whole text
boundary_cut_tail(text, n) ==
  LET rest(i) == SubSeq(text, i, Len(text))
      ends == {i \in Len(text) - n + 1 .. Len(text) :
                 text[i] \in Blank /\ Count(rest(i), "<") <= Count(rest(i), ">")}
  IN  IF ends = {} THEN text
      ELSE lstrip(rest(CHOOSE i \in ends : \A j \in ends : i <= j))

truncate_page(text, chars, strategy) ==
  IF chars <= 0 THEN <<>>
  ELSE IF Len(text) <= chars THEN text
  ELSE IF strategy = "tail" THEN boundary_cut_tail(text, chars)
  ELSE boundary_cut_head(text, chars)

-----------------------------------------------------------------------------
\* The pages of a bulk fetch never get more characters together than the
\* budget, nor one of them more than its limit or its length (one for an empty
\* page); and pages that fit with a character to spare are not cut when each
\* is to get its proportion.
AllocationSound(strategy, lens, fetches, budget, per_page) ==
  \A short \in BOOLEAN :
    LET got == allocate_budgets(strategy, lens, fetches, budget, per_page, short) IN
    budget # 0 =>
      /\ Total(got) <= budget
      /\ \A i \in DOMAIN got :
           got[i] \in 0 .. Greatest(1, lens[i]) /\ (per_page # 0 => got[i] <= per_page)
      /\ Total([i \in DOMAIN lens |-> Greatest(1, lens[i])]) < budget /\ per_page = 0 /\ strategy \in {"head", "tail"}
           => \A i \in DOMAIN got : got[i] >= lens[i]

\* Does the text break off inside a tag?
InTag(text)   == LastAt(text, {"<"}) > LastAt(text, {">"})
NoStray(text) ==   \* every ">" closes a "<"
  \A k \in 0 .. Len(text) : Count(SubSeq(text, 1, k), ">") <= Count(SubSeq(text, 1, k), "<")

\* A cut keeps the beginning of a page within its budget.  It tears a word apart only
\* where the second half of what it may keep holds no blank.  In a text without stray
\* ">" it tears a tag apart only at a blank inside that tag, or where it would have to
\* go back to the very beginning.  It does not keep lines whole.
HeadCutSound(text, n) ==
  LET kept == truncate_page(text, n, "head") IN
  /\ IsPrefix(kept, text) /\ Len(kept) <= n
  /\ Len(kept) \in 1 .. Len(text) - 1 =>
       /\ \/ kept[Len(kept)] = ">" \/ text[Len(kept) + 1] \in Blank
          \/ \A i \in n \div 2 + 2 .. n : text[i] \notin Blank
       /\ InTag(kept) /\ NoStray(text) =>
            text[Len(kept) + 1] \in Blank \/ \A i \in 2 .. n : text[i] # ">"

=============================================================================
