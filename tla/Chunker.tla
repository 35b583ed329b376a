------------------------------ MODULE Chunker ------------------------------
(***************************************************************************)
(* chunk_markdown (chunk.py): a page is cut at its headings and by a token *)
(* budget, but never inside a fenced code block.  A line is its kind and   *)
(* its number of characters; a chunk is the sequence of its lines.         *)
(***************************************************************************)
EXTENDS Integers, Sequences, FiniteSets, SequencesExt

CONSTANT MaxTokens   \* MAX_CHUNK_TOKENS
ASSUME MaxTokensAssumption == MaxTokens \in Int

Fences == {"backticks", "tildes"}
Kinds  == Fences \cup {"text", "heading", "blank"}

LOCAL Greater(a, b) == IF a > b THEN a ELSE b

Budget    == Greater(100, MaxTokens)
StubLimit == Greater(50, Budget \div 5)
Tokens(n) == Greater(1, n \div 4)

Cost(line)   == Tokens(line.len)
Length(text) == FoldLeft(LAMBDA n, line : n + line.len, Len(text) - 1, text)

Empty == [chunks |-> <<>>, current |-> <<>>, tokens |-> 0, fence |-> ""]

\* strip drops the blank lines at both ends, and a chunk of nothing else
Strip(text) ==
  LET solid == {i \in DOMAIN text : text[i].kind # "blank"}
  IN  IF solid = {} THEN <<>>
      ELSE SubSeq(text, CHOOSE i \in solid : \A j \in solid : i <= j,
                        CHOOSE i \in solid : \A j \in solid : i >= j)

flush(s) ==
  [s EXCEPT !.chunks = IF Strip(s.current) = <<>> THEN @ ELSE Append(@, Strip(s.current)),
            !.current = <<>>,
            !.tokens = 0]

Take(s, line) == [s EXCEPT !.current = Append(@, line), !.tokens = @ + Cost(line)]

\* mutant: the budget is kept inside a code block, too
AddAlways(s, line) ==
  LET full   == s.current # <<>> /\ s.tokens + Cost(line) > Budget
      opens  == s.fence = "" /\ line.kind \in Fences
      closes == s.fence # "" /\ line.kind = s.fence
  IN  [Take(IF full \/ opens THEN flush(s) ELSE s, line)
         EXCEPT !.fence = IF opens THEN line.kind ELSE IF closes THEN "" ELSE @]

\* the body of the loop: one line more
Add(s, line) ==
  LET opens  == s.fence = "" /\ line.kind \in Fences
      closes == s.fence # "" /\ line.kind = s.fence
      full   == s.fence = "" /\ s.tokens + Cost(line) > Budget
      starts == s.fence = "" /\ line.kind = "heading"
  IN  [Take(IF opens \/ full \/ starts THEN flush(s) ELSE s, line)
         EXCEPT !.fence = IF opens THEN line.kind ELSE IF closes THEN "" ELSE @]

\* a small last chunk is glued to the one before it, behind an empty line
merge_stub(chunks) ==
  LET n == Len(chunks)
  IN  IF n >= 2 /\ Tokens(Length(chunks[n])) < StubLimit
      THEN Append(SubSeq(chunks, 1, n - 2),
                  chunks[n - 1] \o <<[kind |-> "blank", len |-> 0, at |-> 0]>> \o chunks[n])
      ELSE chunks

chunk_markdown(lines) == merge_stub(flush(FoldLeft(Add, Empty, lines)).chunks)

-----------------------------------------------------------------------------
(***************************************************************************)
(* What the chunks of a page promise the search.  Lines carry their        *)
(* position in the page, "at".                                             *)
(***************************************************************************)
Solid(line)     == line.kind # "blank"
HasFence(chunk) == \E i \in DOMAIN chunk : chunk[i].kind \in Fences

\* the code block that line i + 1 is in, or would end
Opened(lines, i) == FoldLeft(Add, Empty, SubSeq(lines, 1, i)).fence

\* chunk c holds line k
Stands(chunks, c, k) == \E i \in DOMAIN chunks[c] : chunks[c][i].at = k

\* No text is lost, doubled or reordered by the cuts: the chunks hold the lines
\* of the page that are not blank, each once and in its order.
AllThere(lines, chunks) ==
  /\ \A k \in DOMAIN lines :
       Solid(lines[k]) => \E c \in DOMAIN chunks : \E i \in DOMAIN chunks[c] : chunks[c][i] = lines[k]
  /\ \A c \in DOMAIN chunks : \A i \in DOMAIN chunks[c] :
       Solid(chunks[c][i]) => \E k \in DOMAIN lines : chunks[c][i] = lines[k]
  /\ \A c, d \in DOMAIN chunks : \A i \in DOMAIN chunks[c], j \in DOMAIN chunks[d] :
       /\ Solid(chunks[c][i]) /\ Solid(chunks[d][j])
       /\ c < d \/ (c = d /\ i < j)
       => chunks[c][i].at < chunks[d][j].at

\* No code block is torn apart.
BlocksKept(lines, chunks) ==
  \A k \in 1 .. Len(lines) - 1 :
    Opened(lines, k) # "" /\ Solid(lines[k]) /\ Solid(lines[k + 1])
      => \E c \in DOMAIN chunks : Stands(chunks, c, k) /\ Stands(chunks, c, k + 1)

\* A chunk over the budget (and what joins its lines) holds a code block or is one
\* long line; the last one may hold a stub besides.
InBudget(chunk, stub) == Tokens(Length(chunk)) <= Budget + stub + Len(chunk)
BudgetKept(chunks) ==
  \A c \in DOMAIN chunks :
    \/ HasFence(chunks[c])
    \/ Len(chunks[c]) = 1
    \/ InBudget(chunks[c], 0)
    \/ /\ c = Len(chunks)
       /\ \/ InBudget(chunks[c], StubLimit)
          \/ /\ chunks[c][2].at = 0
             /\ Tokens(Length(chunks[c])) <= Cost(chunks[c][1]) + StubLimit + Len(chunks[c])

\* A heading stands at the top of its chunk, unless that chunk swallowed a stub.
HeadingsOnTop(lines, chunks) ==
  \A k \in DOMAIN lines :
    lines[k].kind = "heading" /\ Opened(lines, k - 1) = ""
      => \E c \in DOMAIN chunks :
           Stands(chunks, c, k) /\ (chunks[c][1].at = k \/ c = Len(chunks))

ChunksWhole(lines) ==
  LET chunks == chunk_markdown(lines)
  IN  /\ AllThere(lines, chunks)
      /\ BlocksKept(lines, chunks)
      /\ BudgetKept(chunks)
      /\ HeadingsOnTop(lines, chunks)

=============================================================================
