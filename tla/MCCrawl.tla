------------------------------ MODULE MCCrawl ------------------------------
(***************************************************************************)
(* Instances of Crawl for TLC.                                             *)
(***************************************************************************)
EXTENDS Crawl

CONSTANTS c1, c2

Url(site, item, short) == [site |-> site, item |-> item, short |-> short]
Ask2(l1, u1, l2, u2)   == c1 :> [lane |-> l1, url |-> u1] @@ c2 :> [lane |-> l2, url |-> u2]

News    == Url("nytimes", TRUE, FALSE)
Product == Url("walmart", TRUE, FALSE)
Listing == Url("walmart", FALSE, FALSE)
Post    == Url("reddit", TRUE, FALSE)
Search  == Url("brave", TRUE, FALSE)
Short   == Url("default", TRUE, TRUE)

TwoCrawls == {Ask2("fast", News, "fast", Short), Ask2("fast", Product, "cf", Post),
              Ask2("cf", Product, "cf", Search)}
Fights    == {Ask2("cf", Product, "cf", Search)}

OneEach == "fast" :> 1 @@ "cf" :> 1
AllTiers == {"http", "browser", "stealth"}
Tiers    == {AllTiers, {"browser"}}

Page(status, mime, doc, size, shell) ==
  [status |-> status, mime |-> mime, doc |-> doc, size |-> size, shell |-> shell]
Good    == Page(200, "html", <<"word", "word">>, 1, FALSE)
Wall    == Page(200, "html", <<"phrase">>, 1, FALSE)
Blocked == Page(403, "html", <<"phrase">>, 1, FALSE)
Missing == Page(404, "html", <<"word">>, 1, FALSE)
Shell   == Page(200, "html", <<"word">>, 1, TRUE)
Huge    == Page(200, "html", <<"word">>, 3, FALSE)
Served  == {Good, Wall, Blocked, Missing, Shell, Huge}

\* Documents and downloads of every shape, judged before the crawls start.
Pieces ==
  [kind : {"text"}, tok : {"word", "phrase", "asset"}, inner : {<<>>}]
  \cup [kind : {"tag"}, tok : {""},
        inner : {<<>>, <<"dq", ">", "dq">>, <<"sq", "dq", ">", "sq">>, <<"dq", "phrase", "dq">>, <<"asset">>}]
  \cup [kind : {"block"}, tok : Opens,
        inner : {<<>>, <<"phrase">>, <<"asset">>, <<"<">>, <<"dq">>, <<"/pre">>, <<"/script">>, <<"script">>}]
WellFormed == {p \in Pieces : p.kind = "block" => p.inner # <<Closes[p.tok]>>}

HopKinds ==
  {hop \in [status : {100, 200, 302}, mime : {"", "text", "binary"}, length : {0, 3}, loc : BOOLEAN,
            chunks : {<<>>, <<1>>, <<2>>, <<1, 2>>}] :
     hop.status = 100 => hop.chunks = <<>>}

VARIABLE sample
NoSample == [pieces |-> <<>>, chain |-> <<>>]
Samples  ==
  [pieces : SeqOf(WellFormed, 3), chain : {<<>>}] \cup [pieces : {<<>>}, chain : Chains(HopKinds)]

MCInit ==
  /\ Init
  /\ \/ sample = NoSample
     \/ /\ sample \in Samples \ {NoSample}
        /\ ask = CHOOSE start \in Starts : TRUE
        /\ enabled = AllTiers
Judged == sample # NoSample /\ sample' = NoSample /\ UNCHANGED vars
MCNext == Judged \/ (sample = NoSample /\ Next /\ UNCHANGED sample)
MCSpec == MCInit /\ [][MCNext]_<<vars, sample>> /\ Fairness /\ WF_<<vars, sample>>(Judged)

\* A challenge page is told by what its reader sees: see WallIsShown.
WallsTold == sample.pieces # <<>> => WallIsShown(sample.pieces)

\* A download is refused, kept and given on for the right reasons: see DownloadExact.
DownloadsExact == sample.chain # <<>> => DownloadExact(sample.chain)

=============================================================================
