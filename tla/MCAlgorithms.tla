---------------------------- MODULE MCAlgorithms ----------------------------
\* The pure functions on all inputs up to a size: one step computes each result.
EXTENDS ShardSearch, ResponseReader, Robots, QueryKeys, CrawlerClient, Candidates, PagePipeline, Links

CONSTANTS NumShards, MaxLen, MaxScore, MaxK,  \* bounds of merge_topk's inputs
          MaxDelay, Timeout,                  \* bounds of gather_with_timeout's
          MaxBody, MaxLines,                  \* bounds of responses and robots.txt
          MaxEntries, MaxHtml, MaxFragments,  \* bounds of sitemaps and pages
          gurt, gurtbot, bing, d1, d2         \* agents' tokens, and delays

ASSUME MergeAssumption == MaxLen \in Nat /\ MaxScore \in Nat /\ MaxK \in Nat
ASSUME GatherAssumption == NumShards \in Nat /\ MaxDelay \in Nat /\ Timeout \in Nat
ASSUME BodyAssumption == MaxBody \in Nat
ASSUME LinesAssumption == MaxLines \in Nat
ASSUME PageAssumption == MaxHtml \in Nat /\ MaxEntries \in Nat /\ MaxFragments \in Nat

VARIABLES input,  \* what the function is called with
          done,   \* whether it has returned
          result  \* and what

vars == <<input, done, result>>

Sorted(s) == \A i, j \in DOMAIN s : i < j => s[i] >= s[j]
Lists == {s \in UNION {[1..n -> 0..MaxScore] : n \in 0..MaxLen} : Sorted(s)}

Merges == [of : {"merge"}, lists : [1..NumShards -> Lists], k : 0..MaxK]
Gathers == [of : {"gather"}, delay : [1..NumShards -> 0..MaxDelay], panics : SUBSET (1..NumShards)]

\* The bytes a server may have sent: whole responses, cut short anywhere, with
\* too many bytes, without a status code, and with more than one length.
ResponseHeads ==
    {w \o End : w \in {<<>>, <<"x">>, <<"x", "0">>, <<"x", "2">>, <<"x", "3">>, <<"x", "1", "2">>}}
Sendings ==
    LET whole == {h \o [i \in 1..k |-> "b"] : h \in ResponseHeads, k \in 0..MaxBody}
    IN  UNION {{SubSeq(w, 1, n) : n \in 0..Len(w)} : w \in whole}

\* All ways to cut s into chunks: after each place in cuts.
Cut(s, cuts) ==
    LET ends == cuts \cup {Len(s)}
        Place(n) == IF n = 0 THEN 0 ELSE CHOOSE e \in ends : Cardinality({m \in ends : m <= e}) = n
    IN  [n \in 1..Cardinality(ends) |-> SubSeq(s, Place(n - 1) + 1, Place(n))]
Chunks(s) == IF s = <<>> THEN {<<>>} ELSE {Cut(s, cuts) : cuts \in SUBSET (1..Len(s) - 1)}

\* At most one chunk is late.
IsStream(st) ==
    \E s \in Sendings : \E chunks \in Chunks(s) :
    \E late \in {{}} \cup {{n} : n \in DOMAIN chunks}, ending \in {"eof", "error", "silence"} :
        st = [of |-> "read", stream |-> [chunks |-> chunks, late |-> late, ending |-> ending]]

AllAgents == {Star, gurt, gurtbot, bing}
OurTokens == {gurt, gurtbot}
RobotsLength == [a \in Agents |-> CASE a = Star -> 1 [] a = gurtbot -> 7 [] OTHER -> 4]
Unmatched == -1
Line(key, values) == {[key |-> key, value |-> v] : v \in values}
RobotsLines ==
    Line("user-agent", Agents) \cup Line("allow", {1, 2}) \cup Line("disallow", {0, 1, 2, NoMatch})
        \cup Line("crawl-delay", {d1, d2, NoDelay})

-----------------------------------------------------------------------------
\* Tokens of search strings: words in both cases, terms that look like filters,
\* and filters with empty, quoted, half quoted and overridden values.
AllWords == {"gurt", "GURT", "the", "THE", "site", "SITE", "filetype", "pdf", "PDF", "eacute", "EACUTE"}
FoldAscii ==
    [w \in AllWords |-> CASE w = "GURT" -> "gurt" [] w = "THE" -> "the" [] w = "SITE" -> "site"
                          [] w = "PDF" -> "pdf" [] OTHER -> w]
FoldUnicode == [FoldAscii EXCEPT !["EACUTE"] = "eacute"]
StopWordList == {"the"}
KeyTokens ==
    {<<"gurt">>, <<"GURT">>, <<"EACUTE">>, <<"site", "=", "gurt">>, <<"site", ":", "gurt">>,
     <<"site", ":", "pdf">>, <<"SITE", ":">>, <<"filetype", ":", "PDF">>, <<"filetype", "=", "pdf">>}
RawTokens ==
    KeyTokens \cup
    {<<"the">>, <<"THE">>, <<"eacute">>, <<"site">>, <<"-">>, <<"gurt", "-", "pdf">>, <<"THE", "-", "gurt">>,
     <<"gurt", ":", "pdf">>, <<":", "gurt">>, <<"dquote", "gurt", "dquote">>, <<"SITE", "=", "GURT">>,
     <<"SITE", ":", "GURT">>, <<"site", ":", "dquote", "gurt", "dquote">>,
     <<"site", ":", "dquote", "gurt">>, <<"site", ":", "dquote", "dquote">>, <<"site", ":", "dquote">>,
     <<"site", ":", "gurt", ":", "pdf">>, <<"filetype", ":", "quote", "pdf", "quote">>,
     <<"filetype", ":", "dquote", "pdf", "quote">>, <<"U+001F">>,
     <<"gurt", "U+001F", "site", "=", "gurt">>, <<"site", ":", "gurt", "U+001F", "filetype", "=", "pdf">>}
Queries == (UNION {[1..n -> RawTokens] : n \in 0..2}) \cup [1..3 -> KeyTokens]

\* Scripts of attempts: with at most n steps that do not just succeed.
Deviating(n) ==
    {script \in [{Steps[i] : i \in DOMAIN Steps} -> UNION {Outcomes(Steps[i]) : i \in DOMAIN Steps}] :
        /\ \A step \in DOMAIN script : script[step] \in Outcomes(step)
        /\ Cardinality({step \in DOMAIN script : script[step] # "ok"}) <= n}
Fetches ==
    [of : {"fetch"}, scripts : [1..2 -> Deviating(2)]] \cup [of : {"fetch"}, scripts : [1..3 -> Deviating(1)]]

\* Sitemaps with these texts as entries, cut short anywhere.
PageSpellings == {"/a", "a", "/b", "gurt://d/", "gurt://c/"}
PageAddress == [s \in PageSpellings |-> CASE s = "gurt://c/" -> 1 [] s = "gurt://d/" -> 2 [] s = "/b" -> 4 [] OTHER -> 3]
EntryTexts == {<<>>} \cup {<<Blank, s, Blank>> : s \in Spellings}
Entry(text) == <<"other", "<loc", "other", ">">> \o text \o <<"</loc", ">">>
Entries(texts) == [n \in DOMAIN texts |-> Entry(texts[n])]
Sitemap(texts) == Read(Entries(texts), Len(texts))
Answers == [fetched : BOOLEAN, code2xx : BOOLEAN, utf8 : BOOLEAN]
GoodAnswer == [fetched |-> TRUE, code2xx |-> TRUE, utf8 |-> TRUE]
IsSitemap(in) ==
    \E n \in 0..MaxEntries : \E texts \in [1..n -> EntryTexts] : \E cut \in 0..Len(Sitemap(texts)) :
    \E answer \in Answers :
        /\ n = 1 \/ answer = GoodAnswer
        /\ in = [of |-> "sitemap", texts |-> texts, cut |-> cut, answer |-> answer]

\* Pages; all answers with short ones, answers that are accepted with the others.
Pages(n) == [1..n -> Pieces]
IsPage(in) ==
    \E n \in 0..MaxHtml, slow, fetched, code2xx \in BOOLEAN, type \in {"none", "html", "other"} :
    \E html \in Pages(n) :
        /\ n <= 1 \/ (fetched /\ code2xx /\ type = "html")
        /\ in = [of |-> "page", html |-> html, slow |-> slow, fetched |-> fetched, code2xx |-> code2xx,
                 contentType |-> type]

\* Pages made of fragments, which are text or an attribute with its value, and
\* an end; with each the link that the value is.
Fragment(html, links) == [html |-> html, links |-> links]
Fragments ==
    {Fragment(<<"href", "=", "dquote", "gurt://", "dquote">>, <<<<"gurt://">>>>),
     Fragment(<<"href", "blank", "=", "blank", "quote", "gurt://", "word", "backslash", "quote">>, <<<<"gurt://", "word">>>>),
     Fragment(<<"href", "=", "backslash", "dquote", "gurt://", "quote", "word", "dquote">>, <<<<"gurt://", "quote", "word">>>>),
     Fragment(<<"href", "=", "dquote", "gurt://", "href", "=", "word", "dquote">>, <<<<"gurt://", "href", "=", "word">>>>),
     Fragment(<<"href", "=", "gurt://", ">">>, <<<<"gurt://">>>>),
     Fragment(<<"href", "=", "gurt://", "dquote", "blank">>, <<<<"gurt://", "dquote">>>>),
     Fragment(<<"href", "=", "dquote", "word", "gurt://", "dquote">>, <<>>),
     Fragment(<<"href", "=", "dquote", "dquote">>, <<>>),
     Fragment(<<"word", "=", "quote", "word", "quote">>, <<>>),
     Fragment(<<"word", "=", "dquote", "gurt://", "dquote">>, <<<<"gurt://">>>>),
     Fragment(<<"word", "=", "dquote", "href", "dquote">>, <<>>),
     Fragment(<<"word", "href", "=", "quote", "gurt://", "quote">>, <<<<"gurt://">>>>),
     Fragment(<<"gurt://">>, <<>>),
     Fragment(<<"href", "blank">>, <<>>)}
Ends ==
    {Fragment(<<>>, <<>>), Fragment(<<"href", "=", "gurt://">>, <<<<"gurt://">>>>),
     Fragment(<<"href">>, <<>>), Fragment(<<"href", "=", "blank", "backslash">>, <<>>)}
OpenEnds ==
    {Fragment(<<"href", "=", "dquote", "gurt://", "word">>, <<>>), Fragment(<<"word", "=", "dquote", "gurt://">>, <<>>)}
Htmls(parts) == [n \in DOMAIN parts |-> parts[n].html]
Html(parts) == Read(Htmls(parts), Len(parts))
IsLinked(in) ==
    \E n \in 0..MaxFragments : \E parts \in [1..n -> Fragments], end \in Ends \cup OpenEnds :
        in = [of |-> "links", parts |-> parts \o <<end>>]

Init ==
    /\ \/ input \in Merges
       \/ input \in Gathers
       \/ IsStream(input)
       \/ \E n \in 0..MaxLines : input \in [of : {"robots"}, lines : [1..n -> RobotsLines]]
       \/ input \in [of : {"query"}, query : Queries]
       \/ input \in Fetches
       \/ IsSitemap(input)
       \/ IsPage(input)
       \/ IsLinked(input)
    /\ done = FALSE
    /\ result = <<>>

Merge ==
    /\ input.of = "merge"
    /\ result' = MergeTopK(input.lists, input.k)

GatherAll ==
    /\ input.of = "gather"
    /\ result' = Gather(input.delay, input.panics, Timeout)

\* Both clients read the response; the crawler's has no timeout and does not
\* return if the server falls silent.
ReadStream ==
    /\ input.of = "read"
    /\ result' = [fetch |-> ReadResponse(input.stream),
                  crawl |-> IF input.stream.ending = "silence" THEN Err ELSE ReadResponseLike(input.stream)]

ObeyRobots ==
    /\ input.of = "robots"
    /\ LET groups == Parse(input.lines) IN
       result' = [allowed |-> IsAllowed(groups), delay |-> CrawlDelay(groups)]

AskSearch ==
    /\ input.of = "query"
    /\ LET pq == ParseQuery(input.query) IN
       result' = [pq |-> pq, key |-> NormalizeKey(pq), tokens |-> AnalyzeTerms(pq.terms)]

FetchPage ==
    /\ input.of = "fetch"
    /\ result' = FetchWithRetries(input.scripts, Len(input.scripts) - 1)

CollectCandidates ==
    /\ input.of = "sitemap"
    /\ LET answer == input.answer IN
       result' = CandidateUrls([fetched |-> answer.fetched, code2xx |-> answer.code2xx, utf8 |-> answer.utf8,
                                xml |-> SubSeq(Sitemap(input.texts), 1, input.cut)])

IndexPage ==
    /\ input.of = "page"
    /\ result' = IndexSingleUrl(input)

FindLinks ==
    /\ input.of = "links"
    /\ result' = ExtractLinks(Html(input.parts))

Next ==
    /\ ~done
    /\ done' = TRUE
    /\ \/ Merge \/ GatherAll \/ ReadStream \/ ObeyRobots
       \/ AskSearch \/ FetchPage \/ CollectCandidates \/ IndexPage \/ FindLinks
    /\ UNCHANGED input

Spec == Init /\ [][Next]_vars

Returned(of) == done /\ input.of = of

\* The merge returns the k best items of all shards (all if there are fewer),
\* best first, equal ones by shard and place; none is lost or repeated.
MergesTheBest == Returned("merge") => IsTopK(input.lists, input.k, result)

\* A shard that answers within the timeout is never dropped, however long the
\* gathering waited for the shards before it.
PromptShardsKept ==
    Returned("gather") =>
        \A s \in 1..NumShards : input.delay[s] <= Timeout /\ s \notin input.panics => s \in result.kept

\* The gathering ends after one timeout per shard at the latest, although
\* dropped tasks keep running.
GatherIsBounded == Returned("gather") => result.clock <= NumShards * Timeout

\* However the bytes of a response are cut into reads, each client gets what a
\* reader of the whole gets: the body announced or what there is of it at the
\* end of stream, never less because a read failed, fell silent or was late.
\* Excepted are responses with bytes after the announced body that exceed the
\* bound on messages, which may be refused; unannounced bodies, of which the
\* fetch of pages (fetch.rs) takes what comes before the stream falls idle, and
\* the crawler's client (client.rs) nothing.
BodyIsWhatWasSent ==
    Returned("read") =>
        LET stream == input.stream
            all == Sent(stream)
            head == SubSeq(all, 1, HeadEnd(all))
            whole == Whole(stream)
            announced == IF whole.ok /\ ~Announces(head) THEN Ok(<<>>) ELSE whole
            Is(r, what) == r = what \/ (Len(all) > MaxMessage /\ r \in {Err, Ok(<<>>)})
        IN  /\ IF Announces(head) \/ stream.late = {} THEN Is(result.fetch, whole)
               ELSE IsPrefixOf(result.fetch.body, From(all, Len(head) + 1))
            /\ stream.ending # "silence" => Is(result.crawl, announced)

\* For any order of user-agent, rule and delay lines, robots.rs gives what its
\* comment promises: the groups of the longest token of ours (or else of "*")
\* decide, whatever other groups stand before, between and after them.  The path
\* is allowed unless the longest of their rules for it is only a disallow, and
\* their last delay counts; if they are none, there is no delay.  Excepted are
\* the two ways in which the code lets other agents' rules count (findings): if
\* neither we nor "*" are named nothing is claimed of the path, and groups after
\* ours, whose rules the code adds to ours, must not have a rule for the path
\* as long as our longest, or a later delay.
RobotsObeyed ==
    Returned("robots") =>
        LET lines == input.lines
            start == StartOfOurs(lines)
            ours == RulesFor(lines, NamedAt(lines)[start])
            strays == {i \in start..Len(lines) : IsRule(lines[i])} \ ours
            LengthsOf(rules) == Lengths(lines, rules, "allow") \cup Lengths(lines, rules, "disallow")
        IN  IF start = 0 THEN result.delay = NoDelay
            ELSE /\ LengthsOf(strays) = {} \/ (\E o \in LengthsOf(ours) : \A s \in LengthsOf(strays) : o > s)
                        => (result.allowed <=> AllowedBy(lines, ours))
                 /\ (\A s \in DelaysAt(lines, strays) : \E o \in DelaysAt(lines, ours) : o > s)
                        => result.delay = DelayBy(lines, ours)

\* Two searches share a key of the hot cache (search/mod.rs) only if the engine
\* is asked for the same tokens and the filters are the same, so that an answer
\* from the cache is one the engine could have given.  Excepted are searches
\* with a term that reads like the part of a filter in the key, and those with
\* the separator of the key's parts in them (a finding).
Known == {[pq |-> pq, key |-> NormalizeKey(pq), tokens |-> AnalyzeTerms(pq.terms)] : pq \in {ParseQuery(q) : q \in Queries}}
KeysTellQueries ==
    Returned("query") /\ Unambiguous(result.pq) =>
        \A other \in Known :
            other.key = result.key /\ Unambiguous(other.pq) =>
                /\ other.tokens = result.tokens
                /\ other.pq.site = result.pq.site /\ other.pq.filetype = result.pq.filetype

\* The words of a page find it (tantivy.rs): a search for its text looks up the
\* tokens under which the page is indexed, and a search for one of its words, in
\* any ASCII case, finds it unless the word is a stop word.  Excepted are texts
\* with capitals that to_ascii_lowercase does not fold.
WordsFindPages ==
    Returned("query") =>
        LET text == Text(result.pq.terms)
            Finds(word) == Matches([terms |-> <<<<word>>>>], [title |-> <<>>, content |-> text])
        IN  OnlyAsciiCase(text) =>
                /\ result.tokens = IndexTokens(text)
                /\ \A i \in DOMAIN text, word \in Words :
                      text[i] \in Words /\ AsciiLower[word] = AsciiLower[text[i]] =>
                          (Finds(word) <=> AsciiLower[word] \notin Stopwords)

\* How a fetch with these attempts ends, from what the scripts say alone.
Settles(scripts, outcome) ==
    LET GoesThrough(script, n) == \A m \in 1..n - 1 : script[Steps[m]] \in {"ok", "error"}
        FailsWith(script, outcomes) ==
            \E n \in DOMAIN Steps : GoesThrough(script, n) /\ script[Steps[n]] \in outcomes
        Silent(script) ==
            \E n \in DOMAIN Steps : /\ GoesThrough(script, n) /\ script[Steps[n]] = "stuck"
                                    /\ Steps[n] \in {"handshake", "answer"}
        last == scripts[outcome.made]
    IN  /\ outcome.result = "ok" <=> GoesThrough(last, Len(Steps) + 1)
        /\ outcome.result = Never <=> Silent(last)
        /\ \A n \in 1..outcome.made - 1 :
               FailsWith(scripts[n], {"Connection", "Io", "stuck"}) /\ ~Silent(scripts[n])
        /\ outcome.result \in {"Connection", "Io", "Timeout"} => outcome.made = Len(scripts)

\* The crawler's fetch (client.rs) gives a page if and only if an attempt went
\* through, asks for nothing again once it has a page or was answered with
\* something malformed, and gives up after the last retry only.  It does not
\* return if an attempt reached a server that falls silent: reads have no timeout.
FetchSettles == Returned("fetch") => Settles(input.scripts, result)

\* A crawl visits the root and the pages of the sitemap's first entries
\* (indexing/mod.rs): as many entries as the limit leaves room for beside the
\* root, of those that are not empty and not cut off, each page once.  Entries
\* that repeat a page use up the limit.  Without a sitemap it visits the root.
CandidatesAreListed ==
    Returned("sitemap") =>
        LET complete == {n \in DOMAIN input.texts :
                            input.texts[n] # <<>> /\ Len(Read(Entries(input.texts), n)) <= input.cut}
            listed == {n \in complete : Cardinality({m \in complete : m <= n}) <= MaxPages - 1}
        IN  result = {RootAddress} \cup
                IF input.answer = GoodAnswer
                THEN {Address[input.texts[n][2]] : n \in listed} ELSE {}

\* An accepted page gives one document (fetch.rs, pipeline.rs, render.rs), whose
\* content, if it was rendered, is the page without what stands within scripts,
\* nothing else lost and nothing moved, and the page as it is otherwise; one
\* whose rendering took too long is queued once to be rendered again.  Its title
\* is what stands between the first title's tags, in scripts too.
PageIsIndexed ==
    Returned("page") =>
        LET html == input.html
            InScript(i) == \E j \in 1..i : html[j] = "<script" /\ \A k \in j..i - 1 : html[k] # "</script>"
            shown == PiecesAt(html, {i \in DOMAIN html : ~InScript(i)})
            InTitle(i) == /\ html[i] # "blank"
                          /\ \E j \in 1..i - 1 : html[j] = "<title>" /\ \A k \in j..i : html[k] # "</title>"
                          /\ \E k \in i..Len(html) : html[k] = "</title>"
                          /\ \A j, k \in 1..i : html[j] = "<title>" /\ html[k] = "</title>" => j > k
            titled == PiecesAt(html, {i \in DOMAIN html : InTitle(i)})
            dynamic == Has(html, "network.fetch(") \/ (Has(html, "lua") /\ Has(html, "<script"))
            doc == result.added[1]
        IN  /\ result.ok = (input.fetched /\ input.code2xx)
            /\ Len(result.added) = IF result.ok /\ input.contentType # "other" THEN 1 ELSE 0
            /\ Len(result.requeued) = IF result.added # <<>> /\ dynamic /\ input.slow THEN 1 ELSE 0
            /\ result.added # <<>> =>
                   /\ doc.content = IF ~dynamic \/ input.slow THEN html
                                    ELSE IF Has(shown, Marker) THEN shown ELSE shown \o <<Marker>>
                   /\ doc.title = IF titled = <<>> THEN <<"domain">> ELSE titled

\* Whether the value of a part is read: the text href stands before its "=", in
\* the part or, begun, since the value that was read last.
NamesHref(html) == \E p \in DOMAIN html : html[p] = "href" /\ \A i \in 1..p : html[i] # "="
IsValueRead(html, begun) == Has(html, "=") /\ (begun \/ NamesHref(html))
BegunAfter(html, begun) == ~IsValueRead(html, begun) /\ (begun \/ Has(html, "href"))
Begun(htmls) ==
    LET begun[n \in 0..Len(htmls)] == IF n = 0 THEN FALSE ELSE BegunAfter(htmls[n], begun[n - 1])
    IN  begun
LinksIn(parts) ==
    LET given == [n \in DOMAIN parts |->
                     IF IsValueRead(parts[n].html, Begun(Htmls(parts))[n - 1]) THEN parts[n].links ELSE <<>>]
    IN  Read(given, Len(parts))

\* The links of a page (link/mod.rs) are the values that start with gurt://, in
\* their order, quoted or not, of the attributes before whose "=" the text href
\* stands after the value read last: no value of an href attribute is lost, and
\* no other text taken for one, but for values of attributes like data-href and
\* of any that follows the text href (a finding).  A page that ends within the
\* quotes of such a value makes the code panic.
LinksAreFound ==
    Returned("links") =>
        LET parts == input.parts
            last == Len(parts)
            panics == parts[last] \in OpenEnds /\ IsValueRead(parts[last].html, Begun(Htmls(parts))[last - 1])
        IN  result = IF panics THEN Panic ELSE Found(LinksIn(parts))
==============================================================================
