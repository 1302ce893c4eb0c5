------------------------------ MODULE WebTools ------------------------------
(***************************************************************************)
(* One call of a web tool (tools/web.py).  web.search asks its sources one *)
(* after another and puts what they found together; web.fetch follows      *)
(* redirects by itself, resolving and checking every host anew and trying  *)
(* a few of its addresses.  The tool's timeout can cut either anywhere.    *)
(***************************************************************************)
EXTENDS Naturals, Sequences, SequencesExt, FiniteSets

CONSTANTS Urls,             \* of results, and of pages
          MaxResults,       \* max_results
          MaxRedirects,     \* max_redirects
          MaxAddresses,     \* MAX_FALLBACK_ADDRESSES_PER_HOP
          NoUrl

VARIABLES
    pc,         \* what the call waits for
    found,      \* source -> the results it returned, by their URL
    answer,     \* the results, or the page, and how the call ended
    page,       \* where web.fetch is: current_url
    redirects,  \* redirect_count
    tries,      \* addresses of this hop not tried yet
    attempts    \* history: connections attempted

webVars == <<pc, found, answer, page, redirects, tries, attempts>>

Sources == {"weather", "searxng", "ddg", "wiki"}
Searching == {"wttr", "geocoding", "open-meteo", "searxng", "ddg html", "ddg lite", "wiki"}
Fetching == {"resolve", "connect", "response"}
Found == SeqOf(Urls, MaxResults)
UpTo(n, urls) == SubSeq(urls, 1, IF Len(urls) < n THEN Len(urls) ELSE n)

TypeOK ==
    /\ pc \in {"called", "over"} \cup Searching \cup Fetching
    /\ found \in [Sources -> Found]
    /\ answer.how \in {"none", "results", "page", "nothing found", "refused", "unreachable",
                       "too big", "timed out", "too many redirects"}
    /\ page \in Urls \cup {NoUrl}
    /\ redirects \in 0 .. MaxRedirects /\ tries \in 0 .. MaxAddresses
    /\ attempts \in 0 .. MaxAddresses * (MaxRedirects + 1)

Init ==
    /\ pc = "called" /\ found = [s \in Sources |-> <<>>]
    /\ answer = [how |-> "none", urls |-> <<>>]
    /\ page = NoUrl /\ redirects = 0 /\ tries = 0 /\ attempts = 0

Ends(how, urls) == pc' = "over" /\ answer' = [how |-> how, urls |-> urls]

(* The tool's own timeout, or fetch's asyncio.timeout: what was found so    *)
(* far is lost.                                                            *)
TimesOut ==
    /\ pc \in Searching \cup Fetching
    /\ Ends("timed out", <<>>)
    /\ UNCHANGED <<found, page, redirects, tries, attempts>>

-----------------------------------------------------------------------------
(* CompositeSearchProvider.search *)

searching == <<page, redirects, tries, attempts>>

Search ==
    /\ pc = "called"
    /\ pc' \in {"wttr", "searxng"}      \* is it a question about the weather?
    /\ UNCHANGED <<found, answer, searching>>

(* seen_urls: the first result of each URL counts. *)
Distinct(urls) ==
    LET kept[n \in 0 .. Len(urls)] ==
          IF n = 0 THEN <<>>
          ELSE IF \E k \in DOMAIN kept[n - 1] : kept[n - 1][k] = urls[n] THEN kept[n - 1]
          ELSE Append(kept[n - 1], urls[n])
    IN  kept[Len(urls)]

Combined_DuckDuckGoFirst(results) ==
    Distinct(results["ddg"] \o results["weather"] \o results["wiki"])

(* Weather first, then Wikipedia, then DuckDuckGo. *)
Combined(results) ==
    Distinct(results["weather"] \o results["wiki"] \o results["ddg"])

Answers(results) ==
    LET all == Combined(results)
    IN  IF all = <<>> THEN Ends("nothing found", <<>>)
        ELSE Ends("results", UpTo(MaxResults, all))

(* wttr.in, then the two requests of Open-Meteo. *)
WeatherAnswers ==
    /\ pc \in {"wttr", "geocoding", "open-meteo"}
    /\ \/ /\ pc # "geocoding"
          /\ \E url \in Urls : found' = [found EXCEPT !["weather"] = <<url>>]
          /\ pc' = "searxng"
       \/ /\ pc' = CASE pc = "wttr" -> "geocoding"
                     [] pc = "geocoding" -> "open-meteo"
                     [] pc = "open-meteo" -> "searxng"
          /\ UNCHANGED found
       \/ pc = "geocoding" /\ pc' = "searxng" /\ UNCHANGED found
    /\ UNCHANGED <<answer, searching>>

(* What the local engine finds is the answer, whatever was found before. *)
SearxngAnswers ==
    /\ pc = "searxng"
    /\ \/ \E urls \in Found \ {<<>>} :
             /\ found' = [found EXCEPT !["searxng"] = urls]
             /\ Ends("results", urls)
       \/ pc' = "ddg html" /\ UNCHANGED <<found, answer>>
    /\ UNCHANGED searching

(* Wikipedia is asked, for two results, only when DuckDuckGo leaves room    *)
(* and there is no weather; what comes is not counted again.               *)
DuckDuckGoAnswers ==
    /\ pc \in {"ddg html", "ddg lite"}
    /\ \E urls \in Found :
          LET results == [found EXCEPT !["ddg"] = urls]
          IN  /\ found' = results
              /\ IF urls = <<>> /\ pc = "ddg html" THEN pc' = "ddg lite" /\ UNCHANGED answer
                 ELSE IF Len(urls) < MaxResults /\ results["weather"] = <<>>
                 THEN pc' = "wiki" /\ UNCHANGED answer
                 ELSE Answers(results)
    /\ UNCHANGED searching

WikipediaAnswers ==
    /\ pc = "wiki"
    /\ \E urls \in Found :
          LET results == [found EXCEPT !["wiki"] = urls]
          IN  found' = results /\ Answers(results)
    /\ UNCHANGED searching

-----------------------------------------------------------------------------
(* BuiltinFetchProvider.fetch *)

Fetch ==
    /\ pc = "called"
    /\ pc' = "resolve" /\ page' \in Urls
    /\ UNCHANGED <<found, answer, redirects, tries, attempts>>

(* _resolve_and_validate_public_ips: every address must be a public one. *)
Resolved ==
    /\ pc = "resolve"
    /\ pc' = "connect" /\ tries' \in 1 .. MaxAddresses
    /\ UNCHANGED <<found, answer, page, redirects, attempts>>

NotResolved ==
    /\ pc = "resolve"
    /\ Ends("refused", <<>>)
    /\ UNCHANGED <<found, page, redirects, tries, attempts>>

(* A connection that fails leaves the next address. *)
ConnectFails ==
    /\ pc = "connect" /\ tries > 0
    /\ tries' = tries - 1 /\ attempts' = attempts + 1
    /\ UNCHANGED <<pc, found, answer, page, redirects>>

NoAddressLeft ==
    /\ pc = "connect" /\ tries = 0
    /\ Ends("unreachable", <<>>)
    /\ UNCHANGED <<found, page, redirects, tries, attempts>>

(* The answer comes, or an error that is not one of the connection alone. *)
Connected ==
    /\ pc = "connect" /\ tries > 0
    /\ attempts' = attempts + 1
    /\ \/ pc' = "response" /\ UNCHANGED answer
       \/ Ends("unreachable", <<>>)
    /\ UNCHANGED <<found, page, redirects, tries>>

(* Too long, or of a type that is not allowed: looked at before redirects. *)
Unacceptable ==
    /\ pc = "response"
    /\ Ends("too big", <<>>)
    /\ UNCHANGED <<found, page, redirects, tries, attempts>>

Redirected ==
    /\ pc = "response" /\ redirects < MaxRedirects
    /\ redirects' = redirects + 1
    /\ page' \in Urls /\ pc' = "resolve" /\ tries' = 0
    /\ UNCHANGED <<found, answer, attempts>>

TooManyRedirects ==
    /\ pc = "response" /\ redirects = MaxRedirects
    /\ Ends("too many redirects", <<>>)
    /\ UNCHANGED <<found, page, redirects, tries, attempts>>

Fetched ==
    /\ pc = "response"
    /\ Ends("page", <<page>>)
    /\ UNCHANGED <<found, page, redirects, tries, attempts>>

Next ==
    \/ Search \/ WeatherAnswers \/ SearxngAnswers \/ DuckDuckGoAnswers \/ WikipediaAnswers
    \/ Fetch \/ Resolved \/ NotResolved \/ ConnectFails \/ NoAddressLeft \/ Connected
    \/ Unacceptable \/ Redirected \/ TooManyRedirects \/ Fetched \/ TimesOut

-----------------------------------------------------------------------------
(* Whatever the sources return and however much of it is cut off, an answer *)
(* names nothing that was not found and, without the local engine, names   *)
(* no result twice and has the weather or the Wikipedia entry first; a     *)
(* search finds nothing only when no source did (CompositeSearchProvider). *)
(* A fetch connects at most so many times for each of its hops.            *)
WhatWasFoundIsAnswered ==
    LET somewhere == UNION {ToSet(found[s]) : s \in Sources}
        first == found["weather"] \o found["wiki"]
    IN  /\ answer.how = "results" =>
             /\ ToSet(answer.urls) \subseteq somewhere
             /\ answer.urls # <<>> /\ Len(answer.urls) <= MaxResults
             /\ found["searxng"] = <<>> =>
                  /\ IsInjective(answer.urls)
                  /\ first # <<>> => Head(answer.urls) = Head(first)
        /\ answer.how = "nothing found" => somewhere = {}
        /\ attempts <= MaxAddresses * (redirects + 1)
=============================================================================
