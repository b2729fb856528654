-------------------------------- MODULE Crawl ---------------------------------
(***************************************************************************)
(* The crawl that feeds an ingestion run (crates/oracle-automate-ingest:   *)
(* crawler.rs, robots.rs, rate_limit.rs), in front of Ingestion.           *)
(*                                                                         *)
(* The ingest program walks a directory.  The crate also has the parts of  *)
(* a crawl over HTTP: robots.txt, a rate limiter per host and a            *)
(* conditional fetch.  Several fetchers that use them as their comments    *)
(* say (ask robots.txt, acquire a slot, sleep, fetch) are the deployment's *)
(* and external here.                                                      *)
(*                                                                         *)
(* A path is a sequence of slashes, underscores and the names between      *)
(* them; an agent's name is a sequence too, for both are compared by       *)
(* prefix.  Time is in units of the shortest interval.                     *)
(*                                                                         *)
(* Operators named Bad... are mutants, plausible bugs of the definition    *)
(* that follows them, and no part of the specification.                    *)
(***************************************************************************)
EXTENDS Ingestion, Functions, SequencesExt

CONSTANTS
  Sites,           \* what a run may crawl: [mode, root, files, urls, robots]
  Fetchers,        \* concurrent fetchers of a crawl over HTTP
  Agent,           \* our user agent
  DefaultInterval, \* the limiter's interval for a host without one of its own
  Overrides,       \* intervals the operator may set for a host
  MaxTime          \* bound: the clock of one crawl

VARIABLES
  site,      \* what this run crawls
  at,        \* "crawling", or "over" once the pipeline has the documents
  stack,     \* crawl_directory: what is still to be visited
  found,     \* the documents so far
  clock,
  buckets,   \* host -> [ready, interval]
  knows,     \* hosts whose robots.txt was read
  frontier,  \* URLs not taken yet
  fetcher,   \* fetcher -> where it is
  visited,   \* history: the URLs whose page was asked for
  granted    \* history: host -> the slots granted: [asked, slot, interval]

limiter == <<clock, buckets, granted>>
web == <<limiter, knows, frontier, fetcher, visited>>
crawl == <<site, at, stack, found, web>>
allVars == <<vars, crawl>>

-----------------------------------------------------------------------------
(* parse_help_portal_html.  A page gives the text of the first element of  *)
(* every selector.                                                         *)

HasWords(text) == \E i \in DOMAIN text : text[i] # Space

\* pick_text: the first selector in the list whose element has text.
PickText(page, selectors) ==
  LET hits == {i \in DOMAIN selectors : HasWords(page[selectors[i]])}
  IN  IF hits = {} THEN <<>> ELSE page[selectors[CHOOSE i \in hits : IsFirst(i, hits)]]

\* split_whitespace and join: single blanks, none at the ends.
Joined(text) ==
  LET kept == {i \in DOMAIN text : \/ text[i] # Space
                                   \/ /\ i > 1 /\ text[i - 1] # Space
                                      /\ \E j \in i..Len(text) : text[j] # Space}
  IN  [n \in 1..Cardinality(kept) |->
         text[CHOOSE i \in kept : Cardinality({j \in kept : j <= i}) = n]]

ParsePage(page) ==
  [ok   |-> HasWords(PickText(page, <<"h1", "title">>))
            /\ HasWords(PickText(page, <<"main", "article", "content", "body">>)),
   body |-> Joined(PickText(page, <<"main", "article", "content", "body">>))]

Document(id, page) == [id |-> id, body |-> ParsePage(page).body]

\* derive_id_from_url: no slash at the beginning, underscores for the others.
DeriveId(path) ==
  [i \in 1..Len(path) - 1 |-> IF path[i + 1] = "/" THEN "_" ELSE path[i + 1]]

-----------------------------------------------------------------------------
(* What may be crawled.  An entry is [kind, name, entries, page]; kind     *)
(* "gone" is one whose metadata or listing cannot be read.  The files of a *)
(* site are its root and all that lies in its directories, at any depth.   *)

\* UTF-8: no text, and nothing after an ASCII character, begins inside one.
IsText(text) ==
  /\ text \in Seq(Int)
  /\ \A i \in DOMAIN text : text[i] < 0 => i > 1 /\ text[i - 1] \notin {Space, Stop}
Selectors == {"h1", "title", "main", "article", "content", "body"}
IsPage(page) == \A s \in Selectors : IsText(page[s])

Listing(entry) == IF entry.kind = "directory" THEN entry.entries ELSE {}

ASSUME CrawlAssumption ==
  /\ DefaultInterval \in Nat /\ Overrides \subseteq Nat /\ MaxTime \in Nat
  /\ \A s \in Sites :
       /\ s.root \in s.files
       /\ \A e \in s.files :
            /\ IsFiniteSet(Listing(e)) /\ Listing(e) \subseteq s.files
            /\ e.kind = "html" => e.name \in Ids /\ IsPage(e.page)
       /\ \A u \in s.urls : /\ DeriveId(u.path) \in Ids /\ IsPage(u.page)
                            /\ u.path \in Seq(STRING) /\ u.host \in DOMAIN s.robots
       /\ \A h \in DOMAIN s.robots :
            s.robots[h] \in Seq([key : STRING, value : Seq(STRING), secs : Int])
  /\ Agent \in Seq(STRING) /\ Agent # <<"*">>

-----------------------------------------------------------------------------
(* robots.txt.  A line is [key, value, secs], secs a Crawl-delay's number   *)
(* and -1 when it is none; comments and malformed lines are no lines.       *)

NoGroup == [allow |-> {}, disallow |-> {}, delay |-> -1]
IsRule(line) == line.key \in {"allow", "disallow", "crawl-delay"}

Extended(group, line) ==
  CASE line.key = "allow" /\ line.value # <<>>    -> [group EXCEPT !.allow = @ \cup {line.value}]
    [] line.key = "disallow" /\ line.value # <<>> -> [group EXCEPT !.disallow = @ \cup {line.value}]
    [] line.key = "crawl-delay" /\ line.secs >= 0 -> [group EXCEPT !.delay = line.secs]
    [] OTHER                                      -> group

\* User-agent lines after a rule begin a new group.
BadAgentsAfter(st, line) == st.agents \cup {line.value}
AgentsAfter(st, line) == (IF st.rule THEN {} ELSE st.agents) \cup {line.value}

ReadRobotsLine(st, line) ==
  IF line.key = "user-agent" THEN [st EXCEPT !.agents = AgentsAfter(st, line), !.rule = FALSE]
  ELSE IF ~IsRule(line) THEN st
  ELSE [st EXCEPT !.rule = TRUE,
          !.groups = [a \in DOMAIN st.groups \cup st.agents |->
                        LET group == IF a \in DOMAIN st.groups THEN st.groups[a] ELSE NoGroup
                        IN  IF a \in st.agents THEN Extended(group, line) ELSE group]]

\* What the parser knows after each line.
Parsing(lines) ==
  LET after[n \in 0..Len(lines)] ==
        IF n = 0 THEN [agents |-> {}, rule |-> FALSE, groups |-> [a \in {} |-> NoGroup]]
        ELSE ReadRobotsLine(after[n - 1], lines[n])
  IN  after

ParseRobots(lines) == Parsing(lines)[Len(lines)].groups

Anybody == <<"*">>

\* The longest agent that ours begins with (our own is the longest), or "*".
MatchingGroup(groups) ==
  LET ours == {a \in DOMAIN groups \ {Anybody} : IsPrefix(a, Agent)}
      best == CHOOSE a \in ours : \A b \in ours : Len(b) <= Len(a)
  IN  IF ours # {} THEN groups[best]
      ELSE IF Anybody \in DOMAIN groups THEN groups[Anybody] ELSE NoGroup

\* The length of the longest rule that the path begins with, -1 for none.
LongestMatch(rules, path) ==
  LET hits == {Len(r) : r \in {q \in rules : IsPrefix(q, path)}}
  IN  IF hits = {} THEN -1 ELSE CHOOSE n \in hits : \A k \in hits : k <= n

IsAllowed(groups, path) ==
  LET group == MatchingGroup(groups)
  IN  LongestMatch(group.allow, path) >= LongestMatch(group.disallow, path)

-----------------------------------------------------------------------------

Idle == [at |-> "idle", url |-> [host |-> "none", path |-> <<>>], wakes |-> 0]

NoCrawl ==
  /\ stack = <<>> /\ found = <<>> /\ clock = 0
  /\ buckets = Empty /\ knows = {} /\ frontier = {} /\ visited = {}
  /\ fetcher = [f \in Fetchers |-> Idle] /\ granted = Empty

StartCrawl(s) ==
  /\ site' = s /\ at' = "crawling"
  /\ stack' = IF s.mode = "directory" THEN <<s.root>> ELSE <<>>
  /\ frontier' = s.urls
  /\ found' = <<>> /\ clock' = 0 /\ buckets' = Empty /\ knows' = {} /\ visited' = {}
  /\ fetcher' = [f \in Fetchers |-> Idle] /\ granted' = Empty

CrawlInit ==
  /\ Init /\ queue = <<>>
  /\ site \in Sites /\ at = "starting" /\ NoCrawl

\* main builds its store and its embedder, then crawls.
BeginCrawl ==
  /\ at = "starting"
  /\ StartCrawl(site)
  /\ UNCHANGED vars

-----------------------------------------------------------------------------
(* crawl_directory.                                                        *)

BadAfterBadPage == <<>>
AfterBadPage == found

Visit ==
  /\ at = "crawling" /\ stack # <<>>
  /\ LET entry == Last(stack)
     IN  /\ entry.kind # "gone"
         /\ \E order \in SetToSeqs(Listing(entry)) : stack' = Front(stack) \o order
         /\ found' = IF entry.kind # "html" THEN found
                     ELSE IF ParsePage(entry.page).ok
                     THEN Append(found, Document(entry.name, entry.page)) ELSE AfterBadPage
  /\ UNCHANGED <<vars, site, at, web>>

\* Any error of the walk ends the run.
VisitFails ==
  /\ at = "crawling" /\ stack # <<>> /\ Last(stack).kind = "gone"
  /\ at' = "over" /\ pc' = "failed"
  /\ stack' = <<>> /\ found' = <<>>
  /\ UNCHANGED <<config, backend, runs, queue, doc, start, segs, batched, embedded, report,
                 short, store, site, web>>

-----------------------------------------------------------------------------
(* The rate limiter.                                                       *)

Bucket(host, interval) ==
  IF host \in DOMAIN buckets THEN buckets[host] ELSE [ready |-> clock, interval |-> interval]

WithBucket(host, bucket) ==
  [h \in DOMAIN buckets \cup {host} |-> IF h = host THEN bucket ELSE buckets[h]]

\* set_interval: the interval changes, the next slot stays.
SetInterval(host, interval) ==
  buckets' = WithBucket(host, [Bucket(host, interval) EXCEPT !.interval = interval])

Later(a, b) == IF a > b THEN a ELSE b

\* The slot after the one granted; the mutant forgets the slots planned ahead.
BadNextReady(bucket) == clock + bucket.interval
NextReady(bucket) == Later(bucket.ready, clock) + bucket.interval

\* acquire_wait: the wait ends at the slot that is returned here.
Slot(bucket) == Later(bucket.ready, clock)

AcquireSlot(host) ==
  LET bucket == Bucket(host, DefaultInterval)
      grant  == [asked |-> clock, slot |-> Slot(bucket), interval |-> bucket.interval]
      before == IF host \in DOMAIN granted THEN granted[host] ELSE <<>>
  IN  /\ buckets' = WithBucket(host, [bucket EXCEPT !.ready = NextReady(bucket)])
      /\ granted' = [h \in DOMAIN granted \cup {host} |->
                       IF h = host THEN Append(before, grant) ELSE granted[h]]

-----------------------------------------------------------------------------
(* A crawl over HTTP.                                                      *)

Crawling == at = "crawling" /\ site.mode = "web"

\* The host's robots.txt is read and its Crawl-delay, if any, set.
ReadRobots(host) ==
  LET delay == MatchingGroup(ParseRobots(site.robots[host])).delay
  IN  /\ Crawling /\ host \notin knows
      /\ knows' = knows \cup {host}
      /\ IF delay \in Nat THEN SetInterval(host, delay) ELSE UNCHANGED buckets
      /\ UNCHANGED <<vars, site, at, stack, found, clock, granted, frontier, fetcher, visited>>

Override(host) ==
  /\ Crawling /\ host \in knows /\ host \in DOMAIN granted
  /\ \E interval \in Overrides : interval # Bucket(host, interval).interval
                                 /\ SetInterval(host, interval)
  /\ UNCHANGED <<vars, site, at, stack, found, clock, granted, knows, frontier, fetcher, visited>>

Take(f, url) ==
  /\ Crawling /\ fetcher[f].at = "idle" /\ url \in frontier /\ url.host \in knows
  /\ frontier' = frontier \ {url}
  /\ IF IsAllowed(ParseRobots(site.robots[url.host]), url.path)
     THEN /\ AcquireSlot(url.host)
          /\ fetcher' = [fetcher EXCEPT ![f] =
               [at |-> "sleeping", url |-> url, wakes |-> Slot(Bucket(url.host, DefaultInterval))]]
     ELSE UNCHANGED <<buckets, granted, fetcher>>
  /\ UNCHANGED <<vars, site, at, stack, found, clock, knows, visited>>

\* fetch_url: the page, nothing for 304, or an error the fetcher skips.
Fetch(f) ==
  /\ Crawling /\ fetcher[f].at = "sleeping" /\ clock >= fetcher[f].wakes
  /\ LET url == fetcher[f].url
     IN  /\ visited' = visited \cup {url}
         /\ \E status \in {"ok", "not modified", "error"} :
              found' = IF status = "ok" /\ ParsePage(url.page).ok
                       THEN Append(found, Document(DeriveId(url.path), url.page)) ELSE found
  /\ fetcher' = [fetcher EXCEPT ![f] = Idle]
  /\ UNCHANGED <<vars, site, at, stack, limiter, knows, frontier>>

Tick ==
  /\ Crawling /\ clock < MaxTime
  /\ clock' = clock + 1
  /\ UNCHANGED <<vars, site, at, stack, found, buckets, granted, knows, frontier, fetcher,
                 visited>>

-----------------------------------------------------------------------------

\* The documents go to the pipeline.
HandOver ==
  /\ at = "crawling"
  /\ stack = <<>> /\ frontier = {} /\ \A f \in Fetchers : fetcher[f] = Idle
  /\ queue' = found /\ at' = "over"
  /\ stack' = <<>> /\ found' = <<>> /\ clock' = 0
  /\ buckets' = Empty /\ knows' = {} /\ frontier' = {} /\ visited' = {}
  /\ fetcher' = [f \in Fetchers |-> Idle] /\ granted' = Empty
  /\ UNCHANGED <<config, backend, runs, doc, pc, start, segs, batched, embedded, report, short,
                 store, site>>

\* The program is run again, at any point, on what its source is by then.
CrawlAgain == RunAgain /\ \E s \in Sites : s.mode = site.mode /\ StartCrawl(s)

ProgramStep == BeginCrawl \/ Visit \/ VisitFails \/ HandOver

PipelineStep ==
  /\ at = "over"
  /\ BeginDocument \/ Cut \/ EmbedBatch \/ EmbedFails \/ StoreInMemory \/ StoreInQdrant \/ Finish
  /\ UNCHANGED crawl

CrawlNext ==
  \/ ProgramStep \/ PipelineStep \/ CrawlAgain \/ Tick
  \/ \E host \in DOMAIN site.robots : ReadRobots(host) \/ Override(host)
  \/ \E f \in Fetchers : Fetch(f) \/ \E url \in frontier : Take(f, url)

\* The program runs until it ends; of the fetchers nothing is assumed.
CrawlSpec ==
  /\ CrawlInit /\ [][CrawlNext]_allVars
  /\ WF_allVars(ProgramStep) /\ WF_allVars(PipelineStep)

-----------------------------------------------------------------------------
(* Properties.                                                             *)

\* Fetchers that share a host get slots that lie the host's interval apart,
\* the interval in force when the earlier one was granted, in whatever order
\* they ask and wake and though the interval changes in between; and nobody
\* waits longer than that, whatever goes on at other hosts.
SlotsKeepTheirDistance ==
  \A host \in DOMAIN granted : \A n \in 2..Len(granted[host]) :
    LET earlier == granted[host][n - 1]
        later   == granted[host][n]
        due     == earlier.slot + earlier.interval
    IN  later.slot = (IF later.asked > due THEN later.asked ELSE due)

\* RFC 9309, of the file itself: a rule belongs to a user agent's line before
\* it when no rule and a further user agent's line come between; the agent
\* named most closely counts, and of its rules the longest, allow in a tie.
Belongs(lines, j, i) ==
  /\ j < i /\ lines[j].key = "user-agent" /\ IsRule(lines[i])
  /\ ~\E r, k \in j..i : /\ r < k /\ k < i /\ IsRule(lines[r])
                         /\ lines[k].key = "user-agent"
Forbidden(lines, path) ==
  LET named    == {lines[j].value : j \in {n \in DOMAIN lines :
                                             \E i \in DOMAIN lines : Belongs(lines, n, i)}}
      closest  == {a \in named \ {Anybody} : IsPrefix(a, Agent)}
      Speaks(a) == IF closest = {} THEN a = Anybody
                   ELSE a \in closest /\ \A b \in closest : IsPrefix(b, a)
      RulesOf(key) == {lines[i].value : i \in {n \in DOMAIN lines :
                         /\ lines[n].key = key /\ lines[n].value # <<>>
                         /\ IsPrefix(lines[n].value, path)
                         /\ \E j \in DOMAIN lines : Belongs(lines, j, n) /\ Speaks(lines[j].value)}}
  IN  \E d \in RulesOf("disallow") : \A a \in RulesOf("allow") : Len(a) < Len(d)

\* No page is asked for that the host's robots.txt forbids, and every page it
\* allows is: groups that share rules, agents named by a prefix, rules that
\* overlap.
RobotsAreObeyed ==
  \A url \in visited : ~Forbidden(site.robots[url.host], url.path)
TakenUnlessForbidden ==
  \A url \in site.urls :
    at = "crawling" /\ url \notin frontier \cup {fetcher[f].url : f \in Fetchers}
    => url \in visited \/ Forbidden(site.robots[url.host], url.path)
RobotsAreFollowed == RobotsAreObeyed /\ TakenUnlessForbidden

\* The pages of a directory, at any depth: those of the least set of files
\* that holds the root and the listings of its directories.
Beneath(files, roots) ==
  {e \in files : \A S \in SUBSET files :
     roots \subseteq S /\ (\A d \in S : Listing(d) \subseteq S) => e \in S}
PagesOf(entries) ==
  {Document(e.name, e.page) : e \in {f \in entries : f.kind = "html" /\ ParsePage(f.page).ok}}
Pages == PagesOf(Beneath(site.files, {site.root}))

\* When a run over a directory has ended well, every page of the tree that
\* parses is a document of the store, whatever unreadable pages and other
\* files lie beside it; of the pages that share a file name one is.
EveryPageIsADocument ==
  pc = "done" /\ site.mode = "directory" =>
    /\ {p.id : p \in Pages} = DOMAIN documents
    /\ \A d \in DOMAIN documents : [id |-> d, body |-> documents[d]] \in Pages

\* Every run over a directory ends, and so does one that has its pages.
EveryCrawlEnds ==
  (site.mode = "directory" \/ at = "over") ~> (pc \in {"done", "failed"} \/ Crawling)
=============================================================================
