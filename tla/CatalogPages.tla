---------------------------- MODULE CatalogPages ----------------------------
(* Searching the catalog, one SQLite page at a time over the network: the  *)
(* browser's worker, scheduler and VFS (packages/catalog-web), the         *)
(* desktop's VFS (catalog.rs), and the search view that types ahead of     *)
(* them.  The browser serializes its queries on one handle and asks for    *)
(* the cancel epoch per read; the desktop runs every query on a connection *)
(* of its own with the epoch it started at, over one shared page cache.    *)
EXTENDS Naturals, Sequences, FiniteSets, SequencesExt

CONSTANTS
  PageCount,               \* pages of the catalog
  CachePages,              \* PAGE_CACHE_PAGES, PAGE_CACHE_CHUNKS
  PrefetchPages, MinRun,   \* PREFETCH_PAGES, PREFETCH_MIN_RUN
  Shells,                  \* the shells the instance explores
  Texts,                   \* queries long enough to run
  Nowhere,                 \* no page was read yet
  Queries,                 \* calls to the catalog, in the order they are made
  PagesPlans                    \* bounds of a behaviour: keystrokes, failed fetches and other
                           \* queries left, reads of a query, the pages it may read

ASSUME PagesAssumption ==
  /\ Shells \subseteq {"web", "desktop"} /\ Queries \subseteq Nat
  /\ CachePages \in Nat /\ CachePages > PrefetchPages /\ PrefetchPages \in Nat
  /\ PageCount \in Nat
  /\ PagesPlans \subseteq [typed : Nat, lost : Nat, others : Nat, reads : Nat,
                           pages : SUBSET (1..PageCount)]

VARIABLES
  shell,    \* which shell runs
  opened,   \* the worker's open: pending, open or failed
  epoch,    \* cancel epoch
  cache,    \* page cache, least recently used first
  calls,    \* every query: what it is, whose, and how far
  view,     \* the search view: text, ticket (reqSeq), armed (timer), fetching, done
  rows,     \* the texts whose hits are on screen
  offline,  \* a search failed while the hits of another text were kept
  missed,   \* a page was not resident when it was read
  budget    \* bounds left

pagesVars == <<shell, opened, epoch, cache, calls, view, rows, offline, missed, budget>>

Pages == 1..PageCount
Unmade == [kind |-> "none", text |-> "", ticket |-> 0, first |-> TRUE, phase |-> "unmade",
           epoch |-> 0, at |-> Nowhere, run |-> 0, batch |-> {}, reads |-> 0, crowd |-> FALSE]
Running(c) == calls[c].phase \in {"ready", "fetching", "fetched"}
Live == {c \in Queries : Running(c)}

PagesInit ==
  /\ shell \in Shells /\ opened = IF shell = "web" THEN "pending" ELSE "open"
  /\ epoch = 0 /\ cache = <<>> /\ calls = [c \in Queries |-> Unmade]
  /\ view = [text |-> "", ticket |-> 0, armed |-> FALSE, fetching |-> FALSE, done |-> FALSE]
  /\ rows = {} /\ offline = FALSE /\ missed = FALSE /\ budget \in PagesPlans

-----------------------------------------------------------------------------
(* A keystroke: the old result is invalidated, its fetches are cancelled,  *)
(* and the timer is armed; too short a text clears the screen.             *)
Type(t) ==
  /\ budget.typed > 0 /\ budget' = [budget EXCEPT !.typed = @ - 1] /\ epoch' = epoch + 1
  /\ view' = [text |-> t, ticket |-> view.ticket + 1, armed |-> t # "",
              fetching |-> t # "", done |-> FALSE]
  /\ rows' = IF t = "" THEN {} ELSE rows
  /\ offline' = (offline /\ t # "")
  /\ UNCHANGED <<shell, opened, cache, calls, missed>>

(* A call goes to the next free slot, behind the open in the browser.      *)
MakeCall(kind, text, ticket) ==
  LET free == {c \in Queries : calls[c].phase = "unmade"} IN
  /\ free # {}
  /\ calls' = [calls EXCEPT ![CHOOSE c \in free : \A d \in free : c <= d] =
       [Unmade EXCEPT !.kind = kind, !.text = text, !.ticket = ticket,
                      !.phase = IF opened = "failed" THEN "settled" ELSE "queued"]]

(* The timer fires: a search under a new ticket.                           *)
Search ==
  /\ view.armed /\ MakeCall("search", view.text, view.ticket + 1)
  /\ view' = [view EXCEPT !.armed = FALSE, !.ticket = @ + 1,
                          !.fetching = opened # "failed"]
  /\ offline' = (offline \/ (opened = "failed" /\ rows # {}))
  /\ UNCHANGED <<shell, opened, epoch, cache, rows, missed, budget>>

(* Scrolling to the end asks for more of the text typed last.              *)
LoadMore ==
  /\ ~view.fetching /\ ~view.done /\ rows # {}
  /\ MakeCall("more", view.text, view.ticket)
  /\ view' = [view EXCEPT !.fetching = opened # "failed"]
  /\ UNCHANGED <<shell, opened, epoch, cache, rows, offline, missed, budget>>

(* The rest of the UI queries too: genres, formats, the tracks of a list.  *)
Other ==
  /\ budget.others > 0 /\ budget' = [budget EXCEPT !.others = @ - 1]
  /\ MakeCall("other", "", 0)
  /\ UNCHANGED <<shell, opened, epoch, cache, view, rows, offline, missed>>

(* Opening the manifest succeeds or rejects every call that waits for it.  *)
Mine(c) == calls[c].ticket = view.ticket
Open(ok) ==
  /\ opened = "pending" /\ opened' = IF ok THEN "open" ELSE "failed"
  /\ calls' = IF ok THEN calls ELSE [c \in Queries |->
       IF calls[c].phase = "queued" THEN [calls[c] EXCEPT !.phase = "settled"] ELSE calls[c]]
  /\ LET hit == {c \in Queries : calls[c].phase = "queued" /\ Mine(c)}
     IN /\ view' = IF ok \/ hit = {} THEN view ELSE [view EXCEPT !.fetching = FALSE]
        /\ offline' = (offline \/ (~ok /\ rows # {} /\ \E c \in hit : calls[c].kind = "search"))
  /\ UNCHANGED <<shell, epoch, cache, rows, missed, budget>>

(* The browser's queue runs one query at a time, in order; the desktop     *)
(* starts each at once and remembers the epoch.                            *)
Turn(c) == \/ shell = "desktop"
           \/ Live = {} /\ \A d \in Queries : d < c => calls[d].phase # "queued"
Begun(c) ==
  /\ calls[c].phase = "queued" /\ opened = "open" /\ Turn(c)
  /\ calls' = [d \in Queries |->
       IF d = c THEN [calls[c] EXCEPT !.phase = "ready", !.epoch = epoch, !.crowd = Live # {}]
       ELSE IF Running(d) THEN [calls[d] EXCEPT !.crowd = TRUE] ELSE calls[d]]
  /\ UNCHANGED <<shell, opened, epoch, cache, view, rows, offline, missed, budget>>

(* How a query ends: the view takes the outcome only under its ticket.     *)
Settled(c, failed) ==
  /\ calls' = [calls EXCEPT ![c].phase = "settled", ![c].batch = {}]
  /\ IF calls[c].kind = "other" \/ ~Mine(c) THEN UNCHANGED <<view, rows, offline>>
     ELSE /\ \E done \in BOOLEAN :
               view' = [view EXCEPT !.fetching = FALSE, !.done = IF failed THEN @ ELSE done]
          /\ rows' = IF ~failed /\ calls[c].kind = "search" /\ calls[c].first THEN {} ELSE rows
          /\ offline' = (offline \/ (failed /\ calls[c].kind = "search" /\ calls[c].first
                                     /\ rows # {}))
Cancelled(c) == calls[c].epoch # epoch

-----------------------------------------------------------------------------
(* The cache: a hit becomes most recent, a new page pushes the oldest out. *)
Without(s, p) == RemoveAt(s, CHOOSE i \in DOMAIN s : s[i] = p)
Unrefreshed(s, p) == s  \* a lookup that keeps its place
Refreshed(s, p) == IF Contains(s, p) THEN Append(Without(s, p), p) ELSE s
Stored(s, p) == IF Contains(s, p) THEN s
                ELSE IF Len(s) < CachePages THEN Append(s, p) ELSE Append(Tail(s), p)
StoredUpTo(s, order) ==
  LET after[n \in 0..Len(order)] == IF n = 0 THEN s ELSE Stored(after[n - 1], order[n]) IN after
StoredAll(s, order) == StoredUpTo(s, order)[Len(order)]

(* The pages a read of p asks for: read-ahead only inside a forward run.   *)
Advanced(c, p) == IF calls[c].at # Nowhere /\ p \in {calls[c].at, calls[c].at + 1}
                  THEN calls[c].run + 1 ELSE 0
LastWanted(p, run) == IF run < MinRun THEN p
                      ELSE IF p + PrefetchPages <= PageCount THEN p + PrefetchPages ELSE PageCount
WantedPages(p, run) == p..LastWanted(p, run)

(* scheduler.ts ensure: every wanted page is looked up (and so refreshed), *)
(* the missing ones are one batch; with none missing the page is served.   *)
LookedUp(s, p, n) ==
  LET after[k \in 0..n] == IF k = 0 THEN s ELSE Refreshed(after[k - 1], p + k - 1) IN after
ReadWeb(c, p) ==
  LET run == Advanced(c, p)
      wanted == LastWanted(p, run) - p + 1
      kept == LookedUp(cache, p, wanted)[wanted]
      missing == {q \in WantedPages(p, run) : ~Contains(cache, q)}
  IN /\ shell = "web" /\ cache' = IF missing = {} THEN Refreshed(kept, p) ELSE kept
     /\ calls' = [calls EXCEPT ![c] = [calls[c] EXCEPT
          !.at = p, !.run = run, !.reads = @ + 1, !.batch = missing, !.epoch = epoch,
          !.phase = IF missing = {} THEN "ready" ELSE "fetching"]]
     /\ UNCHANGED <<view, rows, offline>>

(* catalog.rs ensure_pages: a cancelled query stops; a page that is there  *)
(* is not refreshed, and asks for no read-ahead.                           *)
ReadDesktop(c, p) ==
  LET run == Advanced(c, p) IN
  /\ shell = "desktop" /\ UNCHANGED cache
  /\ IF Cancelled(c) THEN Settled(c, TRUE)
     ELSE /\ calls' = [calls EXCEPT ![c] = [calls[c] EXCEPT
               !.at = p, !.run = run, !.reads = @ + 1,
               !.batch = IF Contains(cache, p) THEN {}
                         ELSE {q \in WantedPages(p, run) : ~Contains(cache, q)},
               !.phase = IF Contains(cache, p) THEN "fetched" ELSE "fetching"]]
          /\ UNCHANGED <<view, rows, offline>>

Read(c, p) ==
  /\ calls[c].phase = "ready" /\ calls[c].reads < budget.reads
  /\ ReadWeb(c, p) \/ ReadDesktop(c, p)
  /\ UNCHANGED <<shell, opened, epoch, missed, budget>>

(* The batch is back.  A superseded or failed one stores nothing and fails *)
(* its query; the browser reads the page in the same turn, the desktop     *)
(* takes the lock of the cache again.                                      *)
Arrives(c, order) ==
  LET stored == StoredAll(cache, order) IN
  /\ cache' = IF shell = "web" THEN Refreshed(stored, calls[c].at) ELSE stored
  /\ calls' = [calls EXCEPT ![c].phase = IF shell = "web" THEN "ready" ELSE "fetched",
                            ![c].batch = {}]
  /\ missed' = (missed \/ (shell = "web" /\ ~Contains(stored, calls[c].at)))
  /\ UNCHANGED <<view, rows, offline>>

Fetched(c) ==
  /\ calls[c].phase = "fetching"
  /\ IF Cancelled(c) THEN Settled(c, TRUE) /\ UNCHANGED <<cache, missed>>
     ELSE \E order \in SetToSeqs(calls[c].batch) :
            /\ shell = "web" => \A i, j \in DOMAIN order : i < j => order[i] < order[j]
            /\ Arrives(c, order)
  /\ UNCHANGED <<shell, opened, epoch, budget>>

FetchFails(c) ==
  /\ calls[c].phase = "fetching" /\ budget.lost > 0 /\ budget' = [budget EXCEPT !.lost = @ - 1]
  /\ Settled(c, TRUE)
  /\ UNCHANGED <<shell, opened, epoch, cache, missed>>

(* The desktop takes the page; pushed out meanwhile, the query fails.      *)
Take(c) ==
  /\ calls[c].phase = "fetched" /\ cache' = Refreshed(cache, calls[c].at)
  /\ IF Contains(cache, calls[c].at)
     THEN /\ calls' = [calls EXCEPT ![c].phase = "ready"]
          /\ UNCHANGED <<view, rows, offline, missed>>
     ELSE Settled(c, TRUE) /\ missed' = (missed \/ ~calls[c].crowd)
  /\ UNCHANGED <<shell, opened, epoch, budget>>

(* A hit reaches the view: the first of a search replaces what is shown.   *)
Row(c) ==
  /\ calls[c].phase = "ready" /\ calls[c].reads > 0 /\ calls[c].kind # "other"
  /\ shell = "desktop" => ~Cancelled(c)
  /\ Mine(c)
  /\ rows' = IF calls[c].kind = "search" /\ calls[c].first THEN {calls[c].text}
             ELSE rows \cup {calls[c].text}
  /\ offline' = (offline /\ ~(calls[c].kind = "search" /\ calls[c].first))
  /\ calls' = [calls EXCEPT ![c].first = FALSE]
  /\ UNCHANGED <<shell, opened, epoch, cache, view, missed, budget>>

Finish(c) ==
  /\ calls[c].phase = "ready" /\ Settled(c, FALSE)
  /\ UNCHANGED <<shell, opened, epoch, cache, missed, budget>>

CallStep(c) == Begun(c) \/ Fetched(c) \/ Take(c) \/ Finish(c)
PagesNext ==
  \/ \E t \in Texts \cup {""} : Type(t)
  \/ Search \/ LoadMore
  \/ Other
  \/ \E ok \in BOOLEAN : Open(ok)
  \/ \E c \in Queries : CallStep(c) \/ FetchFails(c) \/ Row(c) \/ \E p \in budget.pages : Read(c, p)

(* The worker opens, a fetch answers or fails, and a query comes to its end.*)
PagesWork == (\E ok \in BOOLEAN : Open(ok)) \/ \E c \in Queries : CallStep(c)
PagesSpec == PagesInit /\ [][PagesNext]_pagesVars /\ WF_pagesVars(PagesWork)

-----------------------------------------------------------------------------
PagesTypeOK ==
  /\ shell \in Shells /\ opened \in {"pending", "open", "failed"}
  /\ cache \in Seq(Pages) /\ Len(cache) <= CachePages /\ IsInjective(cache)
  /\ rows \subseteq Texts /\ {offline, missed} \subseteq BOOLEAN
  /\ \A c \in Queries : calls[c].phase \in
       {"unmade", "queued", "ready", "fetching", "fetched", "settled"}

(* A page that was ensured is there when it is read, with the cache full   *)
(* and the read-ahead pushing pages out: on the desktop unless another     *)
(* query ran beside it, which may fail the read (catalog.rs:457).          *)
Resident == ~missed

(* The screen never mixes the hits of two texts, however late the rows of  *)
(* a superseded search come: unless a search failed and the old hits were  *)
(* kept, for then scrolling appends hits of the new text to them.          *)
OneTextShown == Cardinality(rows) <= 1 \/ offline

(* Every query comes to an end, also behind cancelled and failed ones, and *)
(* also when the catalog never opens.                                      *)
Unsettled == \E c \in Queries : calls[c].phase \notin {"unmade", "settled"}
QueriesSettle == []<>~Unsettled

PagesServe == [](Resident /\ OneTextShown) /\ QueriesSettle
=============================================================================
