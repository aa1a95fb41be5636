----------------------------- MODULE AppUpdate ------------------------------
(***************************************************************************)
(* How a page of the app moves to the server's next version: the service   *)
(* worker with its caches (public/sw.js), the page that lets it take over  *)
(* and checks what was loaded (public/pwa.js), and the forced reload       *)
(* (public/index.html).  The browser's part (when a worker is installed,   *)
(* activated, and which requests it gets) is external.                     *)
(***************************************************************************)
EXTENDS Naturals

CONSTANTS
    None,
    MaxVersion,  \* the server's versions are 1..MaxVersion
    MaxLoads     \* how often the page is loaded

VARIABLE x

Versions == 1..MaxVersion
Some     == Versions \cup {None}
Urls     == {"html", "asset"}    \* HTML_URLS, STATIC_ASSETS
Keys     == Urls \cup {"stamped"} \* a page at "/?_=<time>" is a cache entry of its own

TypeOK ==
    /\ x.server \in Versions
    /\ x.installing \in Some /\ x.todo \subseteq Urls   \* the worker being installed
    /\ x.waiting \in Some /\ x.active \in Some
    /\ x.cache \in [Versions -> [Keys -> Some]]  \* shells-static-<version>: what it holds
    /\ x.at \in {"html", "asset", "ready"}       \* how far the page is loaded
    /\ x.page \in [Urls -> Some]                 \* the versions it runs
    /\ x.stamped \in BOOLEAN                     \* its address has a query
    /\ x.stray \in BOOLEAN                       \* its html is not the one the worker keeps
    /\ x.clean \in BOOLEAN                       \* nothing has disturbed its loading
    /\ x.checked \in BOOLEAN                     \* toastUpdated has run
    /\ {x.requested, x.stashing} \subseteq BOOLEAN \* updateRequested; the health request
    /\ x.updatedTo \in Some                      \* shells-updated-to
    /\ x.retry \in BOOLEAN                       \* shells-update-retry
    /\ x.awaits \in Some                         \* pwaReloadAfterUpdate: for this version
    /\ x.forced \in Nat                          \* reloads forced by the check, in a row
    /\ x.loads \in 0..MaxLoads

Empty    == [k \in Keys |-> None]
Unloaded == [u \in Urls |-> None]

Init ==
    x = [server |-> 1, installing |-> None, todo |-> {}, waiting |-> None, active |-> None,
         cache |-> [v \in Versions |-> Empty], at |-> "html", page |-> Unloaded, clean |-> TRUE,
         stamped |-> FALSE, stray |-> FALSE,
         checked |-> FALSE, requested |-> FALSE, stashing |-> FALSE,
         updatedTo |-> None, retry |-> FALSE, awaits |-> None, forced |-> 0, loads |-> 0]

Whole(c) == \E v \in Versions : \A u \in Urls : c[u] = v

\* No worker that has been installed holds less than one whole version.
CachesWhole(s) ==
    \A v \in Versions :
        (v \in {s.active, s.waiting} \/ (v # s.installing /\ s.cache[v] # Empty))
            => Whole(s.cache[v])

Disturbed(s) == IF s.at = "asset" THEN [s EXCEPT !.clean = FALSE] ELSE s

Least(S) == CHOOSE v \in S : \A w \in S : v <= w

Network(s, u, k) ==
    [s EXCEPT !.page[u] = s.server,
              !.cache = IF s.active = None THEN @ ELSE [@ EXCEPT ![s.active][k] = s.server]]

\* Slip: the page comes from the network, its assets from the cache.
CacheFirstAssets(s, u) ==
    LET have == {v \in Versions : s.cache[v][u] # None}
        s1   == [s EXCEPT !.clean = @ /\ CachesWhole(s)]
    IN IF s.active = None \/ u = "html" THEN [s1 EXCEPT !.page[u] = s.server]
       ELSE IF have = {} THEN Network(s1, u, u)
       ELSE [s1 EXCEPT !.page[u] = s.cache[Least(have)][u]]

\* cacheFirst: any cache, the oldest first, else the network and into the cache.
\* The html is looked up with its query, an asset without it.
CacheFirst(s, u) ==
    LET k    == IF u = "html" /\ s.stamped THEN "stamped" ELSE u
        have == {v \in Versions : s.cache[v][k] # None}
        s1   == [s EXCEPT !.clean = @ /\ CachesWhole(s),
                          !.stray = @ \/ (k = "stamped" /\ s.active # None)]
    IN IF s.active = None \/ have = {} THEN Network(s1, u, k)
       ELSE [s1 EXCEPT !.page[u] = s.cache[Least(have)][k]]

-----------------------------------------------------------------------------
\* A load starts: the page's own variables begin anew.
Load(s) ==
    [s EXCEPT !.at = "html", !.page = Unloaded, !.clean = TRUE, !.stray = FALSE,
              !.checked = FALSE, !.requested = FALSE, !.stashing = FALSE,
              !.awaits = None, !.loads = @ + 1]

\* shellsForceReload: no worker and no cache is left.  A reload that has not come
\* about 800 ms later is replaced by one with the time in its address.
ForceReload(s) ==
    \E q \in {s.stamped, TRUE} :
        x' = Load([s EXCEPT !.installing = None, !.todo = {}, !.waiting = None,
                            !.active = None, !.cache = [v \in Versions |-> Empty],
                            !.stamped = q])

MayLoad == x.loads < MaxLoads

FetchHtml  == x.at = "html"  /\ x' = [CacheFirst(x, "html") EXCEPT !.at = "asset"]
FetchAsset == x.at = "asset" /\ x' = [CacheFirst(x, "asset") EXCEPT !.at = "ready"]

\* The page registers sw.js and asks for an update; a change of it is installed.
Register ==
    /\ x.at = "ready" /\ x.installing = None
    /\ x.server \notin {x.active, x.waiting}
    /\ x' = [x EXCEPT !.installing = x.server, !.todo = Urls]

\* install: every file is asked for, and one that fails is left out.
Cached(u) ==
    /\ u \in x.todo
    /\ \E got \in {x.server, None} :
         x' = [x EXCEPT !.todo = @ \ {u}, !.cache[x.installing][u] = got]

\* Installed: it waits if another is active, else it takes over at once.
Activate(s, v) ==
    Disturbed([s EXCEPT !.active = v, !.waiting = None,
                        !.cache = [w \in Versions |-> IF w = v THEN @[w] ELSE Empty]])

Installed ==
    /\ x.installing # None /\ x.todo = {}
    /\ LET s == [x EXCEPT !.installing = None]
       IN x' = IF x.active = None THEN Activate(s, x.installing)
               ELSE [s EXCEPT !.waiting = x.installing]

\* onUpdateReady: applied silently, or confirmed by the user if a command stands
\* in the command bar.  The server is asked for its version before the worker is
\* released.
Apply ==
    /\ x.at = "ready" /\ x.waiting # None /\ ~x.requested /\ ~x.stashing
    /\ x' = [x EXCEPT !.stashing = TRUE]

\* stashNewVersion, which may fail, and releaseWorker.
Stashed ==
    /\ x.stashing
    /\ \E n \in {x.updatedTo, IF x.server = x.page["html"] THEN x.updatedTo ELSE x.server} :
         x' = [x EXCEPT !.stashing = FALSE, !.requested = TRUE, !.updatedTo = n]

\* SKIP_WAITING, from this page or another: the worker is activated, claims the
\* pages, and the one that asked is loaded again.
SkipWaiting ==
    /\ x.waiting # None /\ MayLoad
    /\ LET s == Activate(x, x.waiting) IN x' = IF x.requested THEN Load(s) ELSE s

\* The user's reload, or the app opened anew.
Reload ==
    /\ x.at = "ready" /\ MayLoad
    /\ \E q \in {x.stamped, FALSE} : x' = Load([x EXCEPT !.forced = 0, !.stamped = q])

\* "Force reload" on a splash that stays up.
EscapeHatch == x.at # "html" /\ MayLoad /\ ForceReload([x EXCEPT !.forced = 0])

\* Slip: the second attempt is not marked.
ToastUpdatedUnmarked ==
    /\ x.at = "ready" /\ ~x.checked
    /\ LET s   == [x EXCEPT !.checked = TRUE]
           old == x.updatedTo \notin {None, x.page["html"]}
       IN \/ x.updatedTo = None /\ x' = s
          \/ old /\ MayLoad /\ ForceReload([s EXCEPT !.forced = @ + 1])
          \/ x.updatedTo # None /\ ~old
             /\ x' = [s EXCEPT !.updatedTo = None, !.retry = FALSE, !.forced = 0]

\* toastUpdated: the version that runs is compared with the one announced; one
\* more reload, and then a warning.
ToastUpdated ==
    /\ x.at = "ready" /\ ~x.checked
    /\ LET s   == [x EXCEPT !.checked = TRUE]
           old == x.updatedTo \notin {None, x.page["html"]}
       IN \/ x.updatedTo = None /\ x' = s
          \/ old /\ ~x.retry /\ MayLoad
             /\ ForceReload([s EXCEPT !.retry = TRUE, !.forced = @ + 1])
          \/ x.updatedTo # None /\ ~(old /\ ~x.retry)
             /\ x' = [s EXCEPT !.updatedTo = None, !.retry = FALSE, !.forced = 0]

\* The server applies an update and restarts; the page that asked for it waits
\* for that version, and for no other, then loads it by force.
AskServer ==
    /\ x.at = "ready" /\ x.checked /\ x.awaits = None /\ x.server < MaxVersion
    /\ x' = [x EXCEPT !.awaits = x.server + 1, !.updatedTo = x.server + 1]

PwaReloadAfterUpdate ==
    /\ x.awaits = x.server /\ MayLoad
    /\ ForceReload([x EXCEPT !.retry = FALSE, !.forced = 0])

\* It gives up after 25 s, or is told that the update was refused.
GiveUp == x.awaits # None /\ x' = [x EXCEPT !.awaits = None]

\* The server starts with another version.
Deploy == x.server < MaxVersion /\ x' = Disturbed([x EXCEPT !.server = @ + 1])

Next ==
    \/ FetchHtml \/ FetchAsset \/ Register \/ Installed \/ Apply \/ Stashed
    \/ SkipWaiting \/ Reload \/ EscapeHatch \/ ToastUpdated \/ AskServer \/ PwaReloadAfterUpdate
    \/ GiveUp \/ Deploy
    \/ \E u \in Urls : Cached(u)

Spec == Init /\ [][Next]_x

-----------------------------------------------------------------------------
\* A page and its assets are of one version ("keeps the page and its asset SRI
\* hashes consistent during SW updates"), whatever version the server has, while
\* the next worker is being installed and when it takes over; unless an install
\* was left incomplete, a worker or the server changed in the midst of the page's
\* own loading, or the page is stray: it was loaded under a worker at an address
\* with a query, where the worker does not find the html it keeps and the new one
\* of the server meets the assets of the old.
PageConsistent ==
    (x.at = "ready" /\ x.clean /\ ~x.stray) => x.page["html"] = x.page["asset"]

\* The check of a loaded page never forces a second reload in a row ("flagged so
\* it can never loop"), whatever is loaded.
NeverLoops == x.forced <= 1

\* What makes them inductive: workers follow each other in the order of their
\* versions, so the oldest cache is that of the active one, and the page under
\* way is what that worker, or else the server, has; a second reload is marked.
Fields == {"server", "installing", "todo", "waiting", "active", "cache", "at", "page",
           "stamped", "stray", "clean", "checked", "requested", "stashing", "updatedTo", "retry", "awaits",
           "forced", "loads"}
Typed(s) ==
    /\ DOMAIN s = Fields /\ s.server \in Versions
    /\ {s.installing, s.waiting, s.active} \subseteq Some
    /\ s.cache \in [Versions -> [Keys -> Some]] /\ DOMAIN s.page = Urls
    /\ s.clean \in BOOLEAN /\ s.stamped \in BOOLEAN /\ s.stray \in BOOLEAN
Ordered(s) ==
    /\ s.todo # {} => s.installing # None
    /\ \A v \in {s.installing, s.waiting, s.active} \ {None} : v <= s.server
    /\ s.waiting # None => s.active # None /\ s.active < s.waiting
    /\ s.installing # None =>
         \A v \in {s.waiting, s.active} \ {None} : v < s.installing
    /\ s.active # None =>
         \A v \in Versions, k \in Keys : s.cache[v][k] # None => s.active <= v
Followed(s) ==
    /\ s.at \in {"html", "asset", "ready"}
    /\ s.at = "asset" /\ s.clean /\ ~s.stray =>
         s.page["html"] = IF s.active = None THEN s.server ELSE s.cache[s.active]["html"]
    /\ s.at = "ready" /\ s.clean /\ ~s.stray => s.page["html"] = s.page["asset"]
Marked(s) == s.forced \in 0..1 /\ (s.forced = 1 => s.retry)
Inv(s) == Typed(s) /\ Ordered(s) /\ Followed(s) /\ Marked(s)

=============================================================================
