---------------------------- MODULE AlertListing ----------------------------
(***************************************************************************)
(* The page that lists alerts (AlertList.vue) in one browser: its controls *)
(* and the URL that keeps them (useQueryString.ts), the requests it sends  *)
(* to listAlerts and their answers, polling (usePolling.ts), and the way   *)
(* to the sign-in page and back when the session has ended (useAuth.ts,    *)
(* auth.global.ts, api-auth.client.ts, login.vue).  What follows a change  *)
(* in the page without a timer or an answer of the API in between, watches *)
(* and the navigation they lead to, belongs to its step.  useFetch and     *)
(* vue-router are external: a new request of a page cancels the last one.  *)
(* Teams, priorities, severity and dates are one filter, and how many      *)
(* pages of alerts match is left open at every answer.                     *)
(***************************************************************************)
EXTENDS Naturals

CONSTANTS
    Filters, Searches,
    None,               \* no filter, no search
    MaxPage,            \* bounds the pages of alerts
    Links,              \* URLs that are followed or opened, as far as the page reads them
    Nothing

Tabs == {"open", "acknowledged", "resolved"}
Pages == 1..MaxPage

Controls == [tab : Tabs, filter : Filters \cup {None}, search : Searches \cup {None}, page : Pages]
Query == [tab : Tabs, filter : Filters \cup {None}, sent : Searches \cup {None}, page : Pages]
AlertPage == [query : Query, count : Pages]

ASSUME ListingAssumption ==
    /\ MaxPage \in Nat \ {0}
    /\ None \notin Filters \cup Searches
    /\ Links \subseteq Controls
    /\ Nothing \notin Query \cup AlertPage

VARIABLES
    at,                 \* the page the browser is at: "alerts", "login"
    session,            \* whether the API still knows the session
    url,                \* the query of the page, at "login" the one to come back to
    controls,
    sentSearch,
    typing,             \* searchTimer
    asked,              \* the request on its way
    shown,              \* alertPage: the last answer, with its number of pages
    visible             \* the browser's tab

listVars == <<at, session, url, controls, sentSearch, typing, asked, shown, visible>>

\* The page without anything in its URL.
Plain == [tab |-> "open", filter |-> None, search |-> None, page |-> 1]

\* What the API is asked for.
QueryOf(c, sent) == [tab |-> c.tab, filter |-> c.filter, sent |-> sent, page |-> c.page]
CurrentQuery == QueryOf(controls, sentSearch)

PageCount(answer) == IF answer = Nothing THEN 1 ELSE answer.count

ListInit ==
    /\ at = "login"
    /\ session = FALSE
    /\ url = Plain /\ controls = Plain
    /\ sentSearch = None
    /\ typing = FALSE
    /\ asked = Nothing /\ shown = Nothing
    /\ visible = TRUE

-----------------------------------------------------------------------------
(* The URL follows the controls, and they follow the URL. *)

\* Keys that differ from what they were are replaced in the query.
Patched(query, before, after) ==
    [key \in DOMAIN query |-> IF after[key] # before[key] THEN after[key] ELSE query[key]]

\* "A different tab or filter starts again from the first page."
Restarted(before, after) ==
    IF after.tab # before.tab \/ after.filter # before.filter THEN [after EXCEPT !.page = 1] ELSE after

\* useFetch watches its query.
AskWhenChanged(c, sent) ==
    asked' = IF QueryOf(c, sent) # CurrentQuery THEN QueryOf(c, sent) ELSE asked

\* The controls become `after`; typing starts the search timer anew.
SetControls(after) ==
    /\ controls' = after
    /\ url' = Patched(url, controls, after)
    /\ typing' = (typing \/ after.search # controls.search)
    /\ AskWhenChanged(after, sentSearch)
    /\ UNCHANGED <<at, session, sentSearch, visible>>

-----------------------------------------------------------------------------
(* The user. *)

Change(after) ==
    /\ at = "alerts"
    /\ after # controls
    /\ SetControls(Restarted(controls, after))
    /\ UNCHANGED shown

ChangeTab(tab) == Change([controls EXCEPT !.tab = tab])
ChangeFilter(filter) == Change([controls EXCEPT !.filter = filter])
Type(search) == Change([controls EXCEPT !.search = search])

\* The empty lists put in place of the teams and priorities are new ones, which
\* starts again from the first page even if only the search was set.
ClearFilters ==
    /\ controls.filter # None \/ controls.search # None
    /\ Change([controls EXCEPT !.filter = None, !.search = None, !.page = 1])

\* The pagination offers the pages of the last answer.
ChangePage(page) ==
    /\ page <= PageCount(shown)
    /\ Change([controls EXCEPT !.page = page])

\* Mutant: the search in the URL is not taken over.
MutantNavigate(query) ==
    LET followed == [Patched(controls, url, query) EXCEPT !.search = controls.search]
        after == Restarted(controls, followed) IN
    /\ at = "alerts"
    /\ query # url
    /\ controls' = after
    /\ url' = Patched(query, controls, after)
    /\ AskWhenChanged(after, sentSearch)
    /\ UNCHANGED <<at, session, sentSearch, typing, shown, visible>>

\* A link to the page, back or forward: the controls whose keys changed take
\* them over, which may start again from the first page.  Where that was the
\* page before, nothing has changed when the watches run, and the URL keeps
\* the link's page.
Navigate(query) ==
    LET followed == Patched(controls, url, query)
        after == Restarted(controls, followed) IN
    /\ at = "alerts"
    /\ query # url
    /\ controls' = after
    /\ url' = Patched(query, controls, after)
    /\ typing' = (typing \/ after.search # controls.search)
    /\ AskWhenChanged(after, sentSearch)
    /\ UNCHANGED <<at, session, sentSearch, shown, visible>>

\* The page starts with what its URL says.
Mounted(query) ==
    /\ at' = "alerts"
    /\ url' = query /\ controls' = query
    /\ sentSearch' = query.search
    /\ typing' = FALSE
    /\ asked' = QueryOf(query, query.search)
    /\ shown' = Nothing

\* The page is gone; `query` is where to come back to.
AtLogin(query) ==
    /\ at' = "login"
    /\ url' = query /\ controls' = query
    /\ sentSearch' = None
    /\ typing' = FALSE
    /\ asked' = Nothing /\ shown' = Nothing

\* A reload, or a link opened anew: the session is looked up once.
Open(query) ==
    /\ IF session THEN Mounted(query) ELSE AtLogin(query)
    /\ UNCHANGED <<session, visible>>

SignIn ==
    /\ at = "login"
    /\ session' = TRUE
    /\ Mounted(url)
    /\ UNCHANGED visible

\* Forgets where the user was; the request to the API may fail.
SignOut ==
    /\ at = "alerts"
    /\ session' \in {FALSE, session}
    /\ AtLogin(Plain)
    /\ UNCHANGED visible

\* submitAction, checkAlert: what the user did is answered, and the list is
\* asked for again.
ActionDone ==
    /\ at = "alerts" /\ session
    /\ asked' = CurrentQuery
    /\ UNCHANGED <<at, session, url, controls, sentSearch, typing, shown, visible>>

Hide ==
    /\ visible
    /\ visible' = FALSE
    /\ UNCHANGED <<at, session, url, controls, sentSearch, typing, asked, shown>>

\* Polls as soon as the tab is visible again.
Show ==
    /\ ~visible
    /\ visible' = TRUE
    /\ asked' = IF at = "alerts" THEN CurrentQuery ELSE asked
    /\ UNCHANGED <<at, session, url, controls, sentSearch, typing, shown>>

-----------------------------------------------------------------------------
(* Timers and answers. *)

\* Mutant: the timer ends without sending the search.
MutantSearchPause ==
    /\ typing
    /\ typing' = FALSE
    /\ UNCHANGED <<at, session, url, controls, sentSearch, asked, shown, visible>>

\* "The search is sent once typing pauses"
SearchPause ==
    LET after == IF controls.search # sentSearch THEN [controls EXCEPT !.page = 1] ELSE controls IN
    /\ typing
    /\ typing' = FALSE
    /\ sentSearch' = controls.search
    /\ controls' = after
    /\ url' = Patched(url, controls, after)
    /\ AskWhenChanged(after, sentSearch')
    /\ UNCHANGED <<at, session, shown, visible>>

Poll ==
    /\ at = "alerts" /\ visible
    /\ asked' = CurrentQuery
    /\ UNCHANGED <<at, session, url, controls, sentSearch, typing, shown, visible>>

\* Mutant: the page is left as it is.
MutantAnswer(count) ==
    /\ asked # Nothing /\ session
    /\ shown' = [query |-> asked, count |-> count]
    /\ asked' = Nothing
    /\ UNCHANGED <<at, session, url, controls, sentSearch, typing, visible>>

\* A page past the end becomes the last one when the number of pages changes,
\* which asks again.
Answer(count) ==
    LET past == count # PageCount(shown) /\ controls.page > count
        after == IF past THEN [controls EXCEPT !.page = count] ELSE controls IN
    /\ asked # Nothing /\ session
    /\ shown' = [query |-> asked, count |-> count]
    /\ controls' = after
    /\ url' = Patched(url, controls, after)
    /\ asked' = IF past THEN QueryOf(after, sentSearch) ELSE Nothing
    /\ UNCHANGED <<at, session, sentSearch, typing, visible>>

\* No answer, or an error: what was shown stays.
NotAnswered ==
    /\ asked # Nothing
    /\ asked' = Nothing
    /\ UNCHANGED <<at, session, url, controls, sentSearch, typing, shown, visible>>

\* Mutant: the way back is lost.
MutantUnauthorized ==
    /\ asked # Nothing /\ ~session
    /\ at' = "login"
    /\ asked' = Nothing
    /\ UNCHANGED <<session, url, controls, sentSearch, typing, shown, visible>>

\* 401: to the sign-in page, with the page's URL to come back to.
Unauthorized ==
    /\ asked # Nothing /\ ~session
    /\ AtLogin(url)
    /\ UNCHANGED <<session, visible>>

\* The session expires, or is revoked.
Expire ==
    /\ session
    /\ session' = FALSE
    /\ UNCHANGED <<at, url, controls, sentSearch, typing, asked, shown, visible>>

-----------------------------------------------------------------------------

UserStep ==
    \/ \E tab \in Tabs : ChangeTab(tab)
    \/ \E filter \in Filters \cup {None} : ChangeFilter(filter)
    \/ \E search \in Searches \cup {None} : Type(search)
    \/ ClearFilters
    \/ \E page \in Pages : ChangePage(page)
    \/ \E query \in Links : Navigate(query) \/ Open(query)
    \/ SignIn \/ SignOut \/ ActionDone \/ Hide \/ Show

Answered == \E count \in Pages : Answer(count)

ListNext ==
    \/ UserStep
    \/ SearchPause \/ Poll \/ Answered \/ NotAnswered \/ Unauthorized
    \/ Expire

ListSpec == ListInit /\ [][ListNext]_listVars

\* Timers fire, and a list that is asked for again and again is answered.
FairListSpec ==
    /\ ListSpec
    /\ WF_listVars(SearchPause) /\ WF_listVars(Poll)
    /\ SF_listVars(Answered) /\ SF_listVars(Unauthorized)

-----------------------------------------------------------------------------
(* Properties. *)

\* Type correctness; nothing is asked for or shown at the sign-in page, and a
\* search that differs from the one sent waits for its timer.
ListTypeOK ==
    /\ at \in {"alerts", "login"}
    /\ session \in BOOLEAN /\ typing \in BOOLEAN /\ visible \in BOOLEAN
    /\ url \in Controls /\ controls \in Controls
    /\ sentSearch \in Searches \cup {None}
    /\ asked \in Query \cup {Nothing}
    /\ shown \in AlertPage \cup {Nothing}
    /\ at = "login" => asked = Nothing /\ shown = Nothing /\ ~typing
    /\ at = "alerts" /\ ~typing => sentSearch = controls.search

\* "Tab, filters, search and page live in the URL, so reloads and shared links
\* keep them" (AlertList.vue:12): whatever order of changes, links, answers
\* and timers led there, the URL says what the controls say, although each
\* change replaces only the keys it changes (useQueryValue); but for the page
\* of a link, while the list shows the first one.
UrlKeepsTheList ==
    \A key \in DOMAIN url :
        url[key] = controls[key] \/ (key = "page" /\ controls.page = 1)

\* An answer never leaves a page that was there past the end: "Alerts resolving
\* or a filter narrowing can leave the page past the end" (AlertList.vue:135)
\* is put right, also while the user pages on, searches or moves to another
\* tab.
AnswerKeepsPageThere ==
    [][shown # Nothing /\ controls.page <= shown.count /\ shown' # Nothing
       /\ shown' # shown => controls'.page <= shown'.count]_listVars

\* Once nobody moves the list any more, by hand or by a reload, it is the one
\* its controls ask for, whatever was lost, cancelled or answered late, unless
\* the tab is hidden or the browser is at the sign-in page (AlertList's watches,
\* usePolling, the plugin's 401).
Moved ==
    \/ url' # url \/ at' # at \/ visible' # visible
    \/ shown # Nothing /\ shown' = Nothing

Listed == shown # Nothing /\ shown.query = QueryOf(controls, controls.search)

ListCatchesUp ==
    <>[][~Moved]_listVars => <>[](at = "login" \/ ~visible \/ Listed)
=============================================================================
