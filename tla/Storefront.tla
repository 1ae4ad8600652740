----------------------------- MODULE Storefront -----------------------------
(***************************************************************************)
(* One browser tab of the web app (apps/web/src) over the catalogue: who   *)
(* is signed in, the page it is on, that page's data, and on the live page *)
(* the card and purchase panel of one sale.  A page is mounted when it is  *)
(* entered and forgets everything when it is left.  React may show a state *)
(* some time after it is set: "screen" is what the user sees of the panel. *)
(* What a purchase does is in Purchases; here it is answered somehow, and  *)
(* the stock falls when it is written.                                     *)
(***************************************************************************)
EXTENDS SaleCatalog

CONSTANTS
    Shown,          \* the sale whose card is looked at
    Users,          \* e-mail addresses that pass isValidEmail, trimmed
    NoUser,
    Posts,          \* POST requests a panel can have under way
    MaxClicks       \* bound on the clicks on "Buy now"

ASSUME StorefrontConstants ==
    /\ Shown \in Sales
    /\ Users \subseteq Emails /\ NoUser \notin Users
    /\ IsFiniteSet(Posts)
    /\ MaxClicks \in Nat
    /\ Cardinality(Lookups) >= MaxClicks    \* a refresh never lacks a request

VARIABLES
    email,
    page,
    load,       \* the page's useAsyncData: "none", "loading", "data", "error"
    orders,     \* on the orders page: whose orders its data is, or NoUser
    card,       \* the sale of LiveSaleCard, or NoCard
    panel,      \* the state of PurchasePanel and usePurchase
    posts,      \* the panel's POST requests
    screen,     \* the user the enabled button on the screen buys for, or NoUser
    clicks

tabVars == <<email, page, load, orders, card, panel, posts, screen, clicks>>
storeVars == <<catalogVars, tabVars>>

Pages == {"live", "upcoming", "orders", "login", "not_found"}
Fetching == {"live", "upcoming", "orders"}     \* with useSales or usePurchases
Outcomes == {"success", "already_purchased", "sold_out", "sale_not_active"}
NoCard == [phase |-> "none", stock |-> 0]

\* result stands for result and error, of which one is null; by is whose
\* purchase it is about.  waits counts the handleBuy calls in their timeout.
NewPanel == [inFlight |-> FALSE, result |-> "none", by |-> NoUser,
             isBusy |-> FALSE, waits |-> 0]
NoPost == [at |-> "none", by |-> NoUser, outcome |-> "none"]

TypeOK ==
    /\ CatalogTypeOK
    /\ email \in Users \cup {NoUser}
    /\ page \in Pages
    /\ load \in {"none", "loading", "data", "error"}
    /\ orders \in Users \cup {NoUser}
    /\ card \in [phase : Phases, stock : 0..TotalStock[Shown]] \cup {NoCard}
    /\ panel \in [inFlight : BOOLEAN, result : Outcomes \cup {"none", "error"},
                  by : Users \cup {NoUser}, isBusy : BOOLEAN, waits : 0..MaxClicks]
    /\ posts \in [Posts -> [at : {"none", "sent", "answered"}, by : Users \cup {NoUser},
                            outcome : Outcomes \cup {"none", "error"}]]
    /\ screen \in Users \cup {NoUser}
    /\ clicks \in 0..MaxClicks

Init ==
    /\ CatalogInit
    /\ email = NoUser
    /\ page = "live" /\ load = "loading"
    /\ orders = NoUser
    /\ card = NoCard
    /\ panel = NewPanel
    /\ posts = [p \in Posts |-> NoPost]
    /\ screen = NoUser
    /\ clicks = 0

---------------------------------------------------------------------------
\* A page with data to fetch starts loading; RequireAuth sends a visitor of
\* the orders page to the login page.
Landing(p, e) == IF p = "orders" /\ e = NoUser THEN "login" ELSE p

\* The outcome is kept from page to page.
GoToWrongPanel(p, e) ==
    /\ page' = Landing(p, e)
    /\ load' = IF Landing(p, e) \in Fetching THEN "loading" ELSE "none"
    /\ orders' = NoUser
    /\ card' = NoCard
    /\ panel' = [NewPanel EXCEPT !.result = panel.result, !.by = panel.by]
    /\ posts' = [q \in Posts |-> NoPost]
    /\ screen' = NoUser
    /\ lookup' = [l \in Lookups |-> Idle]
    /\ UNCHANGED <<now, row, cache, clicks>>

\* Data fetched once is kept, whoever asks for it next.
GoToWrongData(p, e) ==
    /\ page' = Landing(p, e)
    /\ load' = IF Landing(p, e) \in Fetching THEN "loading" ELSE "none"
    /\ orders' = orders
    /\ card' = NoCard
    /\ panel' = NewPanel
    /\ posts' = [q \in Posts |-> NoPost]
    /\ screen' = NoUser
    /\ lookup' = [l \in Lookups |-> Idle]
    /\ UNCHANGED <<now, row, cache, clicks>>

\* The page is left, its useAsyncData and its panel's POSTs are aborted and
\* their state is gone; the answer to a refresh finds no card.  The next page
\* is mounted.
GoTo(p, e) ==
    /\ page' = Landing(p, e)
    /\ load' = IF Landing(p, e) \in Fetching THEN "loading" ELSE "none"
    /\ orders' = NoUser
    /\ card' = NoCard
    /\ panel' = NewPanel
    /\ posts' = [q \in Posts |-> NoPost]
    /\ screen' = NoUser
    /\ lookup' = [l \in Lookups |-> Idle]
    /\ UNCHANGED <<now, row, cache, clicks>>

\* A link of the navigation bar, a panel or the browser's history.
Navigate(p) ==
    /\ p # page
    /\ GoTo(p, email)
    /\ UNCHANGED email

\* LoginPage's handleSubmit with a valid address; with an invalid one only
\* its own message changes.  It does not ask whether somebody is signed in.
Login(e) ==
    /\ page = "login"
    /\ email' = e
    /\ GoTo("live", e)

\* Signing out elsewhere than on the orders page leaves the page mounted.
Logout ==
    /\ email # NoUser
    /\ email' = NoUser
    /\ IF page = "orders" THEN GoTo("orders", NoUser)
       ELSE UNCHANGED <<catalogVars, page, load, orders, card, panel, posts, screen, clicks>>

\* The tab is reloaded: the user is only kept in memory.
Reload ==
    /\ email' = NoUser
    /\ GoTo(page, NoUser)

---------------------------------------------------------------------------
\* What the pages make of their data.  The live page mounts the card with the
\* sale as listed, if it is; the orders are those of the user who asks.
listedSale ==
    IF page = "live" /\ Shown \in DOMAIN findAll("active")
    THEN findAll("active")[Shown] ELSE NoCard

ordersShown == IF page = "orders" THEN email ELSE NoUser

\* useAsyncData receives the page's data.  Its time on the way is left out:
\* data that is old when it arrives is data that came earlier.
Loaded ==
    /\ load = "loading"
    /\ load' = "data"
    /\ orders' = ordersShown
    /\ card' = listedSale
    /\ UNCHANGED <<catalogVars, email, page, panel, posts, screen, clicks>>

LoadFails ==
    /\ load = "loading"
    /\ load' = "error"
    /\ UNCHANGED <<catalogVars, email, page, orders, card, panel, posts, screen, clicks>>

\* The Retry button of the live page.
refetch ==
    /\ page = "live" /\ load = "error"
    /\ load' = "loading"
    /\ UNCHANGED <<catalogVars, email, page, orders, card, panel, posts, screen, clicks>>

---------------------------------------------------------------------------
\* The panel's button: there and enabled, for the user of that rendering.
Button ==
    IF /\ card.phase = "active" /\ email # NoUser
       /\ ~panel.inFlight /\ ~panel.isBusy
    THEN email ELSE NoUser

Render ==
    /\ screen # Button
    /\ screen' = Button
    /\ UNCHANGED <<catalogVars, email, page, load, orders, card, panel, posts, clicks>>

\* Without the guard.
submitWrongNoGuard(p) ==
    /\ panel' = [panel EXCEPT !.isBusy = TRUE, !.inFlight = TRUE,
                              !.result = IF @ = "error" THEN "none" ELSE @]
    /\ posts' = [posts EXCEPT ![p] = [at |-> "sent", by |-> screen, outcome |-> "none"]]

\* submit up to its await, in handleBuy's busy panel.  A second call while
\* one is under way returns at once, and handleBuy goes on to its wait.
submit(p) ==
    IF panel.inFlight
    THEN /\ panel' = [panel EXCEPT !.isBusy = TRUE, !.waits = @ + 1]
         /\ UNCHANGED posts
    ELSE /\ panel' = [panel EXCEPT !.isBusy = TRUE, !.inFlight = TRUE,
                                   !.result = IF @ = "error" THEN "none" ELSE @]
         /\ posts' = [posts EXCEPT ![p] = [at |-> "sent", by |-> screen, outcome |-> "none"]]

\* handleBuy, by a click on the button as it is on the screen.
Buy(p) ==
    /\ screen # NoUser /\ clicks < MaxClicks
    /\ clicks' = clicks + 1
    /\ posts[p].at = "none"
    /\ submit(p)
    /\ UNCHANGED <<catalogVars, email, page, load, orders, card, screen>>

\* The API answers, or apiFetch throws.
PurchaseAnswered(p) ==
    /\ posts[p].at = "sent"
    /\ \E o \in Outcomes \cup {"error"} :
        posts' = [posts EXCEPT ![p].at = "answered", ![p].outcome = o]
    /\ UNCHANGED <<catalogVars, email, page, load, orders, card, panel, screen, clicks>>

\* The reset is in the try block: an error skips it.
SettleWrongFinally(p) ==
    /\ posts[p].at = "answered"
    /\ posts' = [posts EXCEPT ![p] = NoPost]
    /\ panel' = [panel EXCEPT !.inFlight = posts[p].outcome = "error", !.waits = @ + 1,
                              !.result = posts[p].outcome, !.by = posts[p].by]
    /\ UNCHANGED <<catalogVars, email, page, load, orders, card, screen, clicks>>

\* submit goes on, and then handleBuy up to its timeout.
Settle(p) ==
    /\ posts[p].at = "answered"
    /\ posts' = [posts EXCEPT ![p] = NoPost]
    /\ panel' = [panel EXCEPT !.inFlight = FALSE, !.waits = @ + 1,
                              !.result = posts[p].outcome, !.by = posts[p].by]
    /\ UNCHANGED <<catalogVars, email, page, load, orders, card, screen, clicks>>

\* The minimum loading time of a handleBuy call is over: it asks for the sale
\* again, whichever call it was and whatever became of it.
WaitOver(l) ==
    /\ panel.waits > 0
    /\ panel' = [panel EXCEPT !.isBusy = FALSE, !.waits = @ - 1]
    /\ lookup[l] = Idle
    /\ lookup' = [lookup EXCEPT ![l] = [at |-> "sent", id |-> Shown]]
    /\ UNCHANGED <<now, row, cache, email, page, load, orders, card, posts, screen, clicks>>

\* refreshSale: the answers come in any order, and the last one stays.
refreshSale(l) ==
    /\ lookup[l].at = "answered"
    /\ lookup' = [lookup EXCEPT ![l] = Idle]
    /\ card' = IF lookup[l].sale \in {NotFound, Failed} THEN card ELSE lookup[l].sale
    /\ UNCHANGED <<now, row, cache, email, page, load, orders, panel, posts, screen, clicks>>

---------------------------------------------------------------------------
User ==
    \/ \E p \in Pages : Navigate(p)
    \/ \E e \in Users : Login(e)
    \/ Logout \/ Reload \/ refetch
    \/ \E p \in Posts : Buy(p)

Browser ==
    \/ Loaded \/ LoadFails \/ Render
    \/ \E p \in Posts : Settle(p)
    \/ \E l \in Lookups : WaitOver(l) \/ refreshSale(l)

Next ==
    \/ User
    \/ Browser
    \/ \E p \in Posts : PurchaseAnswered(p)
    \/ CatalogStep /\ UNCHANGED tabVars

Spec == Init /\ [][Next]_storeVars

\* Continuations, timers and rendering are run by the browser.  Nothing is
\* assumed of the user, the network or the API.
Fairness ==
    /\ WF_storeVars(Render)
    /\ WF_storeVars(\E p \in Posts : Settle(p))
    /\ WF_storeVars(\E l \in Lookups : WaitOver(l))
    /\ WF_storeVars(\E l \in Lookups : refreshSale(l))

FairSpec == Spec /\ Fairness

---------------------------------------------------------------------------
\* However fast somebody clicks and however late React disables the button,
\* a panel has one submission under way at most.
OneSubmission == Cardinality({p \in Posts : posts[p].at # "none"}) <= 1

\* The user is never locked out of a sale that has something to sell: a card
\* that disables the button is right to do so, although it shows what an old
\* answer said, from a cached row, with answers arriving out of order.
NeverLockedOut ==
    card.phase \in Phases \ {"active"} =>
        \/ row[Shown].stock = 0
        \/ ~isSaleOpen(Shown, row[Shown].cancelled, now)

\* An outcome on the screen is about a purchase of whoever is signed in, with
\* several people using the tab one after the other.
ShownOutcomeIsOwn ==
    panel.result # "none" /\ email # NoUser => panel.by = email

\* The orders on the screen are those of whoever is signed in.
OrdersShownAreOwn == orders # NoUser => orders = email

\* The button is given back: unless a request is never answered, no panel
\* stays busy for ever, whatever the clicks, errors and answers.
PanelRecovers ==
    \/ <>[](\E p \in Posts : posts[p].at = "sent")
    \/ [](panel.isBusy \/ panel.inFlight => <>(~panel.isBusy /\ ~panel.inFlight))

=============================================================================
