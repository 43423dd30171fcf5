--------------------------- MODULE WorkspaceConfig ---------------------------
(***************************************************************************)
(* The writes that administrators make to the workspace configuration: the *)
(* feeds the pipeline ingests (workspace-feed-writes.ts) and the monitored *)
(* products with their aliases (workspace-inventory-writes.ts).            *)
(*                                                                         *)
(* Every request of the web application runs on a connection of its own,   *)
(* at PostgreSQL's default isolation level: a statement reads what was     *)
(* committed when the statement began, an UPDATE locks its row until its   *)
(* transaction ends, and what a transaction wrote is seen by others once   *)
(* it commits.  tx[w] is the request writer w serves: its operation, the   *)
(* row it is about, the arguments and the values it has read so far.       *)
(*                                                                         *)
(* An UPDATE of one column directly followed by COMMIT is one step here:   *)
(* what runs between the two only sees the state before the UPDATE.        *)
(*                                                                         *)
(* Vendors are all active, and every product is of one vendor, so that     *)
(* product names are unique.  The URL, trust level, criticality and news   *)
(* volume fields are overwritten whole and left out.                       *)
(***************************************************************************)
EXTENDS Integers, FiniteSets

CONSTANTS
    Writers,    \* requests served at the same time
    Feeds,      \* rows of the feeds table
    Products,   \* rows of vendor_products
    Names,      \* product names and aliases
    NoWriter    \* the holder of a lock that is free

ASSUME NoWriterAssumption == NoWriter \notin Writers
ASSUME TablesFinite == IsFiniteSet(Feeds) /\ IsFiniteSet(Products)
ASSUME TablesNonempty == Feeds # {} /\ Products # {} /\ Names # {}

VARIABLES
    feeds,      \* feeds.is_active, or "absent"
    products,   \* vendor_products.is_active, or "absent"
    name,       \* vendor_products.product_name
    aliases,    \* vendor_product_aliases of a product
    feedLock,   \* the advisory lock 'workspace-config-active-feeds'
    rowLock,    \* the writer whose open transaction updated a product's row
    tx          \* the request each writer serves

vars == <<feeds, products, name, aliases, feedLock, rowLock, tx>>

RowStates == {"absent", "active", "inactive"}

Phases == {"idle", "insertFeed", "lock", "readFeed", "countFeeds", "pauseFeed",
           "insert", "createAliases", "updateRow", "writeAliases", "commitUpdate",
           "countProducts", "pauseProduct", "resumeProduct"}

Requests == [phase : Phases, feed : Feeds, product : Products, active : BOOLEAN,
             name : Names, given : SUBSET Names, deleted : SUBSET Names]

TypeOK ==
    /\ feeds \in [Feeds -> RowStates]
    /\ products \in [Products -> RowStates]
    /\ name \in [Products -> Names]
    /\ aliases \in [Products -> SUBSET Names]
    /\ feedLock \in Writers \cup {NoWriter}
    /\ rowLock \in [Products -> Writers \cup {NoWriter}]
    /\ tx \in [Writers -> Requests]

Idle == [phase |-> "idle", feed |-> CHOOSE f \in Feeds : TRUE,
         product |-> CHOOSE p \in Products : TRUE, active |-> FALSE,
         name |-> CHOOSE n \in Names : TRUE, given |-> {}, deleted |-> {}]

Active(rows) == {r \in DOMAIN rows : rows[r] = "active"}

Present(rows) == {r \in DOMAIN rows : rows[r] # "absent"}

\* countActiveFeeds and countActiveMonitoredProducts: committed rows only.
CountActive(rows) == Cardinality(Active(rows))

Flag(active) == IF active THEN "active" ELSE "inactive"

\* The aliases a save stores: the product's name and the ones that were given.
Stored(request) == {request.name} \cup request.given

\* The unique key of vendor_products: the name is that of another product.
NameTaken(n, p) == \E q \in Present(products) \ {p} : name[q] = n

\* A name another open transaction is about to give: the statement waits for it.
NamePending(n, w) ==
    \E v \in Writers \ {w} :
        tx[v].phase \in {"createAliases", "writeAliases", "commitUpdate"} /\ tx[v].name = n

Init ==
    /\ feeds \in [Feeds -> RowStates]
    /\ Present(feeds) # {} => Active(feeds) # {}
    /\ products \in [Products -> RowStates]
    /\ Present(products) # {} => Active(products) # {}
    /\ name \in [Products -> Names]
    /\ \A p, q \in Present(products) : name[p] = name[q] => p = q
    /\ aliases = [p \in Products |-> IF products[p] = "absent" THEN {} ELSE {name[p]}]
    /\ feedLock = NoWriter
    /\ rowLock = [p \in Products |-> NoWriter]
    /\ tx = [w \in Writers |-> Idle]

-----------------------------------------------------------------------------
(* Transactions. *)

Serves(w, phase) == tx[w].phase = phase

GoTo(w, phase) == tx' = [tx EXCEPT ![w].phase = phase]

Answered(w) == tx' = [tx EXCEPT ![w] = Idle]

\* ROLLBACK: an error, a rejected request or a lost connection. The locks of the
\* transaction are released and nothing it wrote was seen.
Rollback(w) ==
    /\ tx[w].phase # "idle"
    /\ feedLock' = IF feedLock = w THEN NoWriter ELSE feedLock
    /\ rowLock' = [p \in Products |-> IF rowLock[p] = w THEN NoWriter ELSE rowLock[p]]
    /\ Answered(w)
    /\ UNCHANGED <<feeds, products, name, aliases>>

-----------------------------------------------------------------------------
(* Feeds. *)

inventory == <<products, name, aliases, rowLock>>

\* createFeed, up to its INSERT: a paused feed needs an active one beside it.
CreateFeed(w, f, active) ==
    /\ Serves(w, "idle")
    /\ active \/ CountActive(feeds) # 0
    /\ tx' = [tx EXCEPT ![w] = [Idle EXCEPT !.phase = "insertFeed",
                                            !.feed = f, !.active = active]]
    /\ UNCHANGED <<feeds, feedLock, inventory>>

InsertFeed(w) ==
    /\ Serves(w, "insertFeed")
    /\ feeds[tx[w].feed] = "absent"
    /\ feeds' = [feeds EXCEPT ![tx[w].feed] = Flag(tx[w].active)]
    /\ Answered(w)
    /\ UNCHANGED <<feedLock, inventory>>

\* setFeedActive(true): one UPDATE, without a transaction or the lock.
ActivateFeed(w, f) ==
    /\ Serves(w, "idle")
    /\ f \in Present(feeds)
    /\ feeds' = [feeds EXCEPT ![f] = "active"]
    /\ UNCHANGED <<feedLock, inventory, tx>>

\* setFeedActive(false): wait for the lock, read the feed, count the active ones
\* unless it is paused already, update.
DeactivateFeed(w, f) ==
    /\ Serves(w, "idle")
    /\ tx' = [tx EXCEPT ![w] = [Idle EXCEPT !.phase = "lock", !.feed = f]]
    /\ UNCHANGED <<feeds, feedLock, inventory>>

(* Mutant of LockFeeds: the statement that takes the lock is left out.     *)
LockFeedsUnlocked(w) ==
    /\ Serves(w, "lock")
    /\ GoTo(w, "readFeed")
    /\ UNCHANGED <<feeds, feedLock, inventory>>

LockFeeds(w) ==
    /\ Serves(w, "lock")
    /\ feedLock = NoWriter
    /\ feedLock' = w
    /\ GoTo(w, "readFeed")
    /\ UNCHANGED <<feeds, inventory>>

ReadFeed(w) ==
    /\ Serves(w, "readFeed")
    /\ tx[w].feed \in Present(feeds)
    /\ GoTo(w, IF feeds[tx[w].feed] = "active" THEN "countFeeds" ELSE "pauseFeed")
    /\ UNCHANGED <<feeds, feedLock, inventory>>

CountFeeds(w) ==
    /\ Serves(w, "countFeeds")
    /\ CountActive(feeds) > 1
    /\ GoTo(w, "pauseFeed")
    /\ UNCHANGED <<feeds, feedLock, inventory>>

PauseFeed(w) ==
    /\ Serves(w, "pauseFeed")
    /\ feeds' = [feeds EXCEPT ![tx[w].feed] = "inactive"]
    /\ feedLock' = NoWriter
    /\ Answered(w)
    /\ UNCHANGED inventory

-----------------------------------------------------------------------------
(* Monitored products. *)

\* createProduct, up to its INSERT: a paused product needs an active one beside it.
CreateProduct(w, n, given, active) ==
    /\ Serves(w, "idle")
    /\ active \/ CountActive(products) # 0
    /\ tx' = [tx EXCEPT ![w] = [Idle EXCEPT !.phase = "insert", !.name = n,
                                            !.given = given, !.active = active]]
    /\ UNCHANGED <<feeds, feedLock, inventory>>

\* The row of the product: unseen until the commit, but its name is reserved.
InsertProduct(w, p) ==
    /\ Serves(w, "insert")
    /\ products[p] = "absent"
    /\ rowLock[p] = NoWriter
    /\ ~NamePending(tx[w].name, w)
    /\ ~NameTaken(tx[w].name, p)
    /\ rowLock' = [rowLock EXCEPT ![p] = w]
    /\ tx' = [tx EXCEPT ![w].phase = "createAliases", ![w].product = p]
    /\ UNCHANGED <<feeds, feedLock, products, name, aliases>>

\* replaceProductAliases on the new row, and COMMIT.
CommitProduct(w) ==
    LET p == tx[w].product IN
    /\ Serves(w, "createAliases")
    /\ products' = [products EXCEPT ![p] = Flag(tx[w].active)]
    /\ name' = [name EXCEPT ![p] = tx[w].name]
    /\ aliases' = [aliases EXCEPT ![p] = Stored(tx[w])]
    /\ rowLock' = [rowLock EXCEPT ![p] = NoWriter]
    /\ Answered(w)
    /\ UNCHANGED <<feeds, feedLock>>

\* updateProduct: find the product, update its row, replace its aliases, commit.
UpdateProduct(w, p, n, given) ==
    /\ Serves(w, "idle")
    /\ p \in Present(products)
    /\ tx' = [tx EXCEPT ![w] = [Idle EXCEPT !.phase = "updateRow", !.product = p,
                                            !.name = n, !.given = given]]
    /\ UNCHANGED <<feeds, feedLock, inventory>>

(* Mutant of UpdateRow: the UPDATE commits on its own and keeps no lock.   *)
UpdateRowUnlocked(w) ==
    LET p == tx[w].product IN
    /\ Serves(w, "updateRow")
    /\ rowLock[p] = NoWriter
    /\ ~NamePending(tx[w].name, w)
    /\ ~NameTaken(tx[w].name, p)
    /\ GoTo(w, "writeAliases")
    /\ UNCHANGED <<feeds, feedLock, inventory>>

UpdateRow(w) ==
    LET p == tx[w].product IN
    /\ Serves(w, "updateRow")
    /\ rowLock[p] = NoWriter
    /\ ~NamePending(tx[w].name, w)
    /\ ~NameTaken(tx[w].name, p)
    /\ rowLock' = [rowLock EXCEPT ![p] = w]
    /\ GoTo(w, "writeAliases")
    /\ UNCHANGED <<feeds, feedLock, products, name, aliases>>

\* DELETE of the aliases the statement sees, then the INSERTs.
WriteAliases(w) ==
    /\ Serves(w, "writeAliases")
    /\ tx' = [tx EXCEPT ![w].phase = "commitUpdate",
                        ![w].deleted = aliases[tx[w].product]]
    /\ UNCHANGED <<feeds, feedLock, inventory>>

CommitUpdate(w) ==
    LET p == tx[w].product IN
    /\ Serves(w, "commitUpdate")
    /\ name' = [name EXCEPT ![p] = tx[w].name]
    /\ aliases' = [aliases EXCEPT ![p] = (@ \ tx[w].deleted) \cup Stored(tx[w])]
    /\ rowLock' = [rowLock EXCEPT ![p] = NoWriter]
    /\ Answered(w)
    /\ UNCHANGED <<feeds, feedLock, products>>

\* setProductActive: find the product; to pause it, count the active ones; update.
SetProductActive(w, p, active) ==
    /\ Serves(w, "idle")
    /\ p \in Present(products)
    /\ tx' = [tx EXCEPT ![w] = [Idle EXCEPT !.phase = IF active THEN "resumeProduct"
                                                                ELSE "countProducts",
                                            !.product = p]]
    /\ UNCHANGED <<feeds, feedLock, inventory>>

\* The count takes no lock: it holds when it is read.
CountProducts(w) ==
    /\ Serves(w, "countProducts")
    /\ CountActive(products) > 1
    /\ GoTo(w, "pauseProduct")
    /\ UNCHANGED <<feeds, feedLock, inventory>>

PauseProduct(w) ==
    /\ Serves(w, "pauseProduct")
    /\ rowLock[tx[w].product] = NoWriter
    /\ products' = [products EXCEPT ![tx[w].product] = "inactive"]
    /\ Answered(w)
    /\ UNCHANGED <<feeds, feedLock, name, aliases, rowLock>>

ResumeProduct(w) ==
    /\ Serves(w, "resumeProduct")
    /\ rowLock[tx[w].product] = NoWriter
    /\ products' = [products EXCEPT ![tx[w].product] = "active"]
    /\ Answered(w)
    /\ UNCHANGED <<feeds, feedLock, name, aliases, rowLock>>

-----------------------------------------------------------------------------
FeedRequest(w) ==
    \/ \E f \in Feeds :
        \/ \E active \in BOOLEAN : CreateFeed(w, f, active)
        \/ ActivateFeed(w, f)
        \/ DeactivateFeed(w, f)
    \/ InsertFeed(w)
    \/ LockFeeds(w)
    \/ ReadFeed(w)
    \/ CountFeeds(w)
    \/ PauseFeed(w)

ProductRequest(w) ==
    \/ \E n \in Names, given \in SUBSET Names :
        \/ \E active \in BOOLEAN : CreateProduct(w, n, given, active)
        \/ \E p \in Products : UpdateProduct(w, p, n, given)
    \/ \E p \in Products : InsertProduct(w, p)
    \/ CommitProduct(w)
    \/ UpdateRow(w)
    \/ WriteAliases(w)
    \/ CommitUpdate(w)
    \/ \E p \in Products, active \in BOOLEAN : SetProductActive(w, p, active)
    \/ CountProducts(w)
    \/ PauseProduct(w)
    \/ ResumeProduct(w)

Next == \E w \in Writers : FeedRequest(w) \/ ProductRequest(w) \/ Rollback(w)

Spec == Init /\ [][Next]_vars

-----------------------------------------------------------------------------
(* Properties. *)

\* The pipeline never loses its last feed: however requests to pause feeds
\* overlap with each other and with the creation and activation of feeds, no
\* commit leaves the workspace without an active feed once it had one
\* (setFeedActive: "At least one feed must remain active.").
ActiveFeedRemains == [][Active(feeds) # {} => Active(feeds)' # {}]_vars

\* The name and aliases of a product are those of one save: when requests that
\* edit the same product overlap, the aliases of one never mix with the name or
\* the aliases of another (updateProduct, replaceProductAliases).
SavesWhole ==
    [][\A p \in Products :
        aliases'[p] # aliases[p] \/ name'[p] # name[p] =>
            \E w \in Writers : /\ name'[p] = tx[w].name
                               /\ aliases'[p] = {tx[w].name} \cup tx[w].given]_vars

(* Claims of documents and comments that the code does not keep. *)

\* A change that would leave zero active monitored products is rejected: the last
\* one is never paused, also when two requests pause products at the same time.
ActiveProductRemains == [][Active(products) # {} => Active(products)' # {}]_vars

\* Zero active feeds are allowed: no request to pause a feed is refused for being
\* about the last active one.
LastFeedMayPause == \A w \in Writers : Serves(w, "countFeeds") => CountActive(feeds) > 1
=============================================================================
