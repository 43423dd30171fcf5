------------------------ MODULE WorkspaceConfigProofs ------------------------
(* Theorems about WorkspaceConfig, for every set of writers and names and   *)
(* every finite set of feeds and products.                                  *)
EXTENDS WorkspaceConfig, FiniteSetTheorems, TLAPS

LEMMA IdleType == Idle \in Requests
BY TablesNonempty DEF Idle, Requests, Phases

LEMMA TypeInit == Init => TypeOK
BY IdleType DEF Init, TypeOK, Active, Present, RowStates

(* The active rows of a table are finitely many, and none only if they are  *)
(* counted as none; where more than one is counted, there is another.       *)
LEMMA ActiveFinite ==
    ASSUME NEW S, IsFiniteSet(S), NEW rows \in [S -> RowStates]
    PROVE  /\ IsFiniteSet(Active(rows))
           /\ CountActive(rows) \in Nat
           /\ CountActive(rows) # 0 => Active(rows) # {}
<1>1. Active(rows) \subseteq S
  BY DEF Active
<1>2. IsFiniteSet(Active(rows))
  BY <1>1, FS_Subset
<1>3. QED
  BY <1>2, FS_CardinalityType, FS_EmptySet DEF CountActive

LEMMA AnotherOne ==
    ASSUME NEW T, IsFiniteSet(T), Cardinality(T) > 1, NEW r
    PROVE  \E q \in T : q # r
<1> SUFFICES ASSUME T \subseteq {r} PROVE FALSE
  OBVIOUS
<1>1. IsFiniteSet({r}) /\ Cardinality({r}) = 1
  BY FS_Singleton
<1>2. Cardinality(T) \in Nat /\ Cardinality(T) <= Cardinality({r})
  BY <1>1, FS_Subset, FS_CardinalityType
<1>3. QED
  BY <1>1, <1>2

-----------------------------------------------------------------------------
LEMMA TypeStep == TypeOK /\ [Next]_vars => TypeOK'
<1> SUFFICES ASSUME TypeOK, [Next]_vars PROVE TypeOK'
  OBVIOUS
<1> USE IdleType DEF TypeOK, Requests, Phases, RowStates, Serves, GoTo, Answered, Flag,
        Stored, inventory
<1>1. CASE UNCHANGED vars
  BY <1>1 DEF vars
<1>2. ASSUME NEW w \in Writers, FeedRequest(w) PROVE TypeOK'
  <2>1. ASSUME NEW f \in Feeds, NEW active \in BOOLEAN, CreateFeed(w, f, active)
        PROVE  TypeOK'
    BY <2>1 DEF CreateFeed
  <2>2. ASSUME NEW f \in Feeds, ActivateFeed(w, f) PROVE TypeOK'
    BY <2>2 DEF ActivateFeed
  <2>3. ASSUME NEW f \in Feeds, DeactivateFeed(w, f) PROVE TypeOK'
    BY <2>3 DEF DeactivateFeed
  <2>4. CASE InsertFeed(w)
    BY <2>4 DEF InsertFeed
  <2>5. CASE LockFeeds(w)
    BY <2>5 DEF LockFeeds
  <2>6. CASE ReadFeed(w)
    BY <2>6 DEF ReadFeed
  <2>7. CASE CountFeeds(w)
    BY <2>7 DEF CountFeeds
  <2>8. CASE PauseFeed(w)
    BY <2>8 DEF PauseFeed
  <2>9. QED
    BY <1>2, <2>1, <2>2, <2>3, <2>4, <2>5, <2>6, <2>7, <2>8 DEF FeedRequest
<1>3. ASSUME NEW w \in Writers, ProductRequest(w) PROVE TypeOK'
  <2>1. ASSUME NEW n \in Names, NEW given \in SUBSET Names, NEW active \in BOOLEAN,
               CreateProduct(w, n, given, active)
        PROVE  TypeOK'
    BY <2>1 DEF CreateProduct
  <2>2. ASSUME NEW n \in Names, NEW given \in SUBSET Names, NEW p \in Products,
               UpdateProduct(w, p, n, given)
        PROVE  TypeOK'
    BY <2>2 DEF UpdateProduct
  <2>3. ASSUME NEW p \in Products, InsertProduct(w, p) PROVE TypeOK'
    <3>0. [tx[w] EXCEPT !.phase = "createAliases", !.product = p] \in Requests
      OBVIOUS
    <3>1. tx' \in [Writers -> Requests]
      <4>1. tx' = [tx EXCEPT ![w] = [tx[w] EXCEPT !.phase = "createAliases", !.product = p]]
        BY <2>3 DEF InsertProduct
      <4> HIDE DEF Requests
      <4>2. QED
        BY <3>0, <4>1
    <3>2. rowLock' \in [Products -> Writers \cup {NoWriter}]
      BY <2>3 DEF InsertProduct
    <3>3. QED
      BY <2>3, <3>1, <3>2 DEF InsertProduct
  <2>4. CASE CommitProduct(w)
    BY <2>4 DEF CommitProduct
  <2>5. CASE UpdateRow(w)
    BY <2>5 DEF UpdateRow
  <2>6. CASE WriteAliases(w)
    BY <2>6 DEF WriteAliases
  <2>7. CASE CommitUpdate(w)
    BY <2>7 DEF CommitUpdate
  <2>8. ASSUME NEW p \in Products, NEW active \in BOOLEAN, SetProductActive(w, p, active)
        PROVE  TypeOK'
    BY <2>8 DEF SetProductActive
  <2>9. CASE CountProducts(w)
    BY <2>9 DEF CountProducts
  <2>10. CASE PauseProduct(w)
    BY <2>10 DEF PauseProduct
  <2>11. CASE ResumeProduct(w)
    BY <2>11 DEF ResumeProduct
  <2> HIDE DEF TypeOK, Requests
  <2>12. QED
    BY <1>3, <2>1, <2>2, <2>3, <2>4, <2>5, <2>6, <2>7, <2>8, <2>9, <2>10, <2>11
       DEF ProductRequest
<1>4. ASSUME NEW w \in Writers, Rollback(w) PROVE TypeOK'
  BY <1>4 DEF Rollback
<1>5. QED
  BY <1>1, <1>2, <1>3, <1>4 DEF Next

(* Every request, table and lock keeps its type.                            *)
THEOREM TypeCorrect == Spec => []TypeOK
BY TypeInit, TypeStep, PTL DEF Spec

-----------------------------------------------------------------------------
(* The last active feed is safe because a request that is about to pause    *)
(* one knows of another, and nobody else can pause that one before the lock *)
(* is released.                                                             *)

HoldsLock(w) == tx[w].phase \in {"readFeed", "countFeeds", "pauseFeed"}

FeedInv ==
    /\ Present(feeds) # {} => Active(feeds) # {}
    /\ \A w \in Writers : HoldsLock(w) => feedLock = w
    /\ \A w \in Writers :
        tx[w].phase = "insertFeed" /\ ~ tx[w].active => Active(feeds) # {}
    /\ \A w \in Writers :
        tx[w].phase = "pauseFeed" => \E g \in Active(feeds) : g # tx[w].feed

LEMMA AnotherFeed ==
    ASSUME TypeOK, CountActive(feeds) > 1, NEW r
    PROVE  \E g \in Active(feeds) : g # r
<1>1. IsFiniteSet(Active(feeds))
  BY ActiveFinite, TablesFinite DEF TypeOK
<1>2. QED
  BY <1>1, AnotherOne DEF CountActive

LEMMA FeedInit == Init => FeedInv
BY DEF Init, FeedInv, Idle, HoldsLock

(* A request that changes neither feeds nor lock, and itself stays outside  *)
(* the phases the invariant speaks of.                                      *)
LEMMA FeedQuiet ==
    ASSUME TypeOK, FeedInv, NEW w \in Writers, UNCHANGED <<feeds, feedLock>>,
           \A v \in Writers \ {w} : tx'[v] = tx[v],
           tx'[w].phase \notin {"readFeed", "countFeeds", "pauseFeed", "insertFeed"}
    PROVE  FeedInv'
BY DEF FeedInv, HoldsLock, TypeOK, Active, Present

LEMMA FeedStep == TypeOK /\ FeedInv /\ [Next]_vars => FeedInv'
<1> SUFFICES ASSUME TypeOK, FeedInv, [Next]_vars PROVE FeedInv'
  OBVIOUS
<1> USE DEF Serves, GoTo, Answered
<1>1. CASE UNCHANGED vars
  BY <1>1 DEF vars, FeedInv, HoldsLock, Active, Present
<1>2. ASSUME NEW w \in Writers, FeedRequest(w) PROVE FeedInv'
  <2> USE DEF FeedInv, HoldsLock, TypeOK, Active, Present, inventory, Idle
  <2>1. ASSUME NEW f \in Feeds, NEW active \in BOOLEAN, CreateFeed(w, f, active)
        PROVE  FeedInv'
    <3>1. active \/ Active(feeds) # {}
      BY <2>1, ActiveFinite, TablesFinite DEF CreateFeed
    <3>2. QED
      BY <2>1, <3>1 DEF CreateFeed
  <2>2. ASSUME NEW f \in Feeds, ActivateFeed(w, f) PROVE FeedInv'
    BY <2>2 DEF ActivateFeed, RowStates
  <2>3. ASSUME NEW f \in Feeds, DeactivateFeed(w, f) PROVE FeedInv'
    BY <2>3 DEF DeactivateFeed
  <2>4. CASE InsertFeed(w)
    <3>1. \A g \in Active(feeds) : feeds'[g] = "active"
      BY <2>4 DEF InsertFeed
    <3>2. Active(feeds') # {}
      <4>1. tx[w].feed \in Feeds /\ tx[w].active \in BOOLEAN
        BY DEF Requests
      <4>2. CASE tx[w].active
        BY <2>4, <4>1, <4>2 DEF InsertFeed, Flag
      <4>3. CASE ~ tx[w].active
        BY <2>4, <3>1, <4>3 DEF InsertFeed
      <4>4. QED
        BY <4>1, <4>2, <4>3
    <3>3. \A v \in Writers \ {w} : tx'[v] = tx[v]
      BY <2>4 DEF InsertFeed
    <3>4. tx'[w].phase = "idle" /\ feedLock' = feedLock
      BY <2>4 DEF InsertFeed
    <3>5. \A v \in Writers : tx'[v].phase = "pauseFeed" =>
                               \E g \in Active(feeds') : g # tx'[v].feed
      BY <3>1, <3>3, <3>4, <2>4 DEF InsertFeed
    <3>6. QED
      BY <3>2, <3>3, <3>4, <3>5
  <2>5. CASE LockFeeds(w)
    BY <2>5, NoWriterAssumption DEF LockFeeds
  <2>6. CASE ReadFeed(w)
    BY <2>6 DEF ReadFeed, RowStates
  <2>7. CASE CountFeeds(w)
    <3>1. CountActive(feeds) > 1
      BY <2>7 DEF CountFeeds
    <3>2. PICK g \in Active(feeds) : g # tx[w].feed
      <4> HIDE DEF Active, TypeOK
      <4>1. QED
        BY <3>1, AnotherFeed
    <3>3. tx' = [tx EXCEPT ![w].phase = "pauseFeed"] /\ UNCHANGED <<feeds, feedLock>>
      BY <2>7 DEF CountFeeds
    <3>4. tx'[w].feed = tx[w].feed /\ tx'[w].phase = "pauseFeed"
      BY <3>3 DEF Requests
    <3>5. \A v \in Writers \ {w} : tx'[v] = tx[v]
      BY <3>3
    <3>6. feedLock = w
      BY <2>7 DEF CountFeeds
    <3>7. QED
      BY <3>2, <3>3, <3>4, <3>5, <3>6
  <2>8. CASE PauseFeed(w)
    <3>1. PICK g \in Active(feeds) : g # tx[w].feed
      BY <2>8 DEF PauseFeed
    <3>2. g \in Active(feeds)'
      BY <2>8, <3>1 DEF PauseFeed
    <3>3. \A v \in Writers \ {w} : ~ HoldsLock(v) /\ tx'[v] = tx[v]
      BY <2>8 DEF PauseFeed
    <3>4. QED
      BY <2>8, <3>2, <3>3 DEF PauseFeed
  <2>9. QED
    BY <1>2, <2>1, <2>2, <2>3, <2>4, <2>5, <2>6, <2>7, <2>8 DEF FeedRequest
<1>3. ASSUME NEW w \in Writers, ProductRequest(w) PROVE FeedInv'
  <2> USE DEF TypeOK, Requests, Idle
  <2>1. ASSUME NEW n \in Names, NEW given \in SUBSET Names, NEW active \in BOOLEAN,
               CreateProduct(w, n, given, active)
        PROVE  FeedInv'
    BY <2>1, FeedQuiet DEF CreateProduct
  <2>2. ASSUME NEW n \in Names, NEW given \in SUBSET Names, NEW p \in Products,
               UpdateProduct(w, p, n, given)
        PROVE  FeedInv'
    BY <2>2, FeedQuiet DEF UpdateProduct
  <2>3. ASSUME NEW p \in Products, InsertProduct(w, p) PROVE FeedInv'
    BY <2>3, FeedQuiet DEF InsertProduct
  <2>4. CASE CommitProduct(w)
    BY <2>4, FeedQuiet DEF CommitProduct
  <2>5. CASE UpdateRow(w)
    BY <2>5, FeedQuiet DEF UpdateRow
  <2>6. CASE WriteAliases(w)
    BY <2>6, FeedQuiet DEF WriteAliases
  <2>7. CASE CommitUpdate(w)
    BY <2>7, FeedQuiet DEF CommitUpdate
  <2>8. ASSUME NEW p \in Products, NEW active \in BOOLEAN, SetProductActive(w, p, active)
        PROVE  FeedInv'
    BY <2>8, FeedQuiet DEF SetProductActive
  <2>9. CASE CountProducts(w)
    BY <2>9, FeedQuiet DEF CountProducts
  <2>10. CASE PauseProduct(w)
    BY <2>10, FeedQuiet DEF PauseProduct
  <2>11. CASE ResumeProduct(w)
    BY <2>11, FeedQuiet DEF ResumeProduct
  <2> HIDE DEF TypeOK, Requests
  <2>12. QED
    BY <1>3, <2>1, <2>2, <2>3, <2>4, <2>5, <2>6, <2>7, <2>8, <2>9, <2>10, <2>11
       DEF ProductRequest
<1>4. ASSUME NEW w \in Writers, Rollback(w) PROVE FeedInv'
  BY <1>4 DEF Rollback, FeedInv, HoldsLock, TypeOK, Active, Present, Idle
<1>5. QED
  BY <1>1, <1>2, <1>3, <1>4 DEF Next

(* No interleaving of requests leaves the workspace without an active feed  *)
(* once it has one (setFeedActive, createFeed).                             *)
THEOREM LastFeedStays == Spec => ActiveFeedRemains
<1>1. FeedInv /\ FeedInv' /\ TypeOK /\ [Next]_vars
        => [Active(feeds) # {} => Active(feeds)' # {}]_vars
  <2> SUFFICES ASSUME FeedInv', TypeOK, [Next]_vars, Active(feeds) # {}
               PROVE  Active(feeds)' # {}
    OBVIOUS
  <2>1. \A f \in Feeds : feeds[f] # "absent" => feeds'[f] # "absent"
    BY DEF Next, vars, FeedRequest, ProductRequest, Rollback, CreateFeed, InsertFeed,
         ActivateFeed, DeactivateFeed, LockFeeds, ReadFeed, CountFeeds, PauseFeed,
         CreateProduct, UpdateProduct, InsertProduct, CommitProduct, UpdateRow, WriteAliases,
         CommitUpdate, SetProductActive, CountProducts, PauseProduct, ResumeProduct,
         TypeOK, Present, Serves, Flag
  <2>2. DOMAIN feeds = Feeds /\ DOMAIN feeds' = Feeds
    BY TypeStep DEF TypeOK
  <2>3. Present(feeds)' # {}
    BY <2>1, <2>2 DEF Active, Present
  <2>4. QED
    BY <2>3 DEF FeedInv
<1>2. QED
  BY <1>1, TypeInit, TypeStep, FeedInit, FeedStep, PTL DEF Spec, ActiveFeedRemains

-----------------------------------------------------------------------------
(* A save owns the row of its product from its first write to its commit,   *)
(* so the aliases it deletes are all there are.                             *)

Owner(w) == tx[w].phase \in {"createAliases", "writeAliases", "commitUpdate"}

SaveInv ==
    /\ \A w \in Writers : Owner(w) => rowLock[tx[w].product] = w
    /\ \A w \in Writers :
        tx[w].phase = "commitUpdate" => tx[w].deleted = aliases[tx[w].product]
    /\ \A w \in Writers :
        tx[w].phase = "createAliases" => products[tx[w].product] = "absent"

LEMMA SaveInit == Init => SaveInv
BY DEF Init, SaveInv, Idle, Owner

LEMMA SaveStep == TypeOK /\ SaveInv /\ [Next]_vars => SaveInv'
<1> SUFFICES ASSUME TypeOK, SaveInv, [Next]_vars PROVE SaveInv'
  OBVIOUS
<1> USE NoWriterAssumption
    DEF SaveInv, Owner, TypeOK, Requests, Idle, Serves, GoTo, Answered, inventory
<1>1. CASE UNCHANGED vars
  BY <1>1 DEF vars
<1>2. ASSUME NEW w \in Writers, FeedRequest(w) PROVE SaveInv'
  <2>1. ASSUME NEW f \in Feeds, NEW active \in BOOLEAN, CreateFeed(w, f, active)
        PROVE  SaveInv'
    BY <2>1 DEF CreateFeed
  <2>2. ASSUME NEW f \in Feeds, ActivateFeed(w, f) PROVE SaveInv'
    BY <2>2 DEF ActivateFeed
  <2>3. ASSUME NEW f \in Feeds, DeactivateFeed(w, f) PROVE SaveInv'
    BY <2>3 DEF DeactivateFeed
  <2>4. CASE InsertFeed(w)
    BY <2>4 DEF InsertFeed
  <2>5. CASE LockFeeds(w)
    BY <2>5 DEF LockFeeds
  <2>6. CASE ReadFeed(w)
    BY <2>6 DEF ReadFeed
  <2>7. CASE CountFeeds(w)
    BY <2>7 DEF CountFeeds
  <2>8. CASE PauseFeed(w)
    BY <2>8 DEF PauseFeed
  <2> HIDE DEF TypeOK, Requests, SaveInv
  <2>9. QED
    BY <1>2, <2>1, <2>2, <2>3, <2>4, <2>5, <2>6, <2>7, <2>8 DEF FeedRequest
<1>3. ASSUME NEW w \in Writers, ProductRequest(w) PROVE SaveInv'
  <2>1. ASSUME NEW n \in Names, NEW given \in SUBSET Names, NEW active \in BOOLEAN,
               CreateProduct(w, n, given, active)
        PROVE  SaveInv'
    BY <2>1 DEF CreateProduct
  <2>2. ASSUME NEW n \in Names, NEW given \in SUBSET Names, NEW p \in Products,
               UpdateProduct(w, p, n, given)
        PROVE  SaveInv'
    BY <2>2 DEF UpdateProduct
  <2>3. ASSUME NEW p \in Products, InsertProduct(w, p) PROVE SaveInv'
    BY <2>3 DEF InsertProduct
  <2>4. CASE CommitProduct(w)
    BY <2>4 DEF CommitProduct
  <2>5. CASE UpdateRow(w)
    BY <2>5 DEF UpdateRow
  <2>6. CASE WriteAliases(w)
    BY <2>6 DEF WriteAliases
  <2>7. CASE CommitUpdate(w)
    BY <2>7 DEF CommitUpdate
  <2>8. ASSUME NEW p \in Products, NEW active \in BOOLEAN, SetProductActive(w, p, active)
        PROVE  SaveInv'
    BY <2>8 DEF SetProductActive
  <2>9. CASE CountProducts(w)
    BY <2>9 DEF CountProducts
  <2>10. CASE PauseProduct(w)
    BY <2>10 DEF PauseProduct
  <2>11. CASE ResumeProduct(w)
    BY <2>11 DEF ResumeProduct
  <2> HIDE DEF TypeOK, Requests, SaveInv
  <2>12. QED
    BY <1>3, <2>1, <2>2, <2>3, <2>4, <2>5, <2>6, <2>7, <2>8, <2>9, <2>10, <2>11
       DEF ProductRequest
<1>4. ASSUME NEW w \in Writers, Rollback(w) PROVE SaveInv'
  BY <1>4 DEF Rollback
<1>5. QED
  BY <1>1, <1>2, <1>3, <1>4 DEF Next

(* Edits of one product that overlap never mix: its name and its aliases    *)
(* are always those of one save (updateProduct, createProduct,              *)
(* replaceProductAliases).                                                  *)
THEOREM SavesAreWhole == Spec => SavesWhole
<1> DEFINE Whole(p) ==
        aliases'[p] # aliases[p] \/ name'[p] # name[p] =>
            \E w \in Writers : /\ name'[p] = tx[w].name
                               /\ aliases'[p] = {tx[w].name} \cup tx[w].given
<1>1. TypeOK /\ SaveInv /\ [Next]_vars => [\A p \in Products : Whole(p)]_vars
  <2> SUFFICES ASSUME TypeOK, SaveInv, [Next]_vars, NEW p \in Products PROVE Whole(p)
    OBVIOUS
  <2>1. CASE UNCHANGED <<name, aliases>>
    BY <2>1
  <2>2. ASSUME NEW w \in Writers, CommitProduct(w) PROVE Whole(p)
    BY <2>2 DEF CommitProduct, Stored, TypeOK, Serves
  <2>3. ASSUME NEW w \in Writers, CommitUpdate(w) PROVE Whole(p)
    <3>1. tx[w].deleted = aliases[tx[w].product]
      BY <2>3 DEF CommitUpdate, SaveInv, Serves
    <3>2. QED
      BY <2>3, <3>1 DEF CommitUpdate, Stored, TypeOK
  <2>4. \/ UNCHANGED <<name, aliases>>
        \/ \E w \in Writers : CommitProduct(w) \/ CommitUpdate(w)
    BY DEF Next, vars, FeedRequest, ProductRequest, Rollback, CreateFeed, InsertFeed,
         ActivateFeed, DeactivateFeed, LockFeeds, ReadFeed, CountFeeds, PauseFeed,
         CreateProduct, UpdateProduct, InsertProduct, UpdateRow, WriteAliases,
         SetProductActive, CountProducts, PauseProduct, ResumeProduct, inventory
  <2>5. QED
    BY <2>1, <2>2, <2>3, <2>4
<1>2. QED
  BY <1>1, TypeInit, TypeStep, SaveInit, SaveStep, PTL DEF Spec, SavesWhole
=============================================================================
