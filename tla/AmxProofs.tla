----------------------------- MODULE AmxProofs -----------------------------
(***************************************************************************)
(* Proofs about the market, for every number of listings, orders and       *)
(* actors and every price: the index, the life of an order, and the match  *)
(* that the scores pick.  There are finitely many listings at any time, so *)
(* a best one exists; that is shown with a smallest set without one.       *)
(***************************************************************************)
EXTENDS Amx, TLAPS, FiniteSetTheorems, WellFoundedInduction

-----------------------------------------------------------------------------
(* Finite sets of scores.                                                  *)

\* A total and transitive relation has a best element in every finite set: the
\* smallest set without one would have one after all.
LEMMA FiniteBest ==
  ASSUME NEW C, IsFiniteSet(C), C # {}, NEW R,
         \A i, j \in C : i # j => <<i, j>> \in R \/ <<j, i>> \in R,
         \A i, j, k \in C : <<i, j>> \in R /\ <<j, k>> \in R => <<i, k>> \in R
  PROVE  \E i \in C : \A j \in C \ {i} : <<i, j>> \in R
<1> DEFINE Good(S) == \E i \in S : \A j \in S \ {i} : <<i, j>> \in R
           T == {S \in FiniteSubsetsOf(C) : S # {} /\ ~Good(S)}
<1>1. C \in FiniteSubsetsOf(C)
  BY DEF FiniteSubsetsOf
<1>2. SUFFICES T = {}
  BY <1>1, <1>2
<1>3. SUFFICES ASSUME T # {} PROVE FALSE
  OBVIOUS
<1>4. PICK S \in T : \A Y \in T : <<Y, S>> \notin StrictSubsetOrdering(C)
  <2>1. IsWellFoundedOn(StrictSubsetOrdering(C), FiniteSubsetsOf(C))
    BY FS_StrictSubsetOrderingWellFounded
  <2>2. T \subseteq FiniteSubsetsOf(C)
    OBVIOUS
  <2> HIDE DEF T
  <2> QED BY <1>3, <2>1, <2>2, WFMin
<1>5. PICK x \in S : TRUE
  OBVIOUS
<1> DEFINE Y == S \ {x}
<1>6. S \subseteq C /\ IsFiniteSet(S)
  BY DEF FiniteSubsetsOf
<1>7. Y \in FiniteSubsetsOf(C) /\ <<Y, S>> \in StrictSubsetOrdering(C)
  BY <1>5, <1>6, FS_RemoveElement DEF FiniteSubsetsOf, StrictSubsetOrdering
<1>8. Y = {} \/ Good(Y)
  BY <1>4, <1>7
<1>9. CASE Y = {}
  BY <1>5, <1>9
<1>10. CASE Good(Y)
  <2>1. PICK i \in Y : \A j \in Y \ {i} : <<i, j>> \in R
    BY <1>10
  <2>2. i \in C /\ x \in C /\ i # x
    BY <1>5, <1>6
  <2>3. CASE <<i, x>> \in R
    <3>1. \A j \in S \ {i} : <<i, j>> \in R
      BY <2>1, <2>3
    <3> QED BY <3>1, <2>1
  <2>4. CASE <<x, i>> \in R
    <3>1. \A j \in S \ {x} : <<x, j>> \in R
      BY <2>1, <2>2, <2>4, <1>6
    <3> QED BY <3>1, <1>5
  <2> QED BY <2>2, <2>3, <2>4
<1> QED BY <1>8, <1>9, <1>10

\* A positive factor keeps an order.
LEMMA Times ==
  ASSUME NEW a \in Int, NEW b \in Int, NEW d \in Int, d > 0
  PROVE  (a * d >= b * d <=> a >= b) /\ (a * d > b * d <=> a > b)
<1>1. a * d - b * d = (a - b) * d
  OBVIOUS
<1>2. (a - b) \in Int
  OBVIOUS
<1>3. \A x, y \in Int : y > 0 => (x * y > 0 <=> x > 0) /\ (x * y >= 0 <=> x >= 0)
  OBVIOUS
<1>4. a * d \in Int /\ b * d \in Int
  OBVIOUS
<1> QED BY <1>1, <1>2, <1>3, <1>4

\* Fractions are compared transitively by multiplying crosswise.
LEMMA FractionsOrdered ==
  ASSUME NEW a \in Int, NEW c \in Int, NEW e \in Int,
         NEW b \in Int, NEW d \in Int, NEW f \in Int, b > 0, d > 0, f > 0,
         a * d >= c * b, c * f >= e * d
  PROVE  a * f >= e * b /\ (a * d > c * b \/ c * f > e * d => a * f > e * b)
<1> DEFINE p == a * d  q == c * b  r == c * f  s == e * d
<1>1. p \in Int /\ q \in Int /\ r \in Int /\ s \in Int /\ a * f \in Int /\ e * b \in Int
  OBVIOUS
<1>2. p * f >= q * f /\ (p > q => p * f > q * f)
  BY <1>1, Times
<1>3. r * b >= s * b /\ (r > s => r * b > s * b)
  BY <1>1, Times
<1>4. q * f = r * b /\ p * f = (a * f) * d /\ s * b = (e * b) * d
  OBVIOUS
<1>5. p * f \in Int /\ q * f \in Int /\ s * b \in Int /\ r * b \in Int
  OBVIOUS
<1>6. (a * f) * d >= (e * b) * d /\ (p > q \/ r > s => (a * f) * d > (e * b) * d)
  BY <1>2, <1>3, <1>4, <1>5
<1> QED BY <1>6, <1>1, Times

\* Of finitely many numbered fractions one is the largest, the first among equals.
LEMMA BestExists ==
  ASSUME NEW C \in SUBSET Int, IsFiniteSet(C), C # {}, NEW N \in [C -> Int], NEW D \in [C -> Nat \ {0}]
  PROVE  \E i \in C : \A j \in C \ {i} :
           \/ N[i] * D[j] > N[j] * D[i]
           \/ N[i] * D[j] = N[j] * D[i] /\ i < j
<1> DEFINE B(i, j) == N[i] * D[j] > N[j] * D[i] \/ (N[i] * D[j] = N[j] * D[i] /\ i < j)
           R == {p \in C \X C : B(p[1], p[2])}
<1>1. \A i, j \in C : <<i, j>> \in R <=> B(i, j)
  OBVIOUS
<1>2. \A i, j \in C : i # j => B(i, j) \/ B(j, i)
  <2> SUFFICES ASSUME NEW i \in C, NEW j \in C, i # j PROVE B(i, j) \/ B(j, i)
    OBVIOUS
  <2>1. N[i] * D[j] \in Int /\ N[j] * D[i] \in Int /\ i \in Int /\ j \in Int
    OBVIOUS
  <2> QED BY <2>1
<1>3. \A i, j, k \in C : B(i, j) /\ B(j, k) => B(i, k)
  <2> SUFFICES ASSUME NEW i \in C, NEW j \in C, NEW k \in C, B(i, j), B(j, k) PROVE B(i, k)
    OBVIOUS
  <2>1. /\ N[i] \in Int /\ N[j] \in Int /\ N[k] \in Int
        /\ D[i] \in Int /\ D[j] \in Int /\ D[k] \in Int /\ D[i] > 0 /\ D[j] > 0 /\ D[k] > 0
        /\ i \in Int /\ j \in Int /\ k \in Int
    OBVIOUS
  <2>2. /\ N[i] * D[j] \in Int /\ N[j] * D[i] \in Int /\ N[j] * D[k] \in Int /\ N[k] * D[j] \in Int
        /\ N[i] * D[k] \in Int /\ N[k] * D[i] \in Int
    BY <2>1
  <2>3. N[i] * D[j] >= N[j] * D[i] /\ N[j] * D[k] >= N[k] * D[j]
    BY <2>2
  <2>4. /\ N[i] * D[k] >= N[k] * D[i]
        /\ N[i] * D[j] > N[j] * D[i] \/ N[j] * D[k] > N[k] * D[j] => N[i] * D[k] > N[k] * D[i]
    BY <2>1, <2>3, FractionsOrdered
  <2> QED BY <2>1, <2>2, <2>4
<1> HIDE DEF B, R
<1>4. /\ \A i, j \in C : i # j => <<i, j>> \in R \/ <<j, i>> \in R
      /\ \A i, j, k \in C : <<i, j>> \in R /\ <<j, k>> \in R => <<i, k>> \in R
  BY <1>1, <1>2, <1>3
<1>5. \E i \in C : \A j \in C \ {i} : <<i, j>> \in R
  BY <1>4, FiniteBest
<1> QED BY <1>1, <1>5 DEF B

-----------------------------------------------------------------------------
(* Listings and their index.                                               *)

(* The inductive invariant.                                                *)
ListingInv ==
  /\ Listings \subseteq ListingIds /\ IsFiniteSet(Listings)
  /\ listing = [i \in Listings |-> listing[i]]
  /\ \A i \in Listings : listing[i] \in Listing
  /\ IndexCoversListings

\* A listing whose capabilities stay is replaced.
LEMMA ReplaceListing ==
  ASSUME ListingInv, NEW id \in Listings, NEW l \in Listing,
         l.caps = listing[id].caps,
         listing' = [listing EXCEPT ![id] = l], index' = index
  PROVE  ListingInv'
<1>1. /\ Listings' = Listings /\ listing' = [i \in Listings' |-> listing'[i]]
      /\ listing'[id] = l /\ \A i \in Listings : i # id => listing'[i] = listing[i]
  BY DEF ListingInv, Listings
<1>2. IndexCoversListings'
  BY <1>1 DEF ListingInv, IndexCoversListings
<1> QED BY <1>1, <1>2 DEF ListingInv

LEMMA CreateKeeps ==
  ASSUME ListingInv, NEW s \in Actors, NEW id \in ListingIds, NEW caps \in CapLists,
         NEW u \in Currencies, NEW p \in Prices, createListing(s, id, caps, u, p)
  PROVE  ListingInv'
<1> DEFINE l == [provider |-> s, caps |-> caps, currency |-> u, price |-> p,
                 status |-> "LISTING_ACTIVE"]
<1>1. l \in Listing /\ l.caps = caps
  BY DEF Listing, ListingStatuses
<1>2. listing' = Stored(listing, id, l) /\ index' = index \cup Indexed(id, caps)
  BY DEF createListing
<1> HIDE DEF l
<1>3. /\ Listings' = Listings \cup {id} /\ listing' = [i \in Listings' |-> listing'[i]]
      /\ listing'[id] = l /\ \A i \in Listings : i # id => listing'[i] = listing[i]
  BY <1>2 DEF Stored, Listings
<1>4. /\ \A c \in ToSet(caps) : <<c, id>> \in Indexed(id, caps)
      /\ \A e \in Indexed(id, caps) : e[2] = id
  BY DEF Indexed
<1>5. IndexCoversListings'
  BY <1>1, <1>2, <1>3, <1>4 DEF ListingInv, IndexCoversListings
<1>6. IsFiniteSet(Listings')
  BY <1>3, FS_AddElement DEF ListingInv
<1> QED BY <1>1, <1>3, <1>5, <1>6 DEF ListingInv

LEMMA UpdateKeeps ==
  ASSUME ListingInv, NEW s \in Actors, NEW id \in Listings, NEW u \in Currencies,
         NEW p \in Prices \cup {BadPrice}, updateListing(s, id, u, p)
  PROVE  ListingInv'
<1> DEFINE l == [listing[id] EXCEPT !.currency = u, !.price = p]
<1>1. listing[id] \in Listing
  BY DEF ListingInv
<1>2. l \in Listing /\ l.caps = listing[id].caps
  BY <1>1 DEF Listing
<1>3. listing' = [listing EXCEPT ![id] = l] /\ index' = index
  BY DEF updateListing
<1> HIDE DEF l
<1> QED BY <1>2, <1>3, ReplaceListing

LEMMA ToggleKeeps ==
  ASSUME ListingInv, NEW s \in Actors, NEW id \in Listings, NEW next \in ListingStatuses,
         toggleListing(s, id, next)
  PROVE  ListingInv'
<1> DEFINE l == [listing[id] EXCEPT !.status = next]
<1>1. listing[id] \in Listing
  BY DEF ListingInv
<1>2. l \in Listing /\ l.caps = listing[id].caps
  BY <1>1 DEF Listing
<1>3. listing' = [listing EXCEPT ![id] = l] /\ index' = index
  BY DEF toggleListing, Toggled
<1> HIDE DEF l
<1> QED BY <1>2, <1>3, ReplaceListing

\* The steps that write orders.
OrderStep ==
  \/ \E s \in Actors, o \in OrderIds, r \in Required, u \in Currencies, b \in Budgets :
       submitRequestFails(s, o, r, u, b) \/ submitRequest(s, o, r, u, b)
  \/ \E s \in Actors, o \in Orders :
       \/ transitionOrder(s, o, ConfirmMatch) \/ transitionOrder(s, o, RejectMatch)
       \/ transitionOrder(s, o, CancelOrder)

\* Listings' steps keep the listings' invariant and leave the orders alone, and
\* the other way round.
LEMMA ListingStep ==
  ASSUME ListingInv, [Next]_vars
  PROVE  ListingInv' /\ (order' = order \/ OrderStep)
<1>1. ASSUME NEW s \in Actors, NEW i \in ListingIds, NEW c \in CapLists, NEW u \in Currencies,
             NEW p \in Prices, createListing(s, i, c, u, p)
      PROVE  ListingInv' /\ order' = order
  BY <1>1, CreateKeeps DEF createListing
<1>2. ASSUME NEW s \in Actors, NEW i \in Listings, NEW u \in Currencies,
             NEW p \in Prices \cup {BadPrice}, updateListing(s, i, u, p)
      PROVE  ListingInv' /\ order' = order
  BY <1>2, UpdateKeeps DEF updateListing
<1>3. ASSUME NEW s \in Actors, NEW i \in Listings,
             \/ toggleListing(s, i, "LISTING_PAUSED")
             \/ toggleListing(s, i, "LISTING_DELISTED")
      PROVE  ListingInv' /\ order' = order
  BY <1>3, ToggleKeeps DEF toggleListing, ListingStatuses
<1>4. ASSUME OrderStep PROVE ListingInv'
  <2>1. listing' = listing /\ index' = index
    BY <1>4 DEF OrderStep, submitRequestFails, submitRequest, transitionOrder
  <2> QED BY <2>1 DEF ListingInv, Listings, IndexCoversListings
<1>5. CASE UNCHANGED vars
  BY <1>5 DEF vars, ListingInv, Listings, IndexCoversListings
<1>6. CASE Next
  BY <1>1, <1>2, <1>3, <1>4, <1>6 DEF Next, OrderStep
<1> QED BY <1>5, <1>6

LEMMA ListingInit == Init => ListingInv
BY FS_EmptySet DEF Init, ListingInv, Listings, IndexCoversListings

\* The index finds every listing under each of its capabilities and names no
\* other, however listings are created over one another, updated and toggled.
THEOREM IndexCorrect == Spec => []IndexCoversListings
<1>1. ListingInv => IndexCoversListings
  BY DEF ListingInv
<1> QED BY <1>1, ListingInit, ListingStep, PTL DEF Spec

-----------------------------------------------------------------------------
(* Orders.                                                                 *)

\* A record with the fields of an order, whatever listing it names.
Shaped(o) ==
  o \in [listing : {o.listing}, consumer : Actors, provider : {o.provider},
         price : {o.price}, status : OrderStatuses]

(* The inductive invariant.                                                *)
OrderInv ==
  /\ order = [o \in Orders |-> order[o]]
  /\ \A o \in Orders : Shaped(order[o])

\* What OrdersOnlyAdvance says of one order.
Advances(a, b) ==
  /\ [b EXCEPT !.status = a.status] = a
  /\ a.status \in {"ORDER_CANCELED", "ORDER_REJECTED", "ORDER_FAILED"} => b.status = a.status
  /\ a.status \in {"ORDER_ESCROWED", "ORDER_ACTIVE"} =>
       b.status \in {"ORDER_ESCROWED", "ORDER_ACTIVE", "ORDER_CANCELED"}
  /\ a.status = "ORDER_ACTIVE" => b.status # "ORDER_ESCROWED"

Kept == OrderInv' /\ \A o \in Orders : Advances(order[o], order'[o])

\* An order that is left alone.
LEMMA SameAdvances ==
  ASSUME NEW a, Shaped(a)
  PROVE  Advances(a, a)
BY DEF Shaped, Advances

LEMMA NewOrder ==
  ASSUME OrderInv, NEW id, id \notin Orders, NEW r, Shaped(r), order' = Stored(order, id, r)
  PROVE  Kept
<1>1. /\ Orders' = Orders \cup {id} /\ order' = [o \in Orders' |-> order'[o]]
      /\ order'[id] = r /\ \A o \in Orders : order'[o] = order[o]
  BY DEF Stored, Orders
<1>2. OrderInv'
  BY <1>1 DEF OrderInv
<1>3. \A o \in Orders : Advances(order[o], order'[o])
  BY <1>1, SameAdvances DEF OrderInv
<1> QED BY <1>2, <1>3 DEF Kept

LEMMA MovedOrder ==
  ASSUME OrderInv, NEW id \in Orders, NEW st \in OrderStatuses,
         order' = [order EXCEPT ![id].status = st],
         LET a == order[id].status IN
           \/ a = "ORDER_MATCHED"
           \/ a = "ORDER_ESCROWED" /\ st \in {"ORDER_ACTIVE", "ORDER_CANCELED"}
           \/ a = "ORDER_ACTIVE" /\ st = "ORDER_CANCELED"
  PROVE  Kept
<1> DEFINE r == [order[id] EXCEPT !.status = st]
<1>1. Shaped(order[id])
  BY DEF OrderInv
<1>2. Shaped(r)
  BY <1>1 DEF Shaped
<1>3. Advances(order[id], r)
  BY <1>1 DEF Shaped, Advances
<1>4. order' = [order EXCEPT ![id] = r]
  OBVIOUS
<1> HIDE DEF r
<1>5. /\ Orders' = Orders /\ order' = [o \in Orders' |-> order'[o]]
      /\ order'[id] = r /\ \A o \in Orders : o # id => order'[o] = order[o]
  BY <1>4 DEF OrderInv, Orders
<1>6. OrderInv'
  BY <1>2, <1>5 DEF OrderInv
<1>7. \A o \in Orders : Advances(order[o], order'[o])
  BY <1>3, <1>5, SameAdvances DEF OrderInv
<1> QED BY <1>6, <1>7 DEF Kept

LEMMA OrdersKept ==
  ASSUME OrderInv, OrderStep
  PROVE  Kept
<1>1. ASSUME NEW s \in Actors, NEW o \in OrderIds, NEW r \in Required, NEW u \in Currencies,
             NEW b \in Budgets, submitRequestFails(s, o, r, u, b)
      PROVE  Kept
  <2> DEFINE n == [listing |-> None, consumer |-> s, provider |-> None,
                   price |-> None, status |-> "ORDER_FAILED"]
  <2>1. Shaped(n)
    BY DEF Shaped, OrderStatuses
  <2>2. o \notin Orders /\ order' = Stored(order, o, n)
    BY <1>1 DEF submitRequestFails
  <2> HIDE DEF n
  <2> QED BY <2>1, <2>2, NewOrder
<1>2. ASSUME NEW s \in Actors, NEW o \in OrderIds, NEW r \in Required, NEW u \in Currencies,
             NEW b \in Budgets, submitRequest(s, o, r, u, b)
      PROVE  Kept
  <2> DEFINE best == Best(Candidates(r, u, b))
             n(l, p, c) == [listing |-> l, consumer |-> s, provider |-> p,
                            price |-> c, status |-> "ORDER_MATCHED"]
  <2>1. \A l, p, c : Shaped(n(l, p, c))
    BY DEF Shaped, OrderStatuses
  <2>2. o \notin Orders
        /\ order' = Stored(order, o, n(best, listing[best].provider, listing[best].price))
    BY <1>2 DEF submitRequest
  <2> HIDE DEF n, best
  <2> QED BY <2>1, <2>2, NewOrder
<1>3. ASSUME NEW s \in Actors, NEW o \in Orders,
             \/ transitionOrder(s, o, ConfirmMatch) \/ transitionOrder(s, o, RejectMatch)
             \/ transitionOrder(s, o, CancelOrder)
      PROVE  Kept
  <2> DEFINE a == order[o].status
  <2>1. CASE transitionOrder(s, o, ConfirmMatch)
    <3>1. \/ a = "ORDER_MATCHED" /\ order' = [order EXCEPT ![o].status = "ORDER_ESCROWED"]
          \/ a = "ORDER_ESCROWED" /\ order' = [order EXCEPT ![o].status = "ORDER_ACTIVE"]
      <4>1. a \in DOMAIN ConfirmMatch /\ order' = [order EXCEPT ![o].status = ConfirmMatch[a]]
        BY <2>1 DEF transitionOrder
      <4>2. DOMAIN ConfirmMatch = {"ORDER_MATCHED", "ORDER_ESCROWED"}
        BY DEF ConfirmMatch
      <4>3. /\ ConfirmMatch["ORDER_MATCHED"] = "ORDER_ESCROWED"
            /\ ConfirmMatch["ORDER_ESCROWED"] = "ORDER_ACTIVE"
        BY DEF ConfirmMatch
      <4> HIDE DEF a
      <4> QED BY <4>1, <4>2, <4>3
    <3> QED BY <3>1, MovedOrder DEF OrderStatuses
  <2>2. CASE transitionOrder(s, o, RejectMatch)
    <3>1. a = "ORDER_MATCHED" /\ order' = [order EXCEPT ![o].status = "ORDER_REJECTED"]
      <4>1. a \in DOMAIN RejectMatch /\ order' = [order EXCEPT ![o].status = RejectMatch[a]]
        BY <2>2 DEF transitionOrder
      <4>2. DOMAIN RejectMatch = {"ORDER_MATCHED"}
        BY DEF RejectMatch
      <4>3. /\ RejectMatch["ORDER_MATCHED"] = "ORDER_REJECTED"
        BY DEF RejectMatch
      <4> HIDE DEF a
      <4> QED BY <4>1, <4>2, <4>3
    <3> QED BY <3>1, MovedOrder DEF OrderStatuses
  <2>3. CASE transitionOrder(s, o, CancelOrder)
    <3>1. /\ a \in {"ORDER_MATCHED", "ORDER_ESCROWED", "ORDER_ACTIVE"}
          /\ order' = [order EXCEPT ![o].status = "ORDER_CANCELED"]
      <4>1. a \in DOMAIN CancelOrder /\ order' = [order EXCEPT ![o].status = CancelOrder[a]]
        BY <2>3 DEF transitionOrder
      <4>2. DOMAIN CancelOrder = {"ORDER_MATCHED", "ORDER_ESCROWED", "ORDER_ACTIVE"}
        BY DEF CancelOrder
      <4>3. /\ CancelOrder["ORDER_MATCHED"] = "ORDER_CANCELED"
            /\ CancelOrder["ORDER_ESCROWED"] = "ORDER_CANCELED"
            /\ CancelOrder["ORDER_ACTIVE"] = "ORDER_CANCELED"
        BY DEF CancelOrder
      <4> HIDE DEF a
      <4> QED BY <4>1, <4>2, <4>3
    <3> QED BY <3>1, MovedOrder DEF OrderStatuses
  <2> QED BY <1>3, <2>1, <2>2, <2>3
<1> QED BY <1>1, <1>2, <1>3 DEF OrderStep

LEMMA OrderInvStep ==
  ASSUME ListingInv, OrderInv, [Next]_vars
  PROVE  Kept
<1>1. CASE OrderStep
  BY <1>1, OrdersKept
<1>2. CASE order' = order
  BY <1>2, SameAdvances DEF Kept, OrderInv, Orders
<1> QED BY <1>1, <1>2, ListingStep

\* Consumer and provider move an order independently; a closed order stays
\* closed, an accepted one never goes back, parties and price never change.
THEOREM OrdersCorrect == Spec => OrdersOnlyAdvance
<1> DEFINE Step == \A o \in Orders :
       /\ [order'[o] EXCEPT !.status = order[o].status] = order[o]
       /\ order[o].status \in {"ORDER_CANCELED", "ORDER_REJECTED", "ORDER_FAILED"} =>
            order'[o].status = order[o].status
       /\ order[o].status \in {"ORDER_ESCROWED", "ORDER_ACTIVE"} =>
            order'[o].status \in {"ORDER_ESCROWED", "ORDER_ACTIVE", "ORDER_CANCELED"}
       /\ order[o].status = "ORDER_ACTIVE" => order'[o].status # "ORDER_ESCROWED"
<1>1. Init => ListingInv /\ OrderInv
  BY ListingInit DEF Init, OrderInv, Orders
<1>2. ListingInv /\ OrderInv /\ [Next]_vars => ListingInv' /\ OrderInv'
  BY ListingStep, OrderInvStep DEF Kept
<1>3. ListingInv /\ OrderInv /\ [Next]_vars => [Step]_vars
  <2>1. ListingInv /\ OrderInv /\ [Next]_vars => Step
    BY OrderInvStep DEF Kept, Advances
  <2> QED BY <2>1
<1> QED BY <1>1, <1>2, <1>3, PTL DEF Spec, OrdersOnlyAdvance
-----------------------------------------------------------------------------
(* The match.                                                              *)

\* The cheapest and the dearest price of a nonempty finite set of listings.
LEMMA PriceRange ==
  ASSUME NEW C \in SUBSET Int, IsFiniteSet(C), C # {}, NEW P \in [C -> Int]
  PROVE  LET S == {P[i] : i \in C} IN
         Min(S) \in Int /\ Max(S) \in Int /\ Min(S) <= Max(S)
<1> DEFINE S == {P[i] : i \in C}  one == [i \in C |-> 1]  neg == [i \in C |-> 0 - P[i]]
<1>1. /\ one \in [C -> Nat \ {0}] /\ neg \in [C -> Int]
      /\ \A i \in C : one[i] = 1 /\ neg[i] = 0 - P[i]
  OBVIOUS
<1> HIDE DEF one, neg
<1>2. \E x \in S : \A y \in S : x >= y
  <2>1. PICK i \in C : \A j \in C \ {i} : 
            \/ P[i] * one[j] > P[j] * one[i]
            \/ P[i] * one[j] = P[j] * one[i] /\ i < j
    BY <1>1, BestExists
  <2>2. \A j \in C : P[i] >= P[j]
    BY <1>1, <2>1
  <2> QED BY <2>2
<1>3. \E x \in S : \A y \in S : x =< y
  <2>1. PICK i \in C : \A j \in C \ {i} : 
            \/ neg[i] * one[j] > neg[j] * one[i]
            \/ neg[i] * one[j] = neg[j] * one[i] /\ i < j
    BY <1>1, BestExists
  <2>2. \A j \in C : P[i] =< P[j]
    BY <1>1, <2>1
  <2> QED BY <2>2
<1>4. Max(S) \in S /\ Min(S) \in S /\ \A y \in S : Min(S) =< y
  BY <1>2, <1>3 DEF Max, Min
<1> QED BY <1>4

\* A listing that is at least as cheap with as many capabilities, one strictly,
\* scores more, whatever the range the scores are normalised over.
LEMMA DominatingScoresMore ==
  ASSUME NEW l, NEW m, NEW lo \in Int, NEW w \in Int, w > 0,
         l.price \in Int, m.price \in Int, Len(l.caps) \in Nat, Len(m.caps) \in Nat,
         Dominates(l, m)
  PROVE  Score(l, lo, w) * (Len(m.caps) + 1) > Score(m, lo, w) * (Len(l.caps) + 1)
<1> DEFINE p == l.price  q == m.price  x == Len(l.caps)  y == Len(m.caps)
           a == Score(l, lo, w) * (y + 1)  b == Score(m, lo, w) * (x + 1)
           u == (x + 1) * (y + 1)
<1>1. Micro \in Int /\ Micro > 0
  BY AmxConstants
<1>2. p \in Int /\ q \in Int /\ x \in Int /\ y \in Int /\ x >= 0 /\ y >= 0
      /\ q - p >= 0 /\ x - y >= 0 /\ (q - p > 0 \/ x - y > 0)
  <2>1. p \in Int /\ q \in Int /\ x \in Nat /\ y \in Nat
        /\ p <= q /\ x >= y /\ (p < q \/ x > y)
    BY DEF Dominates
  <2> HIDE DEF p, q, x, y
  <2> QED BY <2>1
<1>3. a \in Int /\ b \in Int /\ a - b = (3 * (q - p)) * (Micro * u) + (2 * w) * (x - y)
  <2> HIDE DEF p, q, x, y
  <2>1. /\ Score(l, lo, w) = 3 * (w - (p - lo) * Micro) * (x + 1) + 2 * x * w
        /\ Score(m, lo, w) = 3 * (w - (q - lo) * Micro) * (y + 1) + 2 * y * w
    BY DEF Score, p, q, x, y
  <2> QED BY <1>1, <1>2, <2>1
<1>4. \A i, j \in Int : i > 0 /\ j > 0 => i * j > 0
  OBVIOUS
<1>5. \A i, j \in Int : i >= 0 /\ j > 0 => i * j >= 0
  OBVIOUS
<1> HIDE DEF p, q, x, y, a, b
<1>6. u \in Int /\ u > 0
  BY <1>2, <1>4
<1> HIDE DEF u
<1>7. Micro * u \in Int /\ Micro * u > 0
  BY <1>1, <1>4, <1>6
<1> DEFINE v == Micro * u  d == q - p  e == x - y
<1>8. d \in Int /\ e \in Int /\ v \in Int /\ v > 0 /\ d >= 0 /\ e >= 0 /\ (d > 0 \/ e > 0)
      /\ a - b = (3 * d) * v + (2 * w) * e
  BY <1>2, <1>3, <1>7
<1> HIDE DEF v, d, e
<1>9. /\ (3 * d) * v \in Int /\ (3 * d) * v >= 0 /\ (d > 0 => (3 * d) * v > 0)
      /\ (2 * w) * e \in Int /\ (2 * w) * e >= 0 /\ (e > 0 => (2 * w) * e > 0)
  <2>1. 3 * d \in Int /\ 2 * w \in Int /\ 3 * d >= 0 /\ 2 * w > 0 /\ (d > 0 => 3 * d > 0)
    BY <1>8
  <2>2. (2 * w) * e = e * (2 * w)
    BY <1>8
  <2> QED BY <1>4, <1>5, <1>8, <2>1, <2>2
<1>10. a > b
  BY <1>3, <1>8, <1>9
<1> QED BY <1>10 DEF a, b, x, y

\* The first of some listings that have a price is one of them, and none of the
\* others dominates it.
LEMMA BestIsUndominated ==
  ASSUME ListingInv, NEW C \in SUBSET Listings, C # {}, \A i \in C : listing[i].price \in Int
  PROVE  /\ Best(C) \in C
         /\ \A i \in C \ {Best(C)} : ~Dominates(listing[i], listing[Best(C)])
<1> DEFINE S == {listing[i].price : i \in C}
           P == [i \in C |-> listing[i].price]
           lo == Min(S)  hi == Max(S)  w == (hi - lo) * Micro + 1
           N == [i \in C |-> Score(listing[i], lo, w)]
           D == [i \in C |-> Len(listing[i].caps) + 1]
<1>1. C \in SUBSET Int /\ IsFiniteSet(C)
  BY AmxConstants, FS_Subset DEF ListingInv
<1>2. Micro \in Int /\ Micro > 0
  BY AmxConstants
<1>3. \A i \in C : Len(listing[i].caps) \in Nat
  BY AmxConstants DEF ListingInv, Listing
<1>4. lo \in Int /\ hi \in Int /\ lo <= hi
  <2>1. P \in [C -> Int] /\ {P[i] : i \in C} = S
    OBVIOUS
  <2> HIDE DEF P, S
  <2> QED BY <1>1, <2>1, PriceRange
<1> HIDE DEF lo, hi
<1>5. w \in Int /\ w > 0
  <2>1. \A a, b \in Int : a >= 0 /\ b > 0 => a * b \in Int /\ a * b >= 0
    OBVIOUS
  <2>2. hi - lo \in Int /\ hi - lo >= 0
    BY <1>4
  <2>3. (hi - lo) * Micro \in Int /\ (hi - lo) * Micro >= 0
    BY <1>2, <2>1, <2>2
  <2> QED BY <2>3
<1> HIDE DEF w
<1>6. \A i \in C : Score(listing[i], lo, w) \in Int
  <2>1. \A a, b, c, d, e \in Int :
          3 * (a - (b - c) * d) * (e + 1) + 2 * e * a \in Int
    OBVIOUS
  <2> SUFFICES ASSUME NEW i \in C PROVE Score(listing[i], lo, w) \in Int
    OBVIOUS
  <2>2. w \in Int /\ listing[i].price \in Int /\ lo \in Int /\ Micro \in Int
        /\ Len(listing[i].caps) \in Int
    BY <1>2, <1>3, <1>4, <1>5
  <2> QED BY <2>1, <2>2 DEF Score
<1>7. N \in [C -> Int] /\ D \in [C -> Nat \ {0}]
  <2>1. N \in [C -> Int]
    BY <1>6
  <2>2. D \in [C -> Nat \ {0}]
    BY <1>3
  <2> QED BY <2>1, <2>2
<1> DEFINE Beats(i, j) == \/ N[i] * D[j] > N[j] * D[i]
                          \/ N[i] * D[j] = N[j] * D[i] /\ i < j
<1>8. \E i \in C : \A j \in C \ {i} : Beats(i, j)
  <2> HIDE DEF N, D
  <2> QED BY <1>1, <1>7, BestExists
<1>9. Best(C) = CHOOSE i \in C : \A j \in C \ {i} : Beats(i, j)
  BY DEF Best, minMaxPrice, lo, hi, w
<1> DEFINE best == Best(C)
<1> HIDE DEF Beats
<1>10. best \in C /\ \A j \in C \ {best} : Beats(best, j)
  BY <1>8, <1>9
<1>11. ASSUME NEW i \in C \ {best}, Dominates(listing[i], listing[best])
       PROVE  FALSE
  <2>1. N[i] * D[best] > N[best] * D[i]
    BY <1>3, <1>4, <1>5, <1>10, <1>11, DominatingScoresMore
  <2>2. N[i] * D[best] \in Int /\ N[best] * D[i] \in Int
    BY <1>7, <1>10
  <2> HIDE DEF N, D
  <2> QED BY <1>10, <2>1, <2>2 DEF Beats
<1> QED BY <1>10, <1>11

LEMMA MatchIsGood ==
  ASSUME ListingInv, NEW s \in Actors, NEW o \in OrderIds, NEW r \in Required,
         NEW u \in Currencies, NEW b \in Budgets, submitRequest(s, o, r, u, b)
  PROVE  \E m \in Listings :
           /\ order' = Stored(order, o,
                [listing |-> m, consumer |-> s, provider |-> listing[m].provider,
                 price |-> listing[m].price, status |-> "ORDER_MATCHED"])
           /\ listing[m].status = "LISTING_ACTIVE"
           /\ ~\E i \in Listings \ {m} :
                /\ listing[i].status = "LISTING_ACTIVE" /\ listing[i].price # BadPrice
                /\ listing[i].currency = listing[m].currency
                /\ ToSet(listing[m].caps) \subseteq ToSet(listing[i].caps)
                /\ Dominates(listing[i], listing[m])
<1> DEFINE C == Candidates(r, u, b)  m == Best(C)
<1>1. \A i \in C : /\ i \in Listings /\ listing[i].status = "LISTING_ACTIVE"
                   /\ listing[i].currency = u /\ r \subseteq ToSet(listing[i].caps)
                   /\ listing[i].price \in Int /\ ~(listing[i].price > b)
  BY AmxConstants DEF Candidates, Candidate, capsContain, exceedsBudget, ListingInv, Listing
<1>2. m \in C /\ \A i \in C \ {m} : ~Dominates(listing[i], listing[m])
  <2>1. C # {} /\ C \in SUBSET Listings
    BY DEF submitRequest, Candidates
  <2> HIDE DEF C
  <2> QED BY <1>1, <2>1, BestIsUndominated
<1>3. order' = Stored(order, o,
                [listing |-> m, consumer |-> s, provider |-> listing[m].provider,
                 price |-> listing[m].price, status |-> "ORDER_MATCHED"])
  BY DEF submitRequest
<1>4. ASSUME NEW i \in Listings \ {m},
             listing[i].status = "LISTING_ACTIVE", listing[i].price # BadPrice,
             listing[i].currency = listing[m].currency,
             ToSet(listing[m].caps) \subseteq ToSet(listing[i].caps),
             Dominates(listing[i], listing[m])
      PROVE  FALSE
  <2>1. listing[i].price \in Int /\ b \in Int
    BY <1>4, AmxConstants DEF ListingInv, Listing
  <2>2. ~(listing[i].price > b)
    BY <1>1, <1>2, <1>4, <2>1 DEF Dominates
  <2>3. i \in C
    <3>1. r \subseteq ToSet(listing[i].caps) /\ listing[i].currency = u
      BY <1>1, <1>2, <1>4
    <3> QED BY <1>4, <2>2, <3>1 DEF Candidates, Candidate, capsContain, exceedsBudget
  <2> QED BY <1>2, <1>4, <2>3
<1> HIDE DEF m, C
<1> QED BY <1>1, <1>2, <1>3, <1>4

LEMMA NamesInit == Init => OrderNamesItsProvider
BY DEF Init, OrderNamesItsProvider, Orders

\* Only the owner of a listing writes over it, and a match names its owner.
LEMMA NamesStep ==
  ASSUME ListingInv, OrderInv, OrderNamesItsProvider, [Next]_vars
  PROVE  OrderNamesItsProvider'
<1>1. ASSUME Listings \subseteq Listings', order' = order,
             \A i \in Listings : listing'[i].provider = listing[i].provider
      PROVE  OrderNamesItsProvider'
  BY <1>1 DEF OrderNamesItsProvider, Orders
<1>2. ASSUME NEW s \in Actors, NEW i \in ListingIds, NEW c \in CapLists, NEW u \in Currencies,
             NEW p \in Prices, createListing(s, i, c, u, p)
      PROVE  OrderNamesItsProvider'
  <2>1. order' = order /\ (i \in Listings => listing[i].provider = s)
    BY <1>2 DEF createListing, ListingID
  <2>2. Listings' = Listings \cup {i} /\ listing'[i].provider = s
        /\ \A j \in Listings : j # i => listing'[j] = listing[j]
    BY <1>2 DEF createListing, Stored, Listings
  <2> QED BY <1>1, <2>1, <2>2
<1>3. ASSUME NEW s \in Actors, NEW i \in Listings, NEW u \in Currencies,
             NEW p \in Prices \cup {BadPrice}, updateListing(s, i, u, p)
      PROVE  OrderNamesItsProvider'
  <2>1. Listings' = Listings /\ order' = order
        /\ \A j \in Listings : listing'[j].provider = listing[j].provider
    BY <1>3 DEF updateListing, ListingInv, Listings, Listing
  <2> QED BY <1>1, <2>1
<1>4. ASSUME NEW s \in Actors, NEW i \in Listings, NEW next \in ListingStatuses,
             toggleListing(s, i, next)
      PROVE  OrderNamesItsProvider'
  <2>1. Listings' = Listings /\ order' = order
        /\ \A j \in Listings : listing'[j].provider = listing[j].provider
    BY <1>4 DEF toggleListing, Toggled, ListingInv, Listings, Listing
  <2> QED BY <1>1, <2>1
<1>5. ASSUME NEW s \in Actors, NEW o \in OrderIds, NEW r \in Required, NEW u \in Currencies,
             NEW b \in Budgets, submitRequestFails(s, o, r, u, b)
      PROVE  OrderNamesItsProvider'
  <2>1. listing' = listing /\ Orders' = Orders \cup {o} /\ order'[o].listing = None
        /\ \A q \in Orders : order'[q] = order[q]
    BY <1>5 DEF submitRequestFails, Stored, Orders
  <2> QED BY <2>1 DEF OrderNamesItsProvider, Listings
<1>6. ASSUME NEW s \in Actors, NEW o \in OrderIds, NEW r \in Required, NEW u \in Currencies,
             NEW b \in Budgets, submitRequest(s, o, r, u, b)
      PROVE  OrderNamesItsProvider'
  <2>1. PICK m \in Listings : order' = Stored(order, o,
                [listing |-> m, consumer |-> s, provider |-> listing[m].provider,
                 price |-> listing[m].price, status |-> "ORDER_MATCHED"])
    BY <1>6, MatchIsGood
  <2>2. listing' = listing /\ o \notin Orders
    BY <1>6 DEF submitRequest
  <2>3. /\ Orders' = Orders \cup {o} /\ \A q \in Orders : order'[q] = order[q]
        /\ order'[o].listing = m /\ order'[o].provider = listing[m].provider
    BY <2>1, <2>2 DEF Stored, Orders
  <2> QED BY <2>2, <2>3 DEF OrderNamesItsProvider, Listings
<1>7. ASSUME NEW s \in Actors, NEW o \in Orders,
             \/ transitionOrder(s, o, ConfirmMatch) \/ transitionOrder(s, o, RejectMatch)
             \/ transitionOrder(s, o, CancelOrder)
      PROVE  OrderNamesItsProvider'
  <2>1. /\ listing' = listing /\ Orders' = Orders
        /\ \A q \in Orders : order'[q].listing = order[q].listing
                             /\ order'[q].provider = order[q].provider
    BY <1>7 DEF transitionOrder, OrderInv, Shaped, Orders
  <2> QED BY <2>1 DEF OrderNamesItsProvider, Listings
<1>8. CASE UNCHANGED vars
  BY <1>8 DEF vars, OrderNamesItsProvider, Orders, Listings
<1>9. CASE Next
  BY <1>2, <1>3, <1>4, <1>5, <1>6, <1>7, <1>9 DEF Next, ListingStatuses
<1> QED BY <1>8, <1>9

LEMMA MarketInductive ==
  Spec => [](ListingInv /\ OrderInv /\ OrderNamesItsProvider)
<1>1. Init => ListingInv /\ OrderInv /\ OrderNamesItsProvider
  BY ListingInit, NamesInit DEF Init, OrderInv, Orders
<1>2. ListingInv /\ OrderInv /\ OrderNamesItsProvider /\ [Next]_vars
      => (ListingInv /\ OrderInv /\ OrderNamesItsProvider)'
  BY ListingStep, OrderInvStep, NamesStep DEF Kept
<1> QED BY <1>1, <1>2, PTL DEF Spec

\* The provider an order names is for ever the owner of its listing, however
\* listings are created over one another after the match.
THEOREM ProviderCorrect == Spec => []OrderNamesItsProvider
BY MarketInductive, PTL

\* No match is a bad deal: of the listings on the market with the matched one's
\* capabilities and currency none is cheaper with as many capabilities, or has
\* more at the same price, for any prices and any number of candidates.
THEOREM MatchCorrect == Spec => NoBetterOffer
<1> DEFINE Good(o) == LET m == order'[o].listing IN
       m # None =>
         /\ listing[m].status = "LISTING_ACTIVE" /\ order'[o].price = listing[m].price
         /\ ~\E i \in Listings \ {m} :
              /\ listing[i].status = "LISTING_ACTIVE" /\ listing[i].price # BadPrice
              /\ listing[i].currency = listing[m].currency
              /\ ToSet(listing[m].caps) \subseteq ToSet(listing[i].caps)
              /\ Dominates(listing[i], listing[m])
           Step == \A o \in DOMAIN order' \ Orders : Good(o)
<1>1. ListingInv /\ OrderInv /\ [Next]_vars => Step
  <2> SUFFICES ASSUME ListingInv, OrderInv, [Next]_vars PROVE Step
    OBVIOUS
  <2>1. CASE order' = order
    BY <2>1 DEF Orders
  <2>2. ASSUME NEW s \in Actors, NEW o \in OrderIds, NEW r \in Required, NEW u \in Currencies,
               NEW b \in Budgets, submitRequestFails(s, o, r, u, b)
        PROVE  Step
    <3>1. DOMAIN order' = Orders \cup {o} /\ order'[o].listing = None
      BY <2>2 DEF submitRequestFails, Stored, Orders
    <3> QED BY <3>1
  <2>3. ASSUME NEW s \in Actors, NEW o \in OrderIds, NEW r \in Required, NEW u \in Currencies,
               NEW b \in Budgets, submitRequest(s, o, r, u, b)
        PROVE  Step
    <3>1. PICK m \in Listings :
           /\ order' = Stored(order, o,
                [listing |-> m, consumer |-> s, provider |-> listing[m].provider,
                 price |-> listing[m].price, status |-> "ORDER_MATCHED"])
           /\ listing[m].status = "LISTING_ACTIVE"
           /\ ~\E i \in Listings \ {m} :
                /\ listing[i].status = "LISTING_ACTIVE" /\ listing[i].price # BadPrice
                /\ listing[i].currency = listing[m].currency
                /\ ToSet(listing[m].caps) \subseteq ToSet(listing[i].caps)
                /\ Dominates(listing[i], listing[m])
      BY <2>3, MatchIsGood
    <3>2. /\ DOMAIN order' = Orders \cup {o}
          /\ order'[o].listing = m /\ order'[o].price = listing[m].price
      BY <3>1 DEF Stored, Orders
    <3>3. Good(o)
      BY <3>1, <3>2
    <3> QED BY <3>2, <3>3
  <2>4. ASSUME NEW s \in Actors, NEW o \in Orders,
               \/ transitionOrder(s, o, ConfirmMatch) \/ transitionOrder(s, o, RejectMatch)
               \/ transitionOrder(s, o, CancelOrder)
        PROVE  Step
    <3>1. DOMAIN order' = Orders
      BY <2>4 DEF transitionOrder, OrderInv, Orders
    <3> QED BY <3>1
  <2> HIDE DEF Step
  <2> QED BY <2>1, <2>2, <2>3, <2>4, ListingStep DEF OrderStep
<1>2. Spec => [](ListingInv /\ OrderInv)
  BY MarketInductive, PTL
<1>3. ListingInv /\ OrderInv /\ [Next]_vars => [Step]_vars
  BY <1>1
<1> QED BY <1>2, <1>3, PTL DEF Spec, NoBetterOffer
=============================================================================
