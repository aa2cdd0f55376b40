-------------------------------- MODULE Amx --------------------------------
(***************************************************************************)
(* The market module, internal/modules/amx/module.go.                      *)
(*                                                                         *)
(* amx/l/<id> holds listings, amx/i/<cap>/<id> an index of them by         *)
(* capability and amx/o/<id> orders.  An order's id hashes the sender, its *)
(* nonce, which the chain accepts once, and a part of fixed length: it is  *)
(* new.  A listing's id hashes the sender, its nonce and the title with    *)
(* nothing between them (nonce 1, title "2x" and nonce 12, title "x" are   *)
(* the same), so a provider may overwrite its own listing, never another's.*)
(* Listing ids are numbers, ordered like the strings they stand for.       *)
(* Prices and budgets are whole multiples of one unit; Micro is the size   *)
(* of that unit in the epsilon (a millionth) that scoring adds.            *)
(***************************************************************************)
EXTENDS Integers, Sequences, FiniteSets, FiniteSetsExt, SequencesExt

CONSTANTS
  ListingIds,  \* numbers
  OrderIds,    \* order ids
  Actors,      \* public keys
  CapLists,    \* capability lists of listings, repetitions allowed
  Required,    \* sets of capabilities of requests
  Currencies,  \* currency codes, in upper case
  Prices,      \* prices that parse
  BadPrice,    \* a price that does not, which update_listing accepts
  Budgets,     \* budgets
  Micro,       \* one unit over the epsilon of scoreListing
  None         \* the listing and the provider of a failed order

ASSUME AmxConstants ==
  /\ ListingIds \subseteq Nat /\ Prices \subseteq Int /\ Budgets \subseteq Int
  /\ BadPrice \notin Int /\ Micro \in Nat \ {0}
  /\ None \notin ListingIds \cup Actors
  /\ \A c \in CapLists : c # <<>> /\ Len(c) \in Nat

VARIABLES
  listing,  \* amx/l/: partial function from ListingIds
  index,    \* amx/i/: the set of <<capability, listing id>>
  order     \* amx/o/: partial function from OrderIds

vars == <<listing, index, order>>

Listings == DOMAIN listing
Orders == DOMAIN order

ListingStatuses == {"LISTING_ACTIVE", "LISTING_PAUSED", "LISTING_DELISTED"}
OrderStatuses == {"ORDER_MATCHED", "ORDER_ESCROWED", "ORDER_ACTIVE", "ORDER_CANCELED",
                  "ORDER_REJECTED", "ORDER_FAILED"}

Listing == [provider : Actors, caps : CapLists, currency : Currencies,
            price : Prices \cup {BadPrice}, status : ListingStatuses]

Order == [listing : ListingIds \cup {None}, consumer : Actors, provider : Actors \cup {None},
          price : Prices \cup {None}, status : OrderStatuses]

Stored(f, k, r) == [i \in DOMAIN f \cup {k} |-> IF i = k THEN r ELSE f[i]]

-----------------------------------------------------------------------------
capsContain(caps, required) == required \subseteq ToSet(caps)

\* A price that does not parse exceeds every budget.
exceedsBudget(price, budget) == price = BadPrice \/ price > budget

\* The filter of submit_request.
Candidate(l, required, currency, budget) ==
  /\ l.status = "LISTING_ACTIVE"
  /\ l.currency = currency
  /\ capsContain(l.caps, required)
  /\ ~exceedsBudget(l.price, budget)

\* A score that favours the dearest.
ScoreDearest(l, lo, width) ==
  3 * (l.price - lo) * Micro * (Len(l.caps) + 1) + 2 * Len(l.caps) * width

\* scoreListing as a fraction: 3/10 for the price between the cheapest and the
\* dearest candidate and 2/10 for the number n of capabilities, as n / (n + 1);
\* the other terms are the same for every listing.  The numerator over
\* 10 * width * (n + 1):
Score(l, lo, width) ==
  3 * (width - (l.price - lo) * Micro) * (Len(l.caps) + 1) + 2 * Len(l.caps) * width

minMaxPrice(prices) == [min |-> Min(prices), max |-> Max(prices)]

\* The candidate that sort.Slice puts first: best score, then smallest id.
Best(cand) ==
  LET range == minMaxPrice({listing[i].price : i \in cand})
      width == (range.max - range.min) * Micro + 1
      num(i) == Score(listing[i], range.min, width)
  IN  CHOOSE i \in cand : \A j \in cand \ {i} :
        LET a == num(i) * (Len(listing[j].caps) + 1)
            b == num(j) * (Len(listing[i].caps) + 1)
        IN  a > b \/ (a = b /\ i < j)

-----------------------------------------------------------------------------
Init ==
  /\ listing = [i \in {} |-> None]
  /\ index = {}
  /\ order = [i \in {} |-> None]

\* An index of the first capability only.
IndexedFirst(id, caps) == {<<caps[1], id>>}

Indexed(id, caps) == {<<c, id>> : c \in ToSet(caps)}

\* Ids that do not depend on the sender.
AnyListingID(sender, id) == TRUE

\* The ids shortHash can return for a new listing of this sender.
ListingID(sender, id) == id \in Listings => listing[id].provider = sender

\* What the index held for an overwritten listing stays.
createListing(sender, id, caps, currency, price) ==
  /\ ListingID(sender, id)
  /\ listing' = Stored(listing, id, [provider |-> sender, caps |-> caps, currency |-> currency,
                                     price |-> price, status |-> "LISTING_ACTIVE"])
  /\ index' = index \cup Indexed(id, caps)
  /\ UNCHANGED order

\* New pricing is taken over without the check of create_listing.
updateListing(sender, id, currency, price) ==
  /\ listing[id].provider = sender
  /\ listing' = [listing EXCEPT ![id].currency = currency, ![id].price = price]
  /\ UNCHANGED <<index, order>>

\* Whatever the status was.
Toggled(st, next) == next

\* pause_listing and delist_listing.
toggleListing(sender, id, next) ==
  /\ listing[id].provider = sender
  /\ listing' = [listing EXCEPT ![id].status = Toggled(@, next)]
  /\ UNCHANGED <<index, order>>

Candidates(required, currency, budget) ==
  {i \in Listings : Candidate(listing[i], required, currency, budget)}

\* A request past its deadline changes nothing and is left out.
submitRequestFails(sender, oid, required, currency, budget) ==
  /\ oid \notin Orders
  /\ Candidates(required, currency, budget) = {}
  /\ order' = Stored(order, oid, [listing |-> None, consumer |-> sender, provider |-> None,
                                  price |-> None, status |-> "ORDER_FAILED"])
  /\ UNCHANGED <<listing, index>>

submitRequest(sender, oid, required, currency, budget) ==
  LET cand == Candidates(required, currency, budget)
      best == Best(cand)
  IN  /\ oid \notin Orders
      /\ cand # {}
      /\ order' = Stored(order, oid,
           [listing |-> best, consumer |-> sender, provider |-> listing[best].provider,
            price |-> listing[best].price, status |-> "ORDER_MATCHED"])
      /\ UNCHANGED <<listing, index>>

\* The transition tables of confirm_match, reject_match and cancel_order.
ConfirmMatch == [ORDER_MATCHED |-> "ORDER_ESCROWED", ORDER_ESCROWED |-> "ORDER_ACTIVE"]
RejectMatch == [ORDER_MATCHED |-> "ORDER_REJECTED"]

\* A cancellation that also takes a rejected order, for confirm_match to revive.
CancelRejected == [ORDER_MATCHED |-> "ORDER_CANCELED", ORDER_ESCROWED |-> "ORDER_CANCELED",
                   ORDER_ACTIVE |-> "ORDER_CANCELED", ORDER_REJECTED |-> "ORDER_MATCHED"]

CancelOrder == [ORDER_MATCHED |-> "ORDER_CANCELED", ORDER_ESCROWED |-> "ORDER_CANCELED",
                ORDER_ACTIVE |-> "ORDER_CANCELED"]

\* Either party may move an order.
Party(o, sender) == sender \in {o.consumer, o.provider}

transitionOrder(sender, oid, transitions) ==
  /\ Party(order[oid], sender)
  /\ order[oid].status \in DOMAIN transitions
  /\ order' = [order EXCEPT ![oid].status = transitions[@]]
  /\ UNCHANGED <<listing, index>>

Next ==
  \/ \E s \in Actors, i \in ListingIds, c \in CapLists, u \in Currencies, p \in Prices :
       createListing(s, i, c, u, p)
  \/ \E s \in Actors, i \in Listings, u \in Currencies, p \in Prices \cup {BadPrice} :
       updateListing(s, i, u, p)
  \/ \E s \in Actors, i \in Listings : toggleListing(s, i, "LISTING_PAUSED")
  \/ \E s \in Actors, i \in Listings : toggleListing(s, i, "LISTING_DELISTED")
  \/ \E s \in Actors, o \in OrderIds, r \in Required, u \in Currencies, b \in Budgets :
       submitRequestFails(s, o, r, u, b)
  \/ \E s \in Actors, o \in OrderIds, r \in Required, u \in Currencies, b \in Budgets :
       submitRequest(s, o, r, u, b)
  \/ \E s \in Actors, o \in Orders : transitionOrder(s, o, ConfirmMatch)
  \/ \E s \in Actors, o \in Orders : transitionOrder(s, o, RejectMatch)
  \/ \E s \in Actors, o \in Orders : transitionOrder(s, o, CancelOrder)

Spec == Init /\ [][Next]_vars

-----------------------------------------------------------------------------
(***************************************************************************)
(* Types of the stored listings and orders.                                *)
(***************************************************************************)
TypeOK ==
  /\ Listings \subseteq ListingIds /\ Orders \subseteq OrderIds
  /\ listing = [i \in Listings |-> listing[i]]
  /\ order = [i \in Orders |-> order[i]]
  /\ \A i \in Listings : listing[i] \in Listing
  /\ \A o \in Orders : order[o] \in Order
  /\ \A e \in index : e[2] \in ListingIds

\* l is at least as cheap as m and offers as many capabilities, one strictly.
Dominates(l, m) ==
  /\ l.price <= m.price /\ Len(l.caps) >= Len(m.caps)
  /\ l.price < m.price \/ Len(l.caps) > Len(m.caps)

(***************************************************************************)
(* The match is never a bad deal: it is a listing that is active when the  *)
(* order is made, at its price of that moment, and no other listing on the *)
(* market in the same currency that offers the capabilities of the matched *)
(* one is at least as cheap with as many capabilities and better in one of *)
(* the two, for every mix of prices that the scores are normalised over.   *)
(***************************************************************************)
NoBetterOffer ==
  [][\A o \in DOMAIN order' \ Orders :
       LET m == order'[o].listing IN
       m # None =>
         /\ listing[m].status = "LISTING_ACTIVE" /\ order'[o].price = listing[m].price
         /\ ~\E i \in Listings \ {m} :
              /\ listing[i].status = "LISTING_ACTIVE" /\ listing[i].price # BadPrice
              /\ listing[i].currency = listing[m].currency
              /\ ToSet(listing[m].caps) \subseteq ToSet(listing[i].caps)
              /\ Dominates(listing[i], listing[m])]_vars

(***************************************************************************)
(* Consumer and provider move an order independently, yet an order that    *)
(* was canceled, rejected or failed is never revived, an accepted order    *)
(* never goes back, and parties and price stay as agreed.                  *)
(***************************************************************************)
OrdersOnlyAdvance ==
  [][\A o \in Orders :
       /\ [order'[o] EXCEPT !.status = order[o].status] = order[o]
       /\ order[o].status \in {"ORDER_CANCELED", "ORDER_REJECTED", "ORDER_FAILED"} =>
            order'[o].status = order[o].status
       /\ order[o].status \in {"ORDER_ESCROWED", "ORDER_ACTIVE"} =>
            order'[o].status \in {"ORDER_ESCROWED", "ORDER_ACTIVE", "ORDER_CANCELED"}
       /\ order[o].status = "ORDER_ACTIVE" => order'[o].status # "ORDER_ESCROWED"]_vars

(***************************************************************************)
(* The capability index finds every listing under each of its present      *)
(* capabilities, also after updates and when an id is created twice, and   *)
(* names no listing that is not stored.                                    *)
(***************************************************************************)
IndexCoversListings ==
  /\ \A i \in Listings : \A c \in ToSet(listing[i].caps) : <<c, i>> \in index
  /\ \A e \in index : e[2] \in Listings

(***************************************************************************)
(* The provider an order names, who may confirm, reject or cancel it and   *)
(* is paid by its escrow, is for ever the owner of the listing it names,   *)
(* even when that listing is created anew after the match.                 *)
(***************************************************************************)
OrderNamesItsProvider ==
  \A o \in Orders : order[o].listing # None =>
    /\ order[o].listing \in Listings
    /\ order[o].provider = listing[order[o].listing].provider
=============================================================================
