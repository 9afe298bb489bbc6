------------------------------ MODULE Checkout ------------------------------
(***************************************************************************)
(* The cart of a client and the checkout page, in one tab of the browser:   *)
(* src/frontend/src/stores/cart.store.ts, views/client/CheckoutView.vue and *)
(* composables/useGeocoding.ts, with the answers of the server and of the   *)
(* geocoder in any order.  A place is named by its address: coordinates are *)
(* the address they belong to, None where there are none.                   *)
(***************************************************************************)
EXTENDS Integers, Sequences, SequencesExt, FiniteSets

CONSTANTS
    Goods, SellerOf,  \* the products, and the organization of each
    Addresses,           \* what the client can type
    None,
    MaxQuantity, MaxAsked, MaxOrders,  \* bounds: of a product, of quotes under way and
                                       \* orders together, of orders
    MaxFetches           \* bound: lists of orders under way

\* Every product has an organization.
ASSUME CheckoutConstants == MaxOrders \in Nat /\ \A p \in Goods : SellerOf[p] # None

VARIABLES
    cart,      \* cart.store: [items, org], and what localStorage has of it; items has
               \* the quantity of each product
    page,      \* "shop", "checkout" or "orders"
    form,      \* the refs of the checkout page
    busy,      \* ordersStore.loading
    fetching,  \* how many calls for the list of orders are under way
    creates,   \* orders being placed: [id, dto, basket, state, heard, late]
    placed,    \* the orders in the database
    basket,    \* history: how often the cart was cleared
    doubtful,  \* history: the carts whose order the client left before its answer, or
               \* whose answer the page no longer waits for
    lost       \* history: products were cleared that no order had

checkoutVars == <<cart, page, form, busy, fetching, creates, placed, basket, doubtful, lost>>

NoItems   == [p \in Goods |-> 0]
EmptyCart == [items |-> NoItems, org |-> None]

\* quote: the coordinates it was asked for; none of them before the first answer.
NoQuote  == "no quote"
NoForm == [address |-> None, coords |-> None, quote |-> NoQuote, asked |-> <<>>,
           finding |-> None, locating |-> FALSE, late |-> FALSE, overtaken |-> FALSE]

CheckoutInit ==
    /\ cart = EmptyCart /\ page = "shop" /\ form = NoForm
    /\ busy = FALSE /\ fetching = 0 /\ creates = {} /\ placed = <<>>
    /\ basket = 0 /\ doubtful = {} /\ lost = FALSE

-----------------------------------------------------------------------------
\* The cart

addItem(p) ==
    LET kept == IF cart.org \in {None, SellerOf[p]} THEN cart.items ELSE NoItems
    IN  [items |-> [kept EXCEPT ![p] = @ + 1], org |-> SellerOf[p]]

removeItem(p) ==
    LET kept == [cart.items EXCEPT ![p] = 0]
    IN  [items |-> kept, org |-> IF kept = NoItems THEN None ELSE cart.org]

updateQuantity(p, n) == IF n <= 0 THEN removeItem(p) ELSE [cart EXCEPT !.items[p] = n]

\* The buttons of a product in OrganizationView.vue.
AddToCart ==
    /\ page = "shop"
    /\ \E p \in Goods : cart.items[p] < MaxQuantity /\ cart' = addItem(p)
    /\ UNCHANGED <<page, form, busy, fetching, creates, placed, basket, doubtful, lost>>

TakeOne ==
    /\ page = "shop"
    /\ \E p \in Goods : cart.items[p] > 0 /\ cart' = updateQuantity(p, cart.items[p] - 1)
    /\ UNCHANGED <<page, form, busy, fetching, creates, placed, basket, doubtful, lost>>

-----------------------------------------------------------------------------
\* The pages.  A page that is left keeps nothing, and answers to what it asked
\* change nothing any more, but for those to handlePlaceOrder, which change the
\* cart and the page.

\* fetchQuote.
fetchQuote(f) == IF cart.org = None THEN f ELSE [f EXCEPT !.asked = Append(@, f.coords)]

\* Mutant: asks when coordinates were found only.
SetFound(f, coords) ==
    IF coords = None THEN [f EXCEPT !.coords = None] ELSE fetchQuote([f EXCEPT !.coords = coords])

\* The watch asks for a quote when coords changes, as every object found does.
SetCoords(f, coords) ==
    IF coords = None /\ f.coords = None THEN f ELSE fetchQuote([f EXCEPT !.coords = coords])

\* A checkout page that is opened asks at once.
Opened(p) == IF p = "checkout" THEN fetchQuote(NoForm) ELSE NoForm

Carts(requests) == {c.basket : c \in requests}

fetchMy ==
    /\ fetching < MaxFetches
    /\ fetching' = fetching + 1 /\ busy' = TRUE

Visit(p) ==
    /\ page # p /\ page' = p
    /\ form' = Opened(p)
    /\ doubtful' = IF page = "checkout" THEN doubtful \cup Carts(creates) ELSE doubtful
    /\ IF p = "orders" THEN fetchMy ELSE UNCHANGED <<fetching, busy>>
    /\ UNCHANGED <<cart, creates, placed, basket, lost>>

\* loading becomes false, whatever else of the store is still under way.
FetchMyAnswered ==
    /\ fetching > 0
    /\ fetching' = fetching - 1 /\ busy' = FALSE
    /\ doubtful' = doubtful \cup Carts(creates)
    /\ UNCHANGED <<cart, page, form, creates, placed, basket, lost>>

\* The cart comes back from localStorage, which the watch has kept up to date;
\* what was sent may still arrive at the server, but not its answer here.
ReloadPage ==
    /\ form' = Opened(page)
    /\ busy' = (page = "orders") /\ fetching' = IF page = "orders" THEN 1 ELSE 0
    /\ creates' = {[c EXCEPT !.heard = FALSE] : c \in {d \in creates : d.state = "sent"}}
    /\ doubtful' = doubtful \cup Carts(creates)
    /\ UNCHANGED <<cart, page, placed, basket, lost>>

-----------------------------------------------------------------------------
\* The address

OnForm(f) ==
    /\ page = "checkout" /\ cart.items # NoItems
    /\ Len(f.asked) + Cardinality(creates) + Len(placed) <= MaxAsked
    /\ form' = f
    /\ UNCHANGED <<cart, page, busy, fetching, creates, placed, basket, doubtful, lost>>

\* Any input into the field forgets the coordinates.
TypeAddress ==
    \E a \in Addresses : OnForm([SetCoords(form, None) EXCEPT !.address = a])

handleFindCoords ==
    /\ form.address # None /\ form.coords = None /\ form.finding = None
    /\ OnForm([form EXCEPT !.finding = form.address])

\* The answer is taken whatever the field has become.
FindAnswered ==
    /\ form.finding # None
    /\ \/ OnForm([SetCoords(form, form.finding) EXCEPT !.finding = None,
                     !.late = (@ \/ form.finding # form.address)])
       \/ OnForm([form EXCEPT !.finding = None])

handleDetectLocation == ~form.locating /\ OnForm([form EXCEPT !.locating = TRUE])

LocationAnswered ==
    /\ form.locating
    /\ \/ \E a \in Addresses :
              OnForm([SetCoords(form, a) EXCEPT !.address = a, !.locating = FALSE])
       \/ OnForm([form EXCEPT !.locating = FALSE])

\* An answer, or the lack of one, is taken in the order in which it comes.
QuoteAnswered(i) ==
    \E quote \in {form.asked[i], NoQuote} :
        OnForm([form EXCEPT !.asked = RemoveAt(@, i), !.quote = quote,
                            !.overtaken = (@ \/ i # 1)])

-----------------------------------------------------------------------------
\* The order

\* Mutant: the button does not wait.
CanPlaceAnyTime == form.address # None /\ cart.items # NoItems

\* The button waits for whatever the store of the orders is loading.
CanPlace == ~busy /\ form.address # None /\ cart.items # NoItems

handlePlaceOrder ==
    LET dto == [org |-> cart.org, items |-> cart.items, address |-> form.address,
                coords |-> form.coords]
    IN
    /\ page = "checkout" /\ CanPlace
    /\ Len(placed) + Cardinality(creates) < MaxOrders
    /\ \E id \in 1..MaxOrders :
          /\ \A c \in creates : c.id # id
          /\ \A n \in 1..(id - 1) : \E c \in creates : c.id = n
          /\ creates' = creates \cup {[id |-> id, dto |-> dto, basket |-> basket,
                                      state |-> "sent", heard |-> TRUE, late |-> form.late]}
    /\ busy' = TRUE
    /\ UNCHANGED <<cart, page, form, fetching, placed, basket, doubtful, lost>>

\* create() of the orders service: it refuses items of several organizations, and
\* those that their supplier has deleted by now.
Create(c) ==
    LET mixed == \E p \in Goods : c.dto.items[p] > 0 /\ SellerOf[p] # c.dto.org
        answer(state) == creates' = (creates \ {c}) \cup
                                    IF c.heard THEN {[c EXCEPT !.state = state]} ELSE {}
    IN
    /\ c.state = "sent"
    /\ \/ /\ ~mixed
          /\ placed' = Append(placed, [dto |-> c.dto, basket |-> c.basket, late |-> c.late])
          /\ answer("done")
       \/ answer(IF mixed THEN "mixed" ELSE "deleted") /\ UNCHANGED placed
    /\ UNCHANGED <<cart, page, form, busy, fetching, basket, doubtful, lost>>

\* The answer clears the cart, whatever it has become, and goes to the orders.
Placed(c) ==
    /\ c.state = "done"
    /\ creates' = creates \ {c}
    /\ cart' = EmptyCart /\ basket' = basket + 1
    /\ lost' = (lost \/ cart.items \notin {NoItems, c.dto.items})
    /\ page' = "orders" /\ form' = NoForm
    /\ IF page = "orders" THEN busy' = FALSE /\ UNCHANGED fetching ELSE fetchMy
    /\ doubtful' = doubtful \cup Carts(creates \ {c})
    /\ UNCHANGED placed

Refused(c) ==
    /\ c.state \in {"mixed", "deleted"}
    /\ creates' = creates \ {c}
    /\ busy' = FALSE
    /\ doubtful' = doubtful \cup Carts(creates \ {c})
    /\ UNCHANGED <<cart, page, form, fetching, placed, basket, lost>>

\* The connection breaks: an error for the page, the cart stays; the request may
\* be on its way still, or done.
Disconnect(c) ==
    /\ c.heard
    /\ \/ creates' = creates \ {c}
       \/ c.state = "sent" /\ creates' = (creates \ {c}) \cup {[c EXCEPT !.heard = FALSE]}
    /\ busy' = FALSE
    /\ doubtful' = doubtful \cup Carts(creates)
    /\ UNCHANGED <<cart, page, form, fetching, placed, basket, lost>>

CheckoutNext ==
    \/ AddToCart \/ TakeOne
    \/ \E p \in {"shop", "checkout", "orders"} : Visit(p)
    \/ FetchMyAnswered \/ ReloadPage
    \/ TypeAddress
    \/ handleFindCoords \/ FindAnswered
    \/ handleDetectLocation \/ LocationAnswered
    \/ \E i \in DOMAIN form.asked : QuoteAnswered(i)
    \/ handlePlaceOrder
    \/ \E c \in creates : Create(c) \/ Placed(c) \/ Refused(c) \/ Disconnect(c)

CheckoutSpec == CheckoutInit /\ [][CheckoutNext]_checkoutVars

-----------------------------------------------------------------------------
\* Properties

\* A cart is ordered once, unless the client left the page, or the answer was
\* lost, or one to another call of the store of the orders came first: then the
\* cart is still there and can be ordered a second time.  Nor is anything cleared
\* that was put into the cart while its order was on the way, unless so.
CartOrderedOnce ==
    /\ \A i, j \in DOMAIN placed :
          placed[i].basket = placed[j].basket => i = j \/ placed[i].basket \in doubtful
    /\ lost => doubtful # {}

\* An order goes to where its address is, unless an answer of the geocoder came
\* after the address had been edited; the fee that is shown is that for where
\* the order goes, once all answers are there, unless they overtook each other;
\* and the server refuses no cart.
PlacedWhereAddressed ==
    /\ \A i \in DOMAIN placed :
          placed[i].dto.coords \in {None, placed[i].dto.address} \/ placed[i].late
    /\ form.asked = <<>> => form.quote \in {NoQuote, form.coords} \/ form.overtaken
    /\ \A c \in creates : c.state # "mixed"

=============================================================================
