----------------------------- MODULE Catalogue ------------------------------
(***************************************************************************)
(* The products of a supplier's organizations as the supplier sees them:    *)
(* src/frontend/src/stores/products.store.ts with                           *)
(* views/supplier/ProductsView.vue, which deletes a product after five      *)
(* seconds for an undo, and ProductFormView.vue, which makes one or changes *)
(* it and its image.  There is one store and one list in it, whichever      *)
(* organization is shown; an answer changes it wherever the user has gone   *)
(* meanwhile.                                                               *)
(***************************************************************************)
EXTENDS Integers, Sequences, SequencesExt

CONSTANTS
    Offers,      \* products
    Organizations,
    MaxPosts     \* bound: requests

VARIABLES
    owner,       \* the organization each product belongs to, once it is made
    stock,       \* the table: how often each product was written, NoOffer or Removed
    screen,      \* where the user is: [at, org, offer], the list of an organization or a
                 \* form opened from it, of a product or NewOffer
    shelf,       \* products.value: the rows shown of each product, usually one or none
    spins,       \* loading: a spinner in place of the list
    fault,       \* error: a message in place of the list
    posts,       \* the requests under way: [kind, id, org, state, row, rows, then, missed]
    posted,      \* how many there have been
    pendingDelete,
    outdated     \* history: the products of which an answer was lost or overtaken, or came
                 \* into the list of another organization, since the list was fetched last

catalogueVars ==
    <<owner, stock, screen, shelf, spins, fault, posts, posted, pendingDelete, outdated>>

NoOffer  == 0
Removed  == -1
NewOffer == "new"
NoOrg    == "NaN"
Away     == [at |-> "away", org |-> NoOrg, offer |-> NewOffer]
NoDelete == [id |-> "none"]
Empty    == [p \in Offers |-> <<>>]

ListOf(o)    == [at |-> "list", org |-> o, offer |-> NewOffer]
FormOf(o, p) == [at |-> "form", org |-> o, offer |-> p]

\* What stands for no product is none, and NaN is the id of no organization.
ASSUME OffersAssumption == NoDelete.id \notin Offers /\ NoOrg \notin Organizations

CatalogueInit ==
    /\ owner \in [Offers -> Organizations]
    /\ stock = [p \in Offers |-> NoOffer]
    /\ screen = Away /\ shelf = Empty /\ spins = FALSE /\ fault = FALSE
    /\ posts = <<>> /\ posted = 0 /\ pendingDelete = NoDelete /\ outdated = {}

Selling(p) == stock[p] > NoOffer
OnShelf(p) == shelf[p] # <<>>

\* What the answer to a request does not know is added to "missed" as it happens.
Post(kind, id, org, row, then) ==
    [kind |-> kind, id |-> id, org |-> org, state |-> "sent", row |-> row, rows |-> Empty,
     then |-> then, missed |-> {}]

Posts(rest, more) ==
    /\ posted + Len(more) <= MaxPosts /\ posted' = posted + Len(more)
    /\ posts' = rest \o more

fetchByOrg(org) == <<Post("fetch", "all", org, NoOffer, "nothing")>>

-----------------------------------------------------------------------------
\* The server

\* What an organization sells, as a list shows it.
OffersOf(org) ==
    [p \in Offers |-> IF Selling(p) /\ owner[p] = org THEN <<stock[p]>> ELSE <<>>]

\* The answer to a request shows what is written of the product.
About(r, p) == IF r.kind = "fetch" THEN owner[p] = r.org ELSE r.id = p

\* findByOrganization
ReadOffers(i) ==
    /\ posts[i].kind = "fetch" /\ posts[i].state = "sent" /\ posts[i].org # NoOrg
    /\ posts' = [posts EXCEPT ![i].state = "ok", ![i].rows = OffersOf(posts[i].org)]
    /\ UNCHANGED <<owner, stock, screen, shelf, spins, fault, posted, pendingDelete, outdated>>

\* create, update, setImageUrl and remove
WriteOffer(i) ==
    LET r == posts[i]
        informed(p) == [j \in DOMAIN posts |->
            IF j # i /\ posts[j].state = "ok" /\ About(posts[j], p)
            THEN [posts[j] EXCEPT !.missed = @ \cup {p}] ELSE posts[j]]
    IN
    /\ r.kind # "fetch" /\ r.state = "sent"
    /\ \E p \in Offers :
          /\ IF r.kind = "create" THEN owner[p] = r.org /\ stock[p] = NoOffer
             ELSE p = r.id /\ Selling(p)
          /\ stock' = [stock EXCEPT ![p] = IF r.kind = "delete" THEN Removed ELSE @ + 1]
          /\ posts' = [informed(p) EXCEPT ![i].state = "ok", ![i].id = p,
                           ![i].row = IF r.kind = "delete" THEN @ ELSE stock'[p]]
    /\ UNCHANGED <<owner, screen, shelf, spins, fault, posted, pendingDelete, outdated>>

-----------------------------------------------------------------------------
\* ProductsView.vue

\* Mutant: the deletion before this one is forgotten.
ForgetDelete == <<>>

flushPendingDelete ==
    IF pendingDelete = NoDelete THEN <<>>
    ELSE <<Post("delete", pendingDelete.id, screen.org, NoOffer, "fetch")>>

\* The form that sent an image is left: its button waits for the answer no more.
Unawaited(rest) ==
    [i \in DOMAIN rest |->
        IF rest[i].then = "form" THEN [rest[i] EXCEPT !.then = "nothing"] ELSE rest[i]]

\* The router goes to another view: the list that is left sends the deletion that waits,
\* one that opens is fetched.  A list in place of a list is the same view and stays.
GoTo(to, rest, spinning, wrong) ==
    LET opens == to.at = "list" /\ screen.at # "list"
        leaves == screen.at = "list" /\ to.at # "list"
        flushed == IF leaves THEN flushPendingDelete ELSE <<>>
    IN
    /\ screen' = IF to.at = screen.at THEN screen ELSE to
    /\ Posts(IF screen.at = "form" THEN Unawaited(rest) ELSE rest,
             IF opens THEN fetchByOrg(to.org) ELSE flushed)
    /\ pendingDelete' = IF leaves THEN NoDelete ELSE pendingDelete
    /\ spins' = (opens \/ spinning)
    /\ fault' = (wrong /\ ~opens /\ flushed = <<>>)

\* Other pages lead to every list, a list to them and to the form of a new product,
\* a form to its list and to other pages.
Onwards == CASE screen.at = "away" -> {ListOf(o) : o \in Organizations}
             [] screen.at = "list" -> {Away, FormOf(screen.org, NewOffer)}
             [] OTHER -> {ListOf(screen.org), Away}

Screens ==
    {Away} \cup {ListOf(o) : o \in Organizations \cup {NoOrg}}
           \cup {FormOf(o, p) : o \in Organizations \cup {NoOrg}, p \in Offers \cup {NewOffer}}

\* Where router.back() may lead: a form was opened from its list.
Backwards == CASE screen.at = "away" -> Screens
               [] screen.at = "list" -> Onwards \cup {screen}
               [] OTHER -> {ListOf(screen.org)}

CardsShown == screen.at = "list" /\ ~spins /\ ~fault

Navigate ==
    /\ \/ \E to \in Onwards : GoTo(to, posts, spins, fault)
       \/ CardsShown /\ \E p \in Offers :
             OnShelf(p) /\ GoTo(FormOf(screen.org, p), posts, spins, fault)
    /\ UNCHANGED <<owner, stock, shelf, outdated>>

FetchShelf ==
    /\ screen.at = "list" /\ fault /\ ~spins
    /\ Posts(posts, fetchByOrg(screen.org))
    /\ spins' = TRUE /\ fault' = FALSE
    /\ UNCHANGED <<owner, stock, screen, shelf, pendingDelete, outdated>>

handleDelete(p) ==
    /\ CardsShown /\ OnShelf(p)
    /\ Posts(posts, flushPendingDelete)
    /\ shelf' = [shelf EXCEPT ![p] = Tail(@)]
    /\ pendingDelete' = [id |-> p, row |-> shelf[p][1]]
    /\ UNCHANGED <<owner, stock, screen, spins, fault, outdated>>

\* restoreLocal puts it where it was: before or after one that came meanwhile.
Restored(p, row) == {[shelf EXCEPT ![p] = <<row>> \o @], [shelf EXCEPT ![p] = Append(@, row)]}

UndoDelete ==
    /\ pendingDelete # NoDelete
    /\ shelf' \in Restored(pendingDelete.id, pendingDelete.row)
    /\ pendingDelete' = NoDelete
    /\ UNCHANGED <<owner, stock, screen, spins, fault, posts, posted, outdated>>

DeleteTimer ==
    /\ pendingDelete # NoDelete
    /\ Posts(posts, <<Post("delete", pendingDelete.id, screen.org, pendingDelete.row,
                           "restore")>>)
    /\ pendingDelete' = NoDelete /\ fault' = FALSE
    /\ UNCHANGED <<owner, stock, screen, shelf, spins, outdated>>

-----------------------------------------------------------------------------
\* ProductFormView.vue

\* The button waits for the store; an image that was chosen is sent after the product.
handleSubmit ==
    /\ screen.at = "form" /\ ~spins
    /\ \E image \in BOOLEAN :
          /\ image => screen.offer = NewOffer
          /\ Posts(posts, <<IF screen.offer = NewOffer
                THEN Post("create", NewOffer, screen.org, NoOffer,
                          IF image THEN "image" ELSE "push")
                ELSE Post("update", screen.offer, screen.org, NoOffer, "back")>>)
    /\ spins' = TRUE /\ fault' = FALSE
    /\ UNCHANGED <<owner, stock, screen, shelf, pendingDelete, outdated>>

\* onFileChange and removeImage of the form of a product, one at a time: imageBusy
ChangeImage ==
    /\ screen.at = "form" /\ screen.offer # NewOffer
    /\ \A i \in DOMAIN posts : posts[i].then # "form"
    /\ Posts(posts, <<Post("image", screen.offer, screen.org, NoOffer, "form")>>)
    /\ fault' = FALSE
    /\ UNCHANGED <<owner, stock, screen, shelf, spins, pendingDelete, outdated>>

-----------------------------------------------------------------------------
\* The answers

\* A fetch brings back what is about to be deleted, and loses what was changed since
\* it was read; one of another organization replaces the whole list.  An answer is lost
\* on a product that should be shown and is not, and the answer to a creation shows again
\* what a fetch has shown before, or what belongs to another list.
Outdated(i) ==
    LET r == posts[i]
        ours == {p \in Offers : owner[p] = screen.org}
        sent == {j \in DOMAIN posts : posts[j].kind = "delete" /\ posts[j].state = "sent"}
        leaving == ({pendingDelete.id} \cap Offers) \cup ({posts[j].id : j \in sent} \cap ours)
    IN  CASE r.kind = "fetch" -> IF r.org = screen.org THEN r.missed \cup leaving ELSE Offers
          [] r.kind \in {"update", "image"} ->
                outdated \cup r.missed \cup ({r.id} \cap IF OnShelf(r.id) THEN {} ELSE ours)
          [] r.kind = "create" ->
                outdated \cup r.missed \cup
                    ({r.id} \cap IF OnShelf(r.id) THEN Offers ELSE leaving \cup (Offers \ ours))
          [] OTHER -> outdated

\* Where the form goes when it has made a product: to the list of the organization in
\* the route, as the route is by then, which has one only while such a form is open.
Made ==
    ListOf(IF screen.at = "form" /\ screen.offer = NewOffer THEN screen.org ELSE NoOrg)

\* What follows an answer, or a failure.  After a save the router goes back, or to
\* the list, from wherever the user is.
GoOn(i, ok) ==
    LET r == posts[i]
        rest == RemoveAt(posts, i)
        spinning == spins /\ r.kind \notin {"fetch", "create", "update"}
        stays == UNCHANGED <<screen, pendingDelete>>
    IN  CASE r.then = "back" /\ ok -> \E to \in Backwards : GoTo(to, rest, spinning, fault)
          [] r.then = "push" /\ (ok \/ r.kind = "image") -> GoTo(Made, rest, spinning, ~ok \/ fault)
          [] r.then = "image" /\ ok ->
                /\ Posts(rest, <<Post("image", r.id, r.org, NoOffer, "push")>>)
                /\ spins' = spinning /\ fault' = FALSE /\ stays
          [] r.then = "fetch" /\ ~ok ->
                Posts(rest, fetchByOrg(r.org)) /\ spins' = TRUE /\ fault' = FALSE /\ stays
          [] OTHER ->
                /\ posts' = rest /\ posted' = posted
                /\ spins' = spinning /\ fault' = (~ok \/ fault) /\ stays

PostAnswered(i) ==
    LET r == posts[i] IN
    /\ r.state = "ok"
    /\ shelf' = CASE r.kind = "fetch" -> r.rows
                  [] r.kind = "create" -> [shelf EXCEPT ![r.id] = Append(@, r.row)]
                  [] r.kind \in {"update", "image"} /\ OnShelf(r.id) ->
                         [shelf EXCEPT ![r.id][1] = r.row]
                  [] OTHER -> shelf
    /\ outdated' = Outdated(i)
    /\ GoOn(i, TRUE) /\ UNCHANGED <<owner, stock>>

\* The server refuses, or the connection breaks before or after it has answered.  A
\* deletion the timer sent is undone, into the list that is there by then; after another
\* one the list it was made in is fetched again.
PostFails(i) ==
    LET r == posts[i]
        astray == r.then = "restore" /\ owner[r.id] # screen.org
    IN
    /\ shelf' \in IF r.then = "restore" THEN Restored(r.id, r.row) ELSE {shelf}
    /\ outdated' = outdated \cup CASE r.kind = "fetch" /\ r.org = screen.org -> Offers
                                   [] r.kind # "fetch" /\ (r.state = "ok" \/ astray) -> {r.id}
                                   [] OTHER -> {}
    /\ GoOn(i, FALSE) /\ UNCHANGED <<owner, stock>>

CatalogueNext ==
    \/ Navigate \/ FetchShelf \/ UndoDelete \/ DeleteTimer \/ handleSubmit \/ ChangeImage
    \/ \E p \in Offers : handleDelete(p)
    \/ \E i \in DOMAIN posts :
          ReadOffers(i) \/ WriteOffer(i) \/ PostAnswered(i) \/ PostFails(i)

CatalogueSpec == CatalogueInit /\ [][CatalogueNext]_catalogueVars

-----------------------------------------------------------------------------
\* When nothing is under way any more, the list of an organization shows every product
\* of that organization once and as it is, and none of another, after whatever was made,
\* changed, deleted and undone in any of the lists, or from a form that was left before
\* the answer came.  A product is excepted when an answer about it was lost or overtaken,
\* when a fetch brought it back while it was being deleted, and when it came into the list
\* of another organization as it was made or as its deletion failed; all are when the late
\* answer to the fetch of another organization took the place of the list.
CatalogueSettles ==
    (CardsShown /\ posts = <<>> /\ pendingDelete = NoDelete) =>
        \A p \in Offers \ outdated : shelf[p] = OffersOf(screen.org)[p]

=============================================================================
