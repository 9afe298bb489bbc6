------------------------------ MODULE Products ------------------------------
(***************************************************************************)
(* The products of one organization and their images on disk:               *)
(* src/backend/src/modules/products/products.service.ts and                 *)
(* products.controller.ts, as they are called from two forms                *)
(* (src/frontend/src/views/supplier/ProductFormView.vue), each with one      *)
(* request under way, and from the list of products (ProductsView.vue).     *)
(* Nothing runs in a transaction, and a handler can fail before each of its *)
(* steps.                                                                   *)
(***************************************************************************)
EXTENDS Integers, Sequences

CONSTANTS
    Products,    \* ids, each given once
    Skus,        \* up to upper and lower case, in which they are compared
    Forms,
    MaxFiles     \* bound: uploads

VARIABLES
    product,     \* the table: [sku, imageUrl], NotYet or Deleted
    files,       \* what is in UPLOADS_DIR
    uploaded,    \* how many files were stored in all
    request,       \* the request of each form
    rivals       \* history: two saves with one SKU have crossed

productVars == <<product, files, uploaded, request, rivals>>

NoSku   == "no sku"
NoImage == 0
NoRequest  == [pc |-> "none"]
NotYet  == [sku |-> "not yet", imageUrl |-> NoImage]
Deleted == [sku |-> "deleted", imageUrl |-> NoImage]

Sold == {p \in Products : product[p] \notin {NotYet, Deleted}}

ProductsInit ==
    /\ product = [p \in Products |-> NotYet]
    /\ files = {} /\ uploaded = 0 /\ rivals = FALSE
    /\ request = [f \in Forms |-> NoRequest]

-----------------------------------------------------------------------------
\* create and update

\* A SKU is checked first; without one there is nothing to check.
SubmitForm(f) ==
    /\ request[f] = NoRequest
    /\ \E p \in Products, s \in Skus \cup {NoSku} :
          /\ product[p] # Deleted
          /\ request' = [request EXCEPT ![f] =
                 [pc |-> IF s = NoSku THEN "write" ELSE "check", product |-> p, sku |-> s,
                  new |-> product[p] = NotYet]]
    /\ UNCHANGED <<product, files, uploaded, rivals>>

\* Mutant: an update conflicts with nothing.
ConflictsOfNew(p, s, new) == IF new THEN {q \in Sold : product[q].sku = s} ELSE {}

\* The product itself is not in its own way.
Conflicts(p, s, new) == {q \in Sold \ (IF new THEN {} ELSE {p}) : product[q].sku = s}

assertSkuUnique(f) ==
    LET c == request[f] IN
    /\ c.pc = "check"
    /\ request' = [request EXCEPT ![f] =
           IF Conflicts(c.product, c.sku, c.new) = {} /\ (c.new \/ c.product \in Sold)
           THEN [c EXCEPT !.pc = "write"] ELSE NoRequest]
    /\ UNCHANGED <<product, files, uploaded, rivals>>

\* An INSERT takes the next id; an UPDATE of a product that is gone does nothing, and
\* one without a SKU leaves the old one.
WriteProduct(f) ==
    LET c == request[f]
        others == {g \in Forms \ {f} : request[g].pc = "write" /\ request[g].sku = c.sku}
    IN
    /\ c.pc = "write"
    /\ \/ /\ c.new
          /\ \E p \in Products :
                /\ product[p] = NotYet
                /\ product' = [product EXCEPT ![p] = [sku |-> c.sku, imageUrl |-> NoImage]]
       \/ /\ ~c.new
          /\ product' = IF c.product \in Sold /\ c.sku # NoSku
                        THEN [product EXCEPT ![c.product].sku = c.sku] ELSE product
    /\ rivals' = (rivals \/ (c.sku # NoSku /\ others # {}))
    /\ request' = [request EXCEPT ![f] = NoRequest]
    /\ UNCHANGED <<files, uploaded>>

-----------------------------------------------------------------------------
\* The image

\* The interceptor stores the file before the handler begins.
UploadImage(f) ==
    /\ request[f] = NoRequest /\ uploaded < MaxFiles
    /\ \E p \in Sold :
          request' = [request EXCEPT ![f] = [pc |-> "find", kind |-> "upload", product |-> p,
                                             url |-> uploaded + 1, previous |-> NoImage]]
    /\ uploaded' = uploaded + 1 /\ files' = files \cup {uploaded + 1}
    /\ UNCHANGED <<product, rivals>>

\* The button is there for a product with an image; the list removes a product.
RemoveImage(f) ==
    /\ request[f] = NoRequest
    /\ \E p \in Sold, kind \in {"deleteImage", "remove"} :
          /\ kind = "remove" \/ product[p].imageUrl # NoImage
          /\ request' = [request EXCEPT ![f] = [pc |-> "find", kind |-> kind, product |-> p,
                                                url |-> NoImage, previous |-> NoImage]]
    /\ UNCHANGED <<product, files, uploaded, rivals>>

\* findById
FindProduct(f) ==
    LET c == request[f]
        image == product[c.product].imageUrl
    IN
    /\ c.pc = "find"
    /\ request' = [request EXCEPT ![f] =
           IF c.product \notin Sold \/ (c.kind = "deleteImage" /\ image = NoImage) THEN NoRequest
           ELSE [c EXCEPT !.pc = "set", !.previous = image]]
    /\ UNCHANGED <<product, files, uploaded, rivals>>

\* setImageUrl and remove find nothing when the product is gone.
SetImageUrl(f) ==
    LET c == request[f] IN
    /\ c.pc = "set"
    /\ product' = IF c.product \notin Sold THEN product
                  ELSE IF c.kind = "remove" THEN [product EXCEPT ![c.product] = Deleted]
                  ELSE [product EXCEPT ![c.product].imageUrl = c.url]
    /\ request' = [request EXCEPT ![f] =
           IF c.product \notin Sold \/ c.previous = NoImage THEN NoRequest
           ELSE [c EXCEPT !.pc = "unlink"]]
    /\ UNCHANGED <<files, uploaded, rivals>>

\* Mutant: what the product has now is deleted.
UnlinkCurrent(c) == files \ {product[c.product].imageUrl}

\* deleteUploadedFile: the image that was found at first.
Unlinked(c) == files \ {c.previous}

DeleteUploadedFile(f) ==
    /\ request[f].pc = "unlink"
    /\ files' = Unlinked(request[f])
    /\ request' = [request EXCEPT ![f] = NoRequest]
    /\ UNCHANGED <<product, uploaded, rivals>>

-----------------------------------------------------------------------------
\* A statement throws or the server stops: the steps that are left are not made.
HandlerFails(f) ==
    /\ request[f] # NoRequest
    /\ request' = [request EXCEPT ![f] = NoRequest]
    /\ UNCHANGED <<product, files, uploaded, rivals>>

ProductsNext ==
    \E f \in Forms :
        \/ SubmitForm(f) \/ assertSkuUnique(f) \/ WriteProduct(f)
        \/ UploadImage(f) \/ RemoveImage(f) \/ FindProduct(f) \/ SetImageUrl(f)
        \/ DeleteUploadedFile(f) \/ HandlerFails(f)

ProductsSpec == ProductsInit /\ [][ProductsNext]_productVars

-----------------------------------------------------------------------------
\* Properties

\* The image of a product is on disk, however uploads, deletions and removals of two
\* forms interleave and wherever they fail: the row changes before the file is
\* deleted, and only the file that was found at first is.  Files that belong to
\* nothing can stay.
ImagesExist == \A p \in Sold : product[p].imageUrl # NoImage => product[p].imageUrl \in files

\* No two products of the organization have the same SKU, unless two saves with it
\* were both checked before either was written: no constraint of the table holds it.
SkusUnique ==
    ~rivals => \A p, q \in Sold : product[p].sku = product[q].sku /\ product[p].sku # NoSku => p = q

=============================================================================
