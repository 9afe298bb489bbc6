--------------------------- MODULE ProductsProofs ---------------------------
(***************************************************************************)
(* The image of a product is on disk, and no two products of an             *)
(* organization have the same SKU, unless two saves of them raced; and what *)
(* a supplier sees of the products ends as they are.  Proved for every      *)
(* number of products, forms, uploads and requests.                         *)
(*                                                                          *)
(* ImagesExist is not inductive.  A handler that is about to delete a file  *)
(* has found it long ago, and one that is about to set an image has stored  *)
(* it long ago: the invariant says what the requests under way hold in      *)
(* their local variables, and that a file name is given once.               *)
(*                                                                          *)
(* CatalogueSettles speaks of the moment when no request is under way.  The *)
(* invariant says of each one what it will still change, and that a product *)
(* is deleted by one at a time and not shown meanwhile.  It says nothing    *)
(* while no list is open, or the one that is open waits for its own fetch.  *)
(***************************************************************************)
EXTENDS Products, Catalogue, BrowserProofs

-----------------------------------------------------------------------------
\* The products as they are stored

SaveRequest == [pc: {"check", "write"}, product: Products, sku: Skus \cup {NoSku}, new: BOOLEAN]

ImageRequest ==
    [pc: {"find", "set", "unlink"}, kind: {"upload", "deleteImage", "remove"},
     product: Products, url: Nat, previous: Nat]

Row == [sku: Skus \cup {NoSku, "not yet", "deleted"}, imageUrl: Nat]

ProductsTypeOK ==
    /\ product \in [Products -> Row]
    /\ files \subseteq Nat /\ uploaded \in Nat /\ rivals \in BOOLEAN
    /\ request \in [Forms -> {NoRequest} \cup SaveRequest \cup ImageRequest]

Image(p) == product[p].imageUrl

\* A form whose upload is stored and not yet the image of a product.
Uploading(f) == request[f].pc \in {"find", "set"} /\ request[f].url # NoImage

\* A form whose handler has found an image that it will delete.
Found(f) == request[f].pc \in {"set", "unlink"} /\ request[f].previous # NoImage

\* File names are not given twice.
NamesInv ==
    /\ \A p \in Products : Image(p) <= uploaded
    /\ \A f \in Forms : /\ Uploading(f) => request[f].url <= uploaded
                        /\ Found(f) => request[f].previous <= uploaded

\* A stored upload is on disk and belongs to no product and no other request.
UploadInv ==
    \A f \in Forms : Uploading(f) =>
        /\ request[f].url \in files
        /\ \A p \in Products : Image(p) # request[f].url
        /\ \A g \in Forms : /\ Uploading(g) /\ request[g].url = request[f].url => g = f
                            /\ Found(g) => request[g].previous # request[f].url

\* What a handler is to delete was the image of its product, and is none once the
\* row is changed.
FoundInv ==
    \A f \in Forms : Found(f) =>
        \A p \in Products :
            Image(p) = request[f].previous => request[f].pc = "set" /\ p = request[f].product

\* The image of a product is on disk and not that of another.
ImageInv ==
    \A p \in Products : Image(p) # NoImage =>
        /\ Image(p) \in files
        /\ \A q \in Products : Image(q) = Image(p) => q = p

IInv == ProductsTypeOK /\ NamesInv /\ UploadInv /\ FoundInv /\ ImageInv

-----------------------------------------------------------------------------
\* Rows and requests

LEMMA RowFacts ==
    /\ \A s \in Skus \cup {NoSku} : [sku |-> s, imageUrl |-> NoImage] \in Row
    /\ \A r \in Row : r.imageUrl \in Nat
    /\ \A r \in Row, s \in Skus \cup {NoSku} :
          [r EXCEPT !.sku = s] \in Row /\ [r EXCEPT !.sku = s].imageUrl = r.imageUrl
    /\ \A r \in Row, u \in Nat :
          [r EXCEPT !.imageUrl = u] \in Row /\ [r EXCEPT !.imageUrl = u].imageUrl = u
    /\ Deleted \in Row /\ Deleted.imageUrl = NoImage /\ NotYet.imageUrl = NoImage
BY DEF Row, Deleted, NotYet, NoImage

\* The shape of a request is known by where it is.
LEMMA RequestKinds ==
    ASSUME IInv, NEW f \in Forms
    PROVE  /\ request[f].pc \in {"check", "write"} => request[f] \in SaveRequest
           /\ request[f].pc \in {"find", "set", "unlink"} => request[f] \in ImageRequest
<1>1. request[f] \in {NoRequest} \cup SaveRequest \cup ImageRequest
  BY DEF IInv, ProductsTypeOK
<1>2. NoRequest.pc = "none"
  BY DEF NoRequest
<1>3. \A r \in SaveRequest : r.pc \in {"check", "write"}
  BY DEF SaveRequest
<1>4. \A r \in ImageRequest : r.pc \in {"find", "set", "unlink"}
  BY DEF ImageRequest
<1> QED BY <1>1, <1>2, <1>3, <1>4

LEMMA SaveFacts ==
    ASSUME NEW c \in SaveRequest
    PROVE  /\ c.product \in Products /\ c.sku \in Skus \cup {NoSku}
           /\ [c EXCEPT !.pc = "write"] \in SaveRequest
           /\ [c EXCEPT !.pc = "write"].pc = "write"
BY DEF SaveRequest

LEMMA ImageFacts ==
    ASSUME NEW c \in ImageRequest, NEW u \in Nat
    PROVE  /\ c.product \in Products /\ c.url \in Nat /\ c.previous \in Nat
           /\ LET d == [c EXCEPT !.pc = "unlink"]
              IN  /\ d \in ImageRequest
                  /\ d.pc = "unlink" /\ d.previous = c.previous
           /\ LET d == [c EXCEPT !.pc = "set", !.previous = u]
              IN  /\ d \in ImageRequest /\ d.pc = "set" /\ d.url = c.url
                  /\ d.product = c.product /\ d.previous = u
BY DEF ImageRequest

\* The names of files that are in use are numbers.
LEMMA NumbersInv ==
    ASSUME IInv
    PROVE  /\ uploaded \in Nat
           /\ \A p \in Products : Image(p) \in Nat
           /\ \A f \in Forms : Uploading(f) => request[f].url \in Nat
           /\ \A f \in Forms : Found(f) => request[f].previous \in Nat
<1>1. \A p \in Products : Image(p) \in Nat
  BY RowFacts DEF IInv, ProductsTypeOK, Image
<1>2. \A f \in Forms : request[f].pc \in {"find", "set", "unlink"} =>
          request[f].url \in Nat /\ request[f].previous \in Nat
  BY RequestKinds, ImageFacts, 0 \in Nat
<1> QED BY <1>1, <1>2 DEF IInv, ProductsTypeOK, Uploading, Found

-----------------------------------------------------------------------------
\* Steps

\* A form that goes on to a request without images, or to none, disturbs nothing,
\* and neither does what it writes to products, as long as their images stay.
LEMMA PlainStep ==
    ASSUME IInv, ProductsTypeOK', NEW f \in Forms, NEW r,
           request' = [request EXCEPT ![f] = r],
           r.pc \notin {"find", "set", "unlink"} \/ (r.pc = "find" /\ r.url = NoImage),
           \A p \in Products : Image(p)' = Image(p),
           UNCHANGED <<files, uploaded>>
    PROVE  IInv'
<1>1. /\ ~Uploading(f)' /\ ~Found(f)'
      /\ \A g \in Forms \ {f} : request'[g] = request[g]
  BY DEF Uploading, Found, IInv, ProductsTypeOK
<1>2. NamesInv'
  BY <1>1 DEF IInv, NamesInv, Uploading, Found
<1>3. UploadInv'
  BY <1>1 DEF IInv, UploadInv, Uploading, Found
<1>4. FoundInv'
  BY <1>1 DEF IInv, FoundInv, Found
<1>5. ImageInv'
  BY DEF IInv, ImageInv
<1> QED BY <1>2, <1>3, <1>4, <1>5 DEF IInv

LEMMA SubmitFormInv ==
    ASSUME IInv, NEW f \in Forms, SubmitForm(f)
    PROVE  IInv'
<1>1. PICK r \in SaveRequest : request' = [request EXCEPT ![f] = r]
  BY DEF SubmitForm, SaveRequest
<1>2. UNCHANGED <<product, files, uploaded, rivals>>
  BY DEF SubmitForm
<1>3. ProductsTypeOK'
  BY <1>1, <1>2 DEF IInv, ProductsTypeOK
<1>4. r.pc \in {"check", "write"}
  BY DEF SaveRequest
<1> QED BY <1>1, <1>2, <1>3, <1>4, PlainStep DEF Image

LEMMA CheckInv ==
    ASSUME IInv, NEW f \in Forms, assertSkuUnique(f)
    PROVE  IInv'
<1> DEFINE next == [request[f] EXCEPT !.pc = "write"]
<1>1. request[f] \in SaveRequest
  BY RequestKinds DEF assertSkuUnique
<1>2. PICK r \in {NoRequest, next} : request' = [request EXCEPT ![f] = r]
  BY DEF assertSkuUnique
<1>3. next \in SaveRequest /\ next.pc = "write"
  BY <1>1, SaveFacts
<1> HIDE DEF next
<1>4. r \in {NoRequest} \cup SaveRequest /\ r.pc \in {"none", "write"}
  BY <1>2, <1>3 DEF NoRequest
<1>5. UNCHANGED <<product, files, uploaded, rivals>>
  BY DEF assertSkuUnique
<1>6. ProductsTypeOK'
  BY <1>2, <1>4, <1>5 DEF IInv, ProductsTypeOK
<1> QED BY <1>2, <1>4, <1>5, <1>6, PlainStep DEF Image

LEMMA WriteProductInv ==
    ASSUME IInv, NEW f \in Forms, WriteProduct(f)
    PROVE  IInv'
<1> DEFINE c == request[f]
<1>1. c.product \in Products /\ c.sku \in Skus \cup {NoSku}
  BY RequestKinds, SaveFacts DEF WriteProduct
<1>2. request' = [request EXCEPT ![f] = NoRequest] /\ UNCHANGED <<files, uploaded>>
      /\ rivals' \in BOOLEAN
  BY DEF WriteProduct, IInv, ProductsTypeOK
<1>3. product' \in [Products -> Row] /\ \A p \in Products : Image(p)' = Image(p)
  <2>1. product \in [Products -> Row]
    BY DEF IInv, ProductsTypeOK
  <2>2. \/ \E p \in Products :
              /\ product[p] = NotYet
              /\ product' = [product EXCEPT ![p] = [sku |-> c.sku, imageUrl |-> NoImage]]
        \/ product' = [product EXCEPT ![c.product] = [product[c.product] EXCEPT !.sku = c.sku]]
        \/ UNCHANGED product
    BY DEF WriteProduct
  <2>3. ASSUME NEW p \in Products, NEW r \in Row, r.imageUrl = product[p].imageUrl,
               product' = [product EXCEPT ![p] = r]
        PROVE  product' \in [Products -> Row] /\ \A q \in Products : Image(q)' = Image(q)
    BY <2>1, <2>3 DEF Image
  <2>4. ASSUME NEW p \in Products, product[p] = NotYet,
               product' = [product EXCEPT ![p] = [sku |-> c.sku, imageUrl |-> NoImage]]
        PROVE  product' \in [Products -> Row] /\ \A q \in Products : Image(q)' = Image(q)
    BY <1>1, <2>3, <2>4, RowFacts
  <2>5. CASE product' = [product EXCEPT ![c.product] = [product[c.product] EXCEPT !.sku = c.sku]]
    <3> DEFINE r == [product[c.product] EXCEPT !.sku = c.sku]
    <3>1. r \in Row /\ r.imageUrl = product[c.product].imageUrl
      BY <1>1, <2>1, RowFacts
    <3>2. product' = [product EXCEPT ![c.product] = r]
      BY <2>5
    <3> HIDE DEF r
    <3> QED BY <1>1, <2>3, <3>1, <3>2
  <2> QED BY <2>1, <2>2, <2>4, <2>5 DEF Image
<1>4. ProductsTypeOK'
  BY <1>2, <1>3 DEF IInv, ProductsTypeOK
<1>5. NoRequest.pc = "none"
  BY DEF NoRequest
<1> QED BY <1>2, <1>3, <1>4, <1>5, PlainStep

LEMMA RemoveImageInv ==
    ASSUME IInv, NEW f \in Forms, RemoveImage(f)
    PROVE  IInv'
<1>1. PICK p \in Products, kind \in {"deleteImage", "remove"} :
          request' = [request EXCEPT ![f] = [pc |-> "find", kind |-> kind, product |-> p,
                                             url |-> NoImage, previous |-> NoImage]]
  BY DEF RemoveImage, Sold
<1>2. UNCHANGED <<product, files, uploaded, rivals>>
  BY DEF RemoveImage
<1>3. ProductsTypeOK'
  BY <1>1, <1>2 DEF IInv, ProductsTypeOK, ImageRequest, NoImage
<1> QED BY <1>1, <1>2, <1>3, PlainStep DEF Image

LEMMA HandlerFailsInv ==
    ASSUME IInv, NEW f \in Forms, HandlerFails(f)
    PROVE  IInv'
<1>1. /\ request' = [request EXCEPT ![f] = NoRequest]
      /\ UNCHANGED <<product, files, uploaded, rivals>>
  BY DEF HandlerFails
<1>2. ProductsTypeOK'
  BY <1>1 DEF IInv, ProductsTypeOK
<1> QED BY <1>1, <1>2, PlainStep DEF Image, NoRequest

\* The name of the new file is greater than all that are in use.
LEMMA UploadImageInv ==
    ASSUME IInv, NEW f \in Forms, UploadImage(f)
    PROVE  IInv'
<1> DEFINE new == uploaded + 1
<1>1. PICK p \in Products :
          request' = [request EXCEPT ![f] = [pc |-> "find", kind |-> "upload", product |-> p,
                                             url |-> new, previous |-> NoImage]]
  BY DEF UploadImage, Sold
<1>2. /\ uploaded \in Nat /\ uploaded' = new /\ files' = files \cup {new}
      /\ UNCHANGED <<product, rivals>>
  BY DEF UploadImage, IInv, ProductsTypeOK
<1>3. ProductsTypeOK'
  BY <1>1, <1>2 DEF IInv, ProductsTypeOK, ImageRequest, NoImage
<1>4. /\ Uploading(f)' /\ ~Found(f)' /\ request'[f].url = new
      /\ \A g \in Forms \ {f} : request'[g] = request[g]
  <2>1. /\ request'[f].pc = "find" /\ request'[f].url = new
        /\ \A g \in Forms \ {f} : request'[g] = request[g]
    BY <1>1 DEF IInv, ProductsTypeOK
  <2> QED BY <1>2, <2>1 DEF Uploading, Found, NoImage
<1>5. /\ \A g \in Forms : Uploading(g) => request[g].url \in Nat
      /\ \A g \in Forms : Found(g) => request[g].previous \in Nat
      /\ \A q \in Products : Image(q) \in Nat
  BY NumbersInv
<1>6. NamesInv'
  BY <1>2, <1>4, <1>5 DEF IInv, NamesInv, Uploading, Found, Image
<1>7. UploadInv'
  <2> SUFFICES ASSUME NEW g \in Forms, Uploading(g)'
               PROVE  /\ (request[g].url \in files)'
                      /\ \A q \in Products : (Image(q) # request[g].url)'
                      /\ \A h \in Forms :
                            /\ (Uploading(h) /\ request[h].url = request[g].url)' => h = g
                            /\ (Found(h) => request[h].previous # request[g].url)'
    BY DEF UploadInv
  <2>1. CASE g = f
    BY <1>2, <1>4, <1>5, <2>1 DEF IInv, NamesInv, Uploading, Found, Image
  <2>2. CASE g # f
    <3>1. Uploading(g) /\ request'[g] = request[g] /\ request[g].url # new
      BY <1>2, <1>4, <1>5, <2>2 DEF IInv, NamesInv, Uploading
    <3> QED BY <1>2, <1>4, <3>1 DEF IInv, UploadInv, Uploading, Found, Image
  <2> QED BY <2>1, <2>2
<1>8. FoundInv'
  BY <1>2, <1>4 DEF IInv, FoundInv, Found, Image
<1>9. ImageInv'
  BY <1>2 DEF IInv, ImageInv, Image
<1> QED BY <1>3, <1>6, <1>7, <1>8, <1>9 DEF IInv

LEMMA FindProductInv ==
    ASSUME IInv, NEW f \in Forms, FindProduct(f)
    PROVE  IInv'
<1> DEFINE c == request[f]
           found == [c EXCEPT !.pc = "set", !.previous = product[c.product].imageUrl]
<1>1. /\ c.pc = "find" /\ c \in ImageRequest /\ c.product \in Products
      /\ c.url \in Nat /\ Image(c.product) \in Nat
  BY RequestKinds, NumbersInv, ImageFacts, 0 \in Nat DEF FindProduct
<1>2. UNCHANGED <<product, files, uploaded, rivals>>
  BY DEF FindProduct
<1>3. \/ request' = [request EXCEPT ![f] = NoRequest]
      \/ request' = [request EXCEPT ![f] = found]
  BY DEF FindProduct
<1>4. found \in ImageRequest /\ found.pc = "set" /\ found.url = c.url
      /\ found.product = c.product /\ found.previous = Image(c.product)
  BY <1>1, ImageFacts DEF Image
<1> HIDE DEF found
<1>5. CASE request' = [request EXCEPT ![f] = NoRequest]
  <2>1. ProductsTypeOK'
    BY <1>2, <1>5 DEF IInv, ProductsTypeOK
  <2> QED BY <1>2, <1>5, <2>1, PlainStep DEF Image, NoRequest
<1>6. CASE request' = [request EXCEPT ![f] = found]
  <2>1. ProductsTypeOK'
    BY <1>2, <1>4, <1>6 DEF IInv, ProductsTypeOK
  <2>2. /\ request'[f] = found
        /\ \A g \in Forms \ {f} : request'[g] = request[g]
    BY <1>6 DEF IInv, ProductsTypeOK
  <2>3. /\ \A g \in Forms : Uploading(g)' = Uploading(g) /\ request'[g].url = request[g].url
        /\ \A g \in Forms \ {f} : Found(g)' = Found(g)
        /\ Found(f)' => Image(c.product) # NoImage
        /\ \A p \in Products : Image(p)' = Image(p)
        /\ c.product \in Products
    BY <1>1, <1>2, <1>4, <2>2 DEF Uploading, Found, Image
  <2>4. NamesInv'
    BY <1>2, <1>4, <2>2, <2>3 DEF IInv, NamesInv
  <2>5. UploadInv'
    BY <1>2, <1>4, <2>2, <2>3 DEF IInv, UploadInv
  <2>6. FoundInv'
    BY <1>2, <1>4, <2>2, <2>3 DEF IInv, FoundInv, ImageInv
  <2>7. ImageInv'
    BY <1>2, <2>3 DEF IInv, ImageInv
  <2> QED BY <2>1, <2>4, <2>5, <2>6, <2>7 DEF IInv
<1> QED BY <1>3, <1>5, <1>6

LEMMA SetImageUrlInv ==
    ASSUME IInv, NEW f \in Forms, SetImageUrl(f)
    PROVE  IInv'
<1> DEFINE c == request[f]
           next == [c EXCEPT !.pc = "unlink"]
<1>1. /\ c.pc = "set" /\ c \in ImageRequest /\ c.product \in Products
      /\ c.url \in Nat /\ c.previous \in Nat
      /\ next \in ImageRequest /\ next.pc = "unlink" /\ next.previous = c.previous
  BY RequestKinds, ImageFacts, 0 \in Nat DEF SetImageUrl
<1>2. UNCHANGED <<files, uploaded, rivals>>
  BY DEF SetImageUrl
<1>3. CASE c.product \notin Sold
  <2>1. request' = [request EXCEPT ![f] = NoRequest] /\ UNCHANGED product
    BY <1>3 DEF SetImageUrl
  <2>2. ProductsTypeOK'
    BY <1>2, <2>1 DEF IInv, ProductsTypeOK
  <2> QED BY <1>2, <2>1, <2>2, PlainStep DEF Image, NoRequest
<1>4. CASE c.product \in Sold
  <2>1. PICK own \in Products : own = c.product
    BY <1>1
  <2>2. PICK r \in {NoRequest, next} :
            /\ request' = [request EXCEPT ![f] = r]
            /\ c.previous # NoImage => r = next
            /\ c.previous = NoImage => r = NoRequest
    BY <1>4 DEF SetImageUrl
  <2> HIDE DEF next
  <2>3. /\ r \in {NoRequest} \cup ImageRequest /\ r.pc \in {"none", "unlink"}
        /\ r.pc = "unlink" => r.previous = c.previous /\ c.previous # NoImage
    BY <1>1, <2>2 DEF NoRequest
  <2>4. /\ product' \in [Products -> Row]
        /\ Image(own)' \in {NoImage, c.url}
        /\ \A p \in Products \ {own} : Image(p)' = Image(p)
    <3> DEFINE row == [product[c.product] EXCEPT !.imageUrl = c.url]
    <3>1. product' \in {[product EXCEPT ![c.product] = Deleted], [product EXCEPT ![c.product] = row]}
      BY <1>4 DEF SetImageUrl
    <3>2. product \in [Products -> Row]
      BY DEF IInv, ProductsTypeOK
    <3>3. row \in Row /\ row.imageUrl = c.url
      BY <1>1, <3>2, RowFacts
    <3> HIDE DEF row
    <3>4. PICK new \in Row : /\ product' = [product EXCEPT ![c.product] = new]
                             /\ new.imageUrl \in {NoImage, c.url}
      BY <3>1, <3>3, RowFacts
    <3>5. product' \in [Products -> Row] /\ product'[own] = new
          /\ \A p \in Products \ {own} : product'[p] = product[p]
      BY <2>1, <3>2, <3>4
    <3> QED BY <3>4, <3>5 DEF Image
  <2>5. ProductsTypeOK'
    BY <1>2, <2>2, <2>3, <2>4 DEF IInv, ProductsTypeOK
  <2>6. /\ request'[f] = r
        /\ \A g \in Forms \ {f} : request'[g] = request[g]
    BY <2>2 DEF IInv, ProductsTypeOK
  <2>7. /\ \A g \in Forms \ {f} : Uploading(g)' = Uploading(g) /\ Found(g)' = Found(g)
        /\ ~Uploading(f)'
        /\ Found(f)' => Found(f) /\ request'[f].previous = c.previous
        /\ c.url # NoImage => Uploading(f)
    BY <1>1, <2>3, <2>6 DEF Uploading, Found
  <2>8. NamesInv'
    <3>1. Image(own)' <= uploaded
      BY <2>4, <2>7, NumbersInv DEF IInv, NamesInv, NoImage
    <3>2. \A p \in Products : Image(p)' <= uploaded
      BY <2>4, <3>1 DEF IInv, NamesInv
    <3> QED BY <1>2, <2>6, <2>7, <3>2 DEF IInv, NamesInv
  <2>9. UploadInv'
    <3> SUFFICES ASSUME NEW g \in Forms, Uploading(g)'
                 PROVE  /\ (request[g].url \in files)'
                        /\ \A q \in Products : (Image(q) # request[g].url)'
                        /\ \A h \in Forms :
                              /\ (Uploading(h) /\ request[h].url = request[g].url)' => h = g
                              /\ (Found(h) => request[h].previous # request[g].url)'
      BY DEF UploadInv
    <3>1. g # f /\ Uploading(g) /\ request'[g] = request[g] /\ request[g].url # NoImage
      BY <2>6, <2>7 DEF Uploading
    <3>2. Image(own)' # request[g].url
      BY <2>4, <2>7, <3>1 DEF IInv, UploadInv
    <3>3. \A q \in Products : Image(q)' # request[g].url
      BY <2>4, <3>1, <3>2 DEF IInv, UploadInv
    <3>4. \A h \in Forms : Found(h)' =>
              Found(h) /\ request'[h].previous = request[h].previous
      BY <2>6, <2>7
    <3>5. \A h \in Forms : Uploading(h)' => Uploading(h) /\ request'[h] = request[h]
      BY <2>6, <2>7
    <3>6. request[g].url \in files'
      BY <1>2, <3>1 DEF IInv, UploadInv
    <3> QED BY <3>1, <3>3, <3>4, <3>5, <3>6 DEF IInv, UploadInv
  <2>10. FoundInv'
    <3> SUFFICES ASSUME NEW g \in Forms, Found(g)', NEW p \in Products,
                        (Image(p) = request[g].previous)'
                 PROVE  (request[g].pc = "set" /\ p = request[g].product)'
      BY DEF FoundInv
    <3>1. Found(g) /\ request'[g].previous = request[g].previous /\ request[g].previous # NoImage
      BY <2>6, <2>7 DEF Found
    <3>2. Image(p)' = request[g].previous
      BY <3>1
    <3>3. p # own
      BY <2>4, <2>7, <3>1, <3>2 DEF IInv, UploadInv
    <3>4. Image(p) = request[g].previous
      BY <2>4, <3>3, <3>2
    <3>5. request[g].pc = "set" /\ p = request[g].product
      BY <3>1, <3>4 DEF IInv, FoundInv
    <3>6. g # f
      BY <2>1, <3>3, <3>5
    <3> QED BY <2>6, <3>5, <3>6
  <2>11. ImageInv'
    <3>1. Image(own)' # NoImage =>
              /\ Image(own)' \in files
              /\ \A q \in Products : Image(q) # Image(own)'
      BY <2>4, <2>7 DEF IInv, UploadInv
    <3> QED BY <1>1, <1>2, <2>4, <3>1 DEF IInv, ImageInv
  <2> QED BY <2>5, <2>8, <2>9, <2>10, <2>11 DEF IInv
<1> QED BY <1>3, <1>4

\* The file goes that was found at first, and it is the image of no product.
LEMMA DeleteUploadedFileInv ==
    ASSUME IInv, NEW f \in Forms, DeleteUploadedFile(f)
    PROVE  IInv'
<1> DEFINE c == request[f]
<1>1. c.pc = "unlink"
  BY DEF DeleteUploadedFile
<1>2. /\ request' = [request EXCEPT ![f] = NoRequest] /\ files' = files \ {c.previous}
      /\ UNCHANGED <<product, uploaded, rivals>>
  BY DEF DeleteUploadedFile, Unlinked
<1>3. ProductsTypeOK'
  BY <1>2 DEF IInv, ProductsTypeOK
<1>4. /\ ~Uploading(f)' /\ ~Found(f)'
      /\ \A g \in Forms \ {f} : request'[g] = request[g]
  BY <1>2 DEF IInv, ProductsTypeOK, Uploading, Found, NoRequest
<1>5. \A p \in Products : Image(p) # NoImage => Image(p) # c.previous
  BY <1>1 DEF IInv, FoundInv, Found
<1>6. \A g \in Forms : Uploading(g) => request[g].url # c.previous
  BY <1>1 DEF IInv, UploadInv, Found, Uploading
<1>7. NamesInv'
  BY <1>2, <1>4 DEF IInv, NamesInv, Uploading, Found, Image
<1>8. UploadInv'
  BY <1>2, <1>4, <1>6 DEF IInv, UploadInv, Uploading, Found, Image
<1>9. FoundInv'
  BY <1>2, <1>4 DEF IInv, FoundInv, Found, Image
<1>10. ImageInv'
  BY <1>2, <1>5 DEF IInv, ImageInv, Image
<1> QED BY <1>3, <1>7, <1>8, <1>9, <1>10 DEF IInv

-----------------------------------------------------------------------------

LEMMA InitInv == ProductsInit => IInv
<1> SUFFICES ASSUME ProductsInit PROVE IInv
  OBVIOUS
<1>1. /\ uploaded = 0 /\ files = {} /\ rivals = FALSE
      /\ \A p \in Products : Image(p) = NoImage
      /\ \A f \in Forms : ~Uploading(f) /\ ~Found(f)
  BY DEF ProductsInit, Image, Uploading, Found, NotYet, NoRequest
<1>2. NotYet \in Row
  BY DEF NotYet, Row, NoImage
<1>3. /\ product \in [Products -> Row]
      /\ request \in [Forms -> {NoRequest} \cup SaveRequest \cup ImageRequest]
  BY <1>2 DEF ProductsInit
<1>4. ProductsTypeOK
  BY <1>1, <1>3 DEF ProductsTypeOK
<1> QED BY <1>1, <1>4 DEF IInv, NamesInv, UploadInv, FoundInv, ImageInv, NoImage

LEMMA NextInv == IInv /\ [ProductsNext]_productVars => IInv'
<1> SUFFICES ASSUME IInv, [ProductsNext]_productVars PROVE IInv'
  OBVIOUS
<1>1. CASE UNCHANGED productVars
  BY <1>1 DEF productVars, IInv, ProductsTypeOK, NamesInv, UploadInv, FoundInv, ImageInv,
              Image, Uploading, Found
<1>2. ASSUME NEW f \in Forms,
             \/ SubmitForm(f) \/ assertSkuUnique(f) \/ WriteProduct(f)
             \/ UploadImage(f) \/ RemoveImage(f) \/ FindProduct(f) \/ SetImageUrl(f)
             \/ DeleteUploadedFile(f) \/ HandlerFails(f)
      PROVE  IInv'
  BY <1>2, SubmitFormInv, CheckInv, WriteProductInv, UploadImageInv, RemoveImageInv,
     FindProductInv, SetImageUrlInv, DeleteUploadedFileInv, HandlerFailsInv
<1> QED BY <1>1, <1>2 DEF ProductsNext

\* For every number of products, forms and uploads, and wherever handlers stop, the
\* image of a product is on disk.
THEOREM ImagesTheorem == ProductsSpec => []ImagesExist
<1>1. IInv => ImagesExist
  BY DEF IInv, ImageInv, ImagesExist, Image, Sold
<1> QED BY <1>1, InitInv, NextInv, PTL DEF ProductsSpec
-----------------------------------------------------------------------------
\* The SKUs.  A save that is checked and not yet written still has no rival in
\* the table, as long as no two saves with one SKU have crossed.

CheckedInv ==
    ~rivals => \A f \in Forms :
        request[f].pc = "write" /\ request[f].sku # NoSku =>
            Conflicts(request[f].product, request[f].sku, request[f].new) = {}

SkusInv == SkusUnique /\ CheckedInv

\* Another image or none, and a product less: what was unique stays so.
LEMMA SkusStay ==
    ASSUME IInv, SkusInv, rivals => rivals',
           \A p \in Products : p \in Sold' => p \in Sold /\ product'[p].sku = product[p].sku,
           \A f \in Forms : request'[f].pc = "write" => request'[f] = request[f]
    PROVE  SkusInv'
<1>1. \A p \in Sold' : p \in Products
  BY DEF Sold
<1>2. SkusUnique'
  BY <1>1 DEF SkusInv, SkusUnique
<1>3. CheckedInv'
  BY <1>1 DEF SkusInv, CheckedInv, Conflicts
<1> QED BY <1>2, <1>3 DEF SkusInv

\* A step that writes no product and passes no check.
LEMMA SkusQuiet ==
    ASSUME IInv, SkusInv, NEW f \in Forms, NEW r,
           request' = [request EXCEPT ![f] = r],
           r.pc # "write" \/ r.sku = NoSku,
           UNCHANGED <<product, rivals>>
    PROVE  SkusInv'
<1>1. \A g \in Forms : \/ request'[g] = request[g]
                       \/ request'[g].pc # "write"
                       \/ request'[g].sku = NoSku
  BY DEF IInv, ProductsTypeOK
<1>2. SkusUnique'
  BY DEF SkusInv, SkusUnique, Sold
<1>3. CheckedInv'
  BY <1>1 DEF SkusInv, CheckedInv, Conflicts, Sold
<1> QED BY <1>2, <1>3 DEF SkusInv

LEMMA CheckSkus ==
    ASSUME IInv, SkusInv, NEW f \in Forms, assertSkuUnique(f)
    PROVE  SkusInv'
<1> DEFINE c == request[f]
           next == [c EXCEPT !.pc = "write"]
<1>1. c \in SaveRequest
  BY RequestKinds DEF assertSkuUnique
<1>2. next.product = c.product /\ next.sku = c.sku /\ next.new = c.new
  BY <1>1 DEF SaveRequest
<1>3. UNCHANGED <<product, rivals>>
  BY DEF assertSkuUnique
<1>4. CASE Conflicts(c.product, c.sku, c.new) # {} \/ request' = [request EXCEPT ![f] = NoRequest]
  <2>1. request' = [request EXCEPT ![f] = NoRequest]
    BY <1>4 DEF assertSkuUnique
  <2> QED BY <1>3, <2>1, SkusQuiet DEF NoRequest
<1>5. CASE /\ Conflicts(c.product, c.sku, c.new) = {}
           /\ request' # [request EXCEPT ![f] = NoRequest]
  <2>1. request' = [request EXCEPT ![f] = next]
    BY <1>5 DEF assertSkuUnique
  <2> HIDE DEF next
  <2>2. request'[f] = next /\ \A g \in Forms \ {f} : request'[g] = request[g]
    BY <2>1 DEF IInv, ProductsTypeOK
  <2>3. SkusUnique'
    BY <1>3 DEF SkusInv, SkusUnique, Sold
  <2>4. CheckedInv'
    BY <1>2, <1>3, <1>5, <2>2 DEF SkusInv, CheckedInv, Conflicts, Sold
  <2> QED BY <2>3, <2>4 DEF SkusInv
<1> QED BY <1>4, <1>5

\* The write that crosses no other puts its SKU where no product has it.
LEMMA WriteSkus ==
    ASSUME IInv, SkusInv, NEW f \in Forms, WriteProduct(f)
    PROVE  SkusInv'
<1> DEFINE c == request[f]
<1>1. c \in SaveRequest /\ c.pc = "write" /\ c.product \in Products
  BY RequestKinds, SaveFacts DEF WriteProduct
<1>2. /\ product \in [Products -> Row]
      /\ request'[f] = NoRequest /\ \A g \in Forms \ {f} : request'[g] = request[g]
  BY DEF WriteProduct, IInv, ProductsTypeOK
<1> SUFFICES ASSUME ~rivals'
             PROVE  SkusInv'
  BY DEF SkusInv, SkusUnique, CheckedInv
<1>3. /\ ~rivals
      /\ \A g \in Forms \ {f} : request[g].pc = "write" /\ request[g].sku = c.sku => c.sku = NoSku
  BY DEF WriteProduct, IInv, ProductsTypeOK
<1> DEFINE Lands(p) == /\ c.sku # NoSku => \A q \in Sold \ {p} : product[q].sku # c.sku
                       /\ \A q \in Products \ {p} : product'[q] = product[q]
                       /\ product'[p].sku = c.sku
<1>4. UNCHANGED product \/ \E p \in Products : Lands(p)
  <2>1. c.sku # NoSku => \A q \in Sold \ (IF c.new THEN {} ELSE {c.product}) :
                             product[q].sku # c.sku
    BY <1>1, <1>3 DEF SkusInv, CheckedInv, Conflicts
  <2>2. ASSUME c.new, NEW p \in Products, product[p] = NotYet,
               product' = [product EXCEPT ![p] = [sku |-> c.sku, imageUrl |-> NoImage]]
        PROVE  Lands(p)
    BY <1>2, <2>1, <2>2 DEF Sold
  <2>3. ASSUME ~c.new, product' = [product EXCEPT ![c.product].sku = c.sku]
        PROVE  Lands(c.product)
    BY <1>1, <1>2, <2>1, <2>3 DEF Row
  <2>4. \/ UNCHANGED product
        \/ /\ c.new
           /\ \E p \in Products :
                 /\ product[p] = NotYet
                 /\ product' = [product EXCEPT ![p] = [sku |-> c.sku, imageUrl |-> NoImage]]
        \/ ~c.new /\ product' = [product EXCEPT ![c.product].sku = c.sku]
    BY DEF WriteProduct
  <2> HIDE DEF Lands, c
  <2> QED BY <1>1, <2>2, <2>3, <2>4
<1>5. CASE UNCHANGED product
  <2>1. \A g \in Forms : request'[g].pc = "write" => request'[g] = request[g]
    BY <1>2 DEF NoRequest
  <2> QED BY <1>3, <1>5, <2>1, SkusStay DEF Sold
<1>6. ASSUME NEW p \in Products, Lands(p)
      PROVE  SkusInv'
  <2>1. SkusUnique'
    BY <1>3, <1>6 DEF SkusInv, SkusUnique, Sold
  <2>2. CheckedInv'
    <3> SUFFICES ASSUME NEW g \in Forms, request'[g].pc = "write", request'[g].sku # NoSku,
                        NEW q \in Sold' \ (IF request'[g].new THEN {} ELSE {request'[g].product})
                 PROVE  product'[q].sku # request'[g].sku
      BY DEF CheckedInv, Conflicts
    <3>1. g # f /\ request'[g] = request[g]
      BY <1>2 DEF NoRequest
    <3>2. CASE q = p
      BY <1>3, <1>6, <3>1, <3>2
    <3>3. CASE q # p
      BY <1>3, <1>6, <3>1, <3>3 DEF SkusInv, CheckedInv, Conflicts, Sold
    <3> QED BY <3>2, <3>3
  <2> QED BY <2>1, <2>2 DEF SkusInv
<1> QED BY <1>4, <1>5, <1>6

\* The requests about images leave every SKU where it is.
LEMMA ImageSkus ==
    ASSUME IInv, SkusInv, NEW f \in Forms,
           \/ UploadImage(f) \/ RemoveImage(f) \/ FindProduct(f) \/ SetImageUrl(f)
           \/ DeleteUploadedFile(f) \/ HandlerFails(f)
    PROVE  SkusInv'
<1>1. CASE UploadImage(f)
  BY <1>1, SkusQuiet DEF UploadImage
<1>2. CASE RemoveImage(f)
  BY <1>2, SkusQuiet DEF RemoveImage
<1>3. CASE DeleteUploadedFile(f) \/ HandlerFails(f)
  BY <1>3, SkusQuiet DEF DeleteUploadedFile, HandlerFails, NoRequest
<1>4. CASE FindProduct(f)
  <2>1. request[f] \in ImageRequest
    BY <1>4, RequestKinds DEF FindProduct
  <2> DEFINE found == [request[f] EXCEPT !.pc = "set",
                          !.previous = product[request[f].product].imageUrl]
  <2>2. found.pc = "set" /\ NoRequest.pc = "none"
    BY <2>1 DEF ImageRequest, NoRequest
  <2>3. \/ request' = [request EXCEPT ![f] = NoRequest]
        \/ request' = [request EXCEPT ![f] = found]
    BY <1>4 DEF FindProduct
  <2> HIDE DEF found
  <2> QED BY <1>4, <2>2, <2>3, SkusQuiet DEF FindProduct
<1>5. CASE SetImageUrl(f)
  <2>1. request[f] \in ImageRequest /\ product \in [Products -> Row]
    BY <1>5, RequestKinds DEF SetImageUrl, IInv, ProductsTypeOK
  <2> DEFINE next == [request[f] EXCEPT !.pc = "unlink"]
  <2>2. next.pc = "unlink" /\ NoRequest.pc = "none"
    BY <2>1 DEF ImageRequest, NoRequest
  <2>3. \A g \in Forms : request'[g].pc = "write" => request'[g] = request[g]
    <3>1. \/ request' = [request EXCEPT ![f] = NoRequest]
          \/ request' = [request EXCEPT ![f] = next]
      BY <1>5 DEF SetImageUrl
    <3> HIDE DEF next
    <3> QED BY <2>2, <3>1 DEF IInv, ProductsTypeOK
  <2>4. \A p \in Products : p \in Sold' => p \in Sold /\ product'[p].sku = product[p].sku
    BY <1>5, <2>1 DEF SetImageUrl, Sold, Deleted, Row
  <2> QED BY <1>5, <2>3, <2>4, SkusStay DEF SetImageUrl
<1> QED BY <1>1, <1>2, <1>3, <1>4, <1>5

LEMMA SkusStep ==
    ASSUME IInv, SkusInv, [ProductsNext]_productVars
    PROVE  SkusInv'
<1>1. CASE UNCHANGED productVars
  BY <1>1 DEF productVars, SkusInv, SkusUnique, CheckedInv, Conflicts, Sold
<1>2. ASSUME NEW f \in Forms, SubmitForm(f)
      PROVE  SkusInv'
  BY <1>2, SkusQuiet DEF SubmitForm
<1> QED BY <1>1, <1>2, CheckSkus, WriteSkus, ImageSkus DEF ProductsNext

\* For every number of products and forms: two products have one SKU only when two
\* saves with it were both checked before either was written (create, update).
THEOREM SkusTheorem == ProductsSpec => []SkusUnique
<1>1. ProductsInit => IInv /\ SkusInv
  BY InitInv DEF ProductsInit, SkusInv, SkusUnique, CheckedInv, Sold, NoRequest
<1>2. IInv /\ SkusInv /\ [ProductsNext]_productVars => (IInv /\ SkusInv)'
  BY NextInv, SkusStep
<1>3. SkusInv => SkusUnique
  BY DEF SkusInv
<1> QED BY <1>1, <1>2, <1>3, PTL DEF ProductsSpec

-----------------------------------------------------------------------------
\* The products as their supplier sees them

RowOf(p) == IF Selling(p) THEN <<stock[p]>> ELSE <<>>

PostKinds == {"fetch", "create", "update", "image", "delete"}

OrgIds == Organizations \cup {NoOrg}

Thens == {"nothing", "push", "image", "back", "form", "fetch", "restore"}

PostOf ==
    [kind : PostKinds, id : Offers \cup {"all", NewOffer}, org : OrgIds, state : {"sent", "ok"},
     row : Int, rows : [Offers -> Seq(Int)], then : Thens, missed : SUBSET Offers]

\* The request wrote the product and will show its row; or it is to delete it.
IsWritten(r, p) == r.state = "ok" /\ r.kind \in {"create", "update", "image"} /\ r.id = p
IsLeaving(r, p) == r.kind = "delete" /\ r.state = "sent" /\ r.id = p

\* What an answer brings is what is stored, but for what it missed.
PostOK(r) ==
    /\ r.kind \in {"update", "image", "delete"} => r.id \in Offers
    /\ r.kind = "create" /\ r.state = "ok" => r.id \in Offers
    /\ r.kind = "fetch" => r.then = "nothing"
    /\ r.kind = "delete" <=> r.then \in {"fetch", "restore"}
    /\ r.then = "image" => r.kind = "create"
    /\ \A p \in Offers \ r.missed :
          /\ r.kind = "fetch" /\ r.state = "ok" =>
                r.rows[p] = IF owner[p] = r.org THEN RowOf(p) ELSE <<>>
          /\ IsWritten(r, p) => Selling(p) /\ r.row = stock[p]

GoodPosts == {r \in PostOf : PostOK(r)}

WrittenIn(s, p) == \E i \in DOMAIN s : IsWritten(s[i], p)
LeavesIn(s, p) == \E i \in DOMAIN s : IsLeaving(s[i], p)
FetchOf(s, org) == \E i \in DOMAIN s : s[i].kind = "fetch" /\ s[i].org = org

\* The rows that are shown of a product, given its row, the requests s, the deletion d that
\* waits and the organization of the list.  It is deleted by one at a time, from this list,
\* and not shown meanwhile; what is shown, or comes back if it is not deleted, is its row,
\* unless an answer will still change that.
Held(s, p, rows, row, d, org) ==
    /\ Len(rows) <= 1
    /\ LeavesIn(s, p) \/ d.id = p => rows = <<>>
    /\ d.id = p => ~LeavesIn(s, p)
    /\ \A i, j \in DOMAIN s : IsLeaving(s[i], p) /\ IsLeaving(s[j], p) => i = j
    /\ \A i \in DOMAIN s : IsLeaving(s[i], p) /\ s[i].then = "fetch" => s[i].org = org
    /\ ~WrittenIn(s, p) =>
          /\ ~LeavesIn(s, p) /\ d.id # p => rows = row
          /\ d.id = p => <<d.row>> = row
          /\ \A i \in DOMAIN s : IsLeaving(s[i], p) /\ s[i].then = "restore" => <<s[i].row>> = row

\* A product of another organization is not shown, and nothing can show it.
InPlace(s, p, rows, d) ==
    IF owner[p] = screen.org THEN Held(s, p, rows, RowOf(p), d, screen.org)
    ELSE rows = <<>> /\ d.id # p

CatalogueTypes ==
    /\ stock \in [Offers -> Int] /\ shelf \in [Offers -> Seq(Int)]
    /\ screen \in Screens
    /\ pendingDelete = NoDelete \/ pendingDelete \in [id : Offers, row : Int]
    /\ outdated \subseteq Offers /\ posts \in Seq(GoodPosts)

\* While the list is fetched again, nothing depends on what is shown.
CatalogueInv ==
    /\ CatalogueTypes
    /\ screen.at = "list" /\ ~FetchOf(posts, screen.org) =>
          \A p \in Offers \ outdated : InPlace(posts, p, shelf[p], pendingDelete)

LEMMA ScreensOK ==
    /\ Away \in Screens /\ Away.at = "away"
    /\ \A o \in OrgIds : ListOf(o) \in Screens /\ ListOf(o).at = "list" /\ ListOf(o).org = o
    /\ \A o \in OrgIds, p \in Offers \cup {NewOffer} :
          FormOf(o, p) \in Screens /\ FormOf(o, p).at = "form"
    /\ \A v \in Screens : v.org \in OrgIds /\ v.offer \in Offers \cup {NewOffer}
<1>1. /\ Away \in Screens /\ Away.at = "away" /\ Away.org \in OrgIds /\ Away.offer = NewOffer
  BY DEF Screens, Away, OrgIds
<1>2. ASSUME NEW o \in OrgIds
      PROVE  /\ ListOf(o) \in Screens /\ ListOf(o).at = "list" /\ ListOf(o).org = o
             /\ ListOf(o).offer = NewOffer
  <2>1. ListOf(o) \in Screens
    BY DEF Screens, OrgIds
  <2> QED BY <2>1 DEF ListOf
<1>3. ASSUME NEW o \in OrgIds, NEW p \in Offers \cup {NewOffer}
      PROVE  /\ FormOf(o, p) \in Screens /\ FormOf(o, p).at = "form"
             /\ FormOf(o, p).org = o /\ FormOf(o, p).offer = p
  <2>1. FormOf(o, p) \in Screens
    BY DEF Screens, OrgIds
  <2> QED BY <2>1 DEF FormOf
<1>4. ASSUME NEW v \in Screens
      PROVE  v.org \in OrgIds /\ v.offer \in Offers \cup {NewOffer}
  <2>1. \/ v = Away \/ \E o \in OrgIds : v = ListOf(o)
        \/ \E o \in OrgIds, p \in Offers \cup {NewOffer} : v = FormOf(o, p)
    BY DEF Screens, OrgIds
  <2> QED BY <1>1, <1>2, <1>3, <2>1
<1> QED BY <1>1, <1>2, <1>3, <1>4

LEMMA InitCatalogueInv == CatalogueInit => CatalogueInv
<1> SUFFICES ASSUME CatalogueInit
             PROVE  CatalogueInv
  OBVIOUS
<1>1. <<>> \in Seq(Int) /\ <<>> \in Seq(GoodPosts)
  BY EmptySeq
<1>2. screen \in Screens /\ screen.at # "list"
  BY ScreensOK DEF CatalogueInit
<1>3. CatalogueTypes
  BY <1>1, <1>2 DEF CatalogueInit, CatalogueTypes, Empty, NoOffer
<1> QED BY <1>2, <1>3 DEF CatalogueInv

\* Nothing of what the requests hold of a product has changed.
LEMMA HeldSame ==
    ASSUME NEW s, NEW t, NEW p, NEW rows, NEW row, NEW d, NEW org, Held(s, p, rows, row, d, org),
           DOMAIN t = DOMAIN s,
           \A j \in DOMAIN s : /\ IsWritten(t[j], p) <=> IsWritten(s[j], p)
                               /\ IsLeaving(t[j], p) <=> IsLeaving(s[j], p)
                               /\ t[j].row = s[j].row \/ ~IsLeaving(s[j], p)
                               /\ t[j].then = s[j].then /\ t[j].org = s[j].org
    PROVE  Held(t, p, rows, row, d, org)
<1>1. LeavesIn(t, p) <=> LeavesIn(s, p)
  BY DEF LeavesIn
<1>2. WrittenIn(t, p) <=> WrittenIn(s, p)
  BY DEF WrittenIn
<1> QED BY <1>1, <1>2 DEF Held

\* A request more that deletes nothing of the product and has not written it.
LEMMA HeldMore ==
    ASSUME NEW S, NEW s \in Seq(S), NEW p, NEW rows, NEW row, NEW d, NEW org,
           Held(s, p, rows, row, d, org),
           NEW r \in S, ~IsLeaving(r, p), ~IsWritten(r, p)
    PROVE  Held(Append(s, r), p, rows, row, d, org)
<1> DEFINE t == Append(s, r)
<1>1. /\ DOMAIN s \subseteq DOMAIN t /\ \A j \in DOMAIN s : t[j] = s[j]
      /\ \A j \in DOMAIN t \ DOMAIN s : t[j] = r
  BY OneMore
<1> HIDE DEF t
<1>2. LeavesIn(t, p) <=> LeavesIn(s, p)
  BY <1>1 DEF LeavesIn
<1>3. WrittenIn(t, p) <=> WrittenIn(s, p)
  BY <1>1 DEF WrittenIn
<1>4. \A j \in DOMAIN t : IsLeaving(t[j], p) => j \in DOMAIN s /\ t[j] = s[j]
  BY <1>1
<1>5. Held(t, p, rows, row, d, org)
  BY <1>2, <1>3, <1>4 DEF Held
<1> QED BY <1>5 DEF t

\* The deletion that waited is sent.
LEMMA HeldFlushed ==
    ASSUME NEW S, NEW s \in Seq(S), NEW p, NEW rows, NEW row, NEW d, NEW org,
           Held(s, p, rows, row, d, org),
           NEW r \in S, ~IsWritten(r, p), r.id = d.id, r.then = "restore" => r.row = d.row,
           r.then = "fetch" => r.org = org,
           NEW e, e.id # p, IsLeaving(r, d.id)
    PROVE  Held(Append(s, r), p, rows, row, e, org)
<1> DEFINE t == Append(s, r)
<1>1. CASE d.id # p
  <2>1. Held(s, p, rows, row, e, org)
    BY <1>1 DEF Held
  <2>2. ~IsLeaving(r, p)
    BY <1>1 DEF IsLeaving
  <2> QED BY <2>1, <2>2, HeldMore
<1>2. CASE d.id = p
  <2>1. /\ DOMAIN s \subseteq DOMAIN t /\ \A j \in DOMAIN s : t[j] = s[j]
        /\ \A j \in DOMAIN t \ DOMAIN s : t[j] = r /\ j = Len(s) + 1
        /\ Len(s) + 1 \in DOMAIN t /\ t[Len(s) + 1] = r
    BY OneMore
  <2> HIDE DEF t
  <2>2. LeavesIn(t, p) /\ rows = <<>> /\ ~LeavesIn(s, p)
    BY <1>2, <2>1 DEF LeavesIn, Held
  <2>3. WrittenIn(t, p) <=> WrittenIn(s, p)
    BY <2>1 DEF WrittenIn
  <2>4. \A j \in DOMAIN t : IsLeaving(t[j], p) => j = Len(s) + 1 /\ t[j] = r
    BY <2>1, <2>2 DEF LeavesIn
  <2>5. Held(t, p, rows, row, e, org)
    BY <1>2, <2>2, <2>3, <2>4 DEF Held
  <2> QED BY <2>5 DEF t
<1> QED BY <1>1, <1>2

\* A request less: what the product was waiting for is still there.
LEMMA HeldLess ==
    ASSUME NEW S, NEW s \in Seq(S), NEW p, NEW rows, NEW row, NEW d, NEW org,
           Held(s, p, rows, row, d, org),
           NEW k \in DOMAIN s, ~IsLeaving(s[k], p), ~IsWritten(s[k], p)
    PROVE  Held(RemoveAt(s, k), p, rows, row, d, org)
<1> DEFINE t == RemoveAt(s, k)
           old(j) == IF j < k THEN j ELSE j + 1
<1>1. /\ \A j \in DOMAIN t : old(j) \in DOMAIN s /\ t[j] = s[old(j)]
      /\ \A i \in DOMAIN s \ {k} : \E j \in DOMAIN t : t[j] = s[i]
      /\ DOMAIN t \subseteq Nat /\ k \in Nat
  BY OneLess
<1>2. \A i, j \in DOMAIN t : old(i) = old(j) => i = j
  BY <1>1
<1> HIDE DEF t, old
<1>3. LeavesIn(t, p) <=> LeavesIn(s, p)
  BY <1>1 DEF LeavesIn
<1>4. WrittenIn(t, p) <=> WrittenIn(s, p)
  BY <1>1 DEF WrittenIn
<1>5. \A i, j \in DOMAIN t : IsLeaving(t[i], p) /\ IsLeaving(t[j], p) => i = j
  BY <1>1, <1>2 DEF Held
<1>6. \A i \in DOMAIN t : IsLeaving(t[i], p) => \E j \in DOMAIN s : t[i] = s[j]
  BY <1>1
<1>7. Held(t, p, rows, row, d, org)
  BY <1>3, <1>4, <1>5, <1>6 DEF Held
<1> QED BY <1>7 DEF t

\* Without the one that deletes the product, nothing does.
LEMMA LeavesLess ==
    ASSUME NEW S, NEW s \in Seq(S), NEW p, NEW k \in DOMAIN s,
           \A i \in DOMAIN s : IsLeaving(s[i], p) => i = k
    PROVE  ~LeavesIn(RemoveAt(s, k), p)
BY OneLess DEF LeavesIn

\* What a step adds to the requests that are left: the fetch that makes all the rest
\* unimportant, a request that deletes nothing, or the deletion that waited.
Onwarded(rest) ==
    \/ screen'.at = "list" => FetchOf(posts', screen'.org)
    \/ /\ screen' = screen
       /\ \/ posts' = rest /\ pendingDelete' = pendingDelete
          \/ /\ pendingDelete' = pendingDelete
             /\ \E r \in GoodPosts : /\ r.state = "sent" /\ r.kind # "delete"
                                     /\ posts' = Append(rest, r)
          \/ /\ pendingDelete # NoDelete /\ pendingDelete'.id \notin Offers
             /\ \E r \in GoodPosts : /\ IsLeaving(r, pendingDelete.id) /\ posts' = Append(rest, r)
                                     /\ r.then = "restore" /\ r.row = pendingDelete.row

LEMMA HeldOnward ==
    ASSUME NEW rest \in Seq(GoodPosts), Onwarded(rest), NEW p \in Offers,
           screen'.at = "list", ~FetchOf(posts', screen'.org),
           NEW rows, InPlace(rest, p, rows, pendingDelete)
    PROVE  InPlace(posts', p, rows, pendingDelete')
<1> DEFINE row == RowOf(p)
           org == screen.org
<1>1. CASE posts' = rest /\ pendingDelete' = pendingDelete
  BY <1>1
<1>2. ASSUME pendingDelete' = pendingDelete, NEW r \in GoodPosts,
             r.state = "sent", r.kind # "delete", posts' = Append(rest, r)
      PROVE  InPlace(posts', p, rows, pendingDelete')
  <2>1. ~IsLeaving(r, p) /\ ~IsWritten(r, p)
    BY <1>2 DEF IsLeaving, IsWritten
  <2>2. Held(rest, p, rows, row, pendingDelete, org) =>
           Held(posts', p, rows, row, pendingDelete, org)
    BY <1>2, <2>1, HeldMore
  <2> QED BY <1>2, <2>2 DEF InPlace
<1>3. ASSUME pendingDelete'.id \notin Offers, NEW r \in GoodPosts,
             IsLeaving(r, pendingDelete.id), posts' = Append(rest, r),
             r.then = "restore", r.row = pendingDelete.row
      PROVE  InPlace(posts', p, rows, pendingDelete')
  <2>1. ~IsWritten(r, p) /\ r.id = pendingDelete.id /\ pendingDelete'.id # p
    BY <1>3 DEF IsLeaving, IsWritten
  <2>2. Held(rest, p, rows, row, pendingDelete, org) =>
           Held(posts', p, rows, row, pendingDelete', org)
    BY <1>3, <2>1, HeldFlushed
  <2> QED BY <2>1, <2>2 DEF InPlace
<1> QED BY <1>1, <1>2, <1>3 DEF Onwarded

LEMMA SentOK ==
    ASSUME NEW kind \in PostKinds, NEW id \in Offers \cup {"all", NewOffer}, NEW org \in OrgIds,
           NEW row \in Int, NEW then \in Thens,
           kind \in {"update", "image", "delete"} => id \in Offers,
           kind = "fetch" => then = "nothing",
           kind = "delete" <=> then \in {"fetch", "restore"},
           then = "image" => kind = "create"
    PROVE  LET r == Post(kind, id, org, row, then)
           IN  /\ r \in GoodPosts /\ r.kind = kind /\ r.id = id /\ r.org = org
               /\ r.state = "sent" /\ r.row = row /\ r.then = then
<1>1. Empty \in [Offers -> Seq(Int)]
  BY EmptySeq DEF Empty
<1> QED BY <1>1 DEF Post, GoodPosts, PostOf, PostOK, IsWritten

\* The requests that are added at the end of a list.
LEMMA PostsAdded ==
    ASSUME NEW rest \in Seq(GoodPosts)
    PROVE  /\ \A r \in GoodPosts : Posts(rest, <<r>>) =>
                 posts' = Append(rest, r) /\ posts' \in Seq(GoodPosts)
           /\ \A o \in OrgIds : Posts(rest, fetchByOrg(o)) =>
                 /\ FetchOf(posts', o) /\ posts' \in Seq(GoodPosts)
                 /\ \E r \in GoodPosts : /\ r.state = "sent" /\ r.kind # "delete"
                                         /\ posts' = Append(rest, r)
           /\ Posts(rest, <<>>) => posts' = rest
<1>1. ASSUME NEW r \in GoodPosts, Posts(rest, <<r>>)
      PROVE  posts' = Append(rest, r) /\ posts' \in Seq(GoodPosts)
  <2>1. posts' = rest \o <<r>>
    BY <1>1 DEF Posts
  <2>2. rest \o <<r>> = Append(rest, r)
    BY AppendIsConcat
  <2> QED BY <2>1, <2>2, AppendProperties
<1>2. ASSUME NEW o \in OrgIds, Posts(rest, fetchByOrg(o))
      PROVE  /\ FetchOf(posts', o) /\ posts' \in Seq(GoodPosts)
             /\ \E r \in GoodPosts : /\ r.state = "sent" /\ r.kind # "delete"
                                     /\ posts' = Append(rest, r)
  <2> DEFINE r == Post("fetch", "all", o, NoOffer, "nothing")
  <2>1. r \in GoodPosts /\ r.kind = "fetch" /\ r.org = o /\ r.state = "sent"
    BY SentOK DEF PostKinds, NoOffer, Thens
  <2>2. Posts(rest, <<r>>)
    BY <1>2 DEF fetchByOrg
  <2> HIDE DEF r
  <2>3. posts' = Append(rest, r) /\ posts' \in Seq(GoodPosts)
    BY <1>1, <2>1, <2>2
  <2>4. FetchOf(posts', o)
    BY <2>1, <2>3, OneMore DEF FetchOf
  <2> QED BY <2>1, <2>3, <2>4
<1>3. ASSUME Posts(rest, <<>>)
      PROVE  posts' = rest
  BY <1>3, ConcatEmptySeq DEF Posts
<1> QED BY <1>1, <1>2, <1>3

LEMMA SameRows ==
    ASSUME UNCHANGED <<owner, stock>>
    PROVE  /\ GoodPosts' = GoodPosts /\ \A p \in Offers : RowOf(p)' = RowOf(p)
           /\ screen' = screen =>
                 \A p \in Offers : \A s, rows, d : InPlace(s, p, rows, d)' <=> InPlace(s, p, rows, d)
<1>1. \A p : RowOf(p)' = RowOf(p) /\ (Selling(p)' <=> Selling(p))
  BY DEF RowOf, Selling
<1>2. \A r : PostOK(r)' <=> PostOK(r)
  BY <1>1 DEF PostOK
<1>3. PostOf' = PostOf
  OBVIOUS
<1>4. GoodPosts' = GoodPosts
  BY <1>2, <1>3 DEF GoodPosts
<1> QED BY <1>1, <1>4 DEF InPlace

\* A deletion that waits is sent with its id.
LEMMA FlushOK ==
    ASSUME CatalogueTypes, pendingDelete # NoDelete, NEW row \in Int,
           NEW then \in {"fetch", "restore"}
    PROVE  LET r == Post("delete", pendingDelete.id, screen.org, row, then)
           IN  /\ r \in GoodPosts /\ IsLeaving(r, pendingDelete.id) /\ r.row = row /\ r.then = then
               /\ r.org = screen.org /\ pendingDelete.id \in Offers /\ pendingDelete.row \in Int
<1>1. pendingDelete.id \in Offers /\ pendingDelete.row \in Int /\ screen.org \in OrgIds
  BY ScreensOK DEF CatalogueTypes
<1>2. pendingDelete.id \in Offers \cup {"all", NewOffer} /\ "delete" \in PostKinds /\ then \in Thens
  BY <1>1 DEF PostKinds, Thens
<1> QED BY <1>1, <1>2, SentOK DEF IsLeaving

LEMMA UnawaitedOK ==
    ASSUME NEW rest \in Seq(GoodPosts)
    PROVE  Unawaited(rest) \in Seq(GoodPosts)
<1> DEFINE t(r) == IF r.then = "form" THEN [r EXCEPT !.then = "nothing"] ELSE r
<1>1. ASSUME NEW r \in GoodPosts
      PROVE  t(r) \in GoodPosts
  <2>1. CASE r.then # "form"
    BY <2>1
  <2>2. CASE r.then = "form"
    <3> DEFINE e == [r EXCEPT !.then = "nothing"]
    <3>1. r \in PostOf /\ PostOK(r)
      BY DEF GoodPosts
    <3>2. /\ e \in PostOf /\ e.kind = r.kind /\ e.id = r.id /\ e.org = r.org /\ e.state = r.state
          /\ e.row = r.row /\ e.rows = r.rows /\ e.then = "nothing" /\ e.missed = r.missed
      BY <3>1 DEF PostOf, Thens
    <3> HIDE DEF e
    <3>3. PostOK(e)
      BY <2>2, <3>1, <3>2 DEF PostOK, IsWritten
    <3>4. e \in GoodPosts
      BY <3>2, <3>3 DEF GoodPosts
    <3> QED BY <2>2, <3>4 DEF e
  <2> QED BY <2>1, <2>2
<1>2. /\ Len(rest) \in Nat /\ DOMAIN rest = 1..Len(rest)
      /\ \A i \in 1..Len(rest) : rest[i] \in GoodPosts
  BY ElementOfSeq, LenProperties
<1>3. Unawaited(rest) = [i \in 1..Len(rest) |-> t(rest[i])]
  BY <1>2 DEF Unawaited
<1> HIDE DEF t
<1> QED BY <1>1, <1>2, <1>3, IsASeq

LEMMA GoToResult ==
    ASSUME CatalogueTypes, NEW rest \in Seq(GoodPosts), NEW to \in Screens, NEW spinning, NEW wrong,
           GoTo(to, rest, spinning, wrong)
    PROVE  /\ posts' \in Seq(GoodPosts) /\ Onwarded(rest) /\ screen' \in Screens
           /\ pendingDelete' \in {pendingDelete, NoDelete}
<1> DEFINE opens == to.at = "list" /\ screen.at # "list"
           leaves == screen.at = "list" /\ to.at # "list"
           flushed == IF leaves THEN flushPendingDelete ELSE <<>>
           kept == IF screen.at = "form" THEN Unawaited(rest) ELSE rest
<1>1. /\ screen' = IF to.at = screen.at THEN screen ELSE to
      /\ Posts(kept, IF opens THEN fetchByOrg(to.org) ELSE flushed)
      /\ pendingDelete' = IF leaves THEN NoDelete ELSE pendingDelete
  BY DEF GoTo
<1>2. screen \in Screens /\ screen' \in Screens /\ to.org \in OrgIds /\ NoOffer \in Int
  BY <1>1, ScreensOK DEF CatalogueTypes, NoOffer
<1>3. kept \in Seq(GoodPosts)
  BY UnawaitedOK
<1> HIDE DEF kept
<1>4. CASE opens
  <2>1. FetchOf(posts', to.org) /\ posts' \in Seq(GoodPosts)
    BY <1>1, <1>2, <1>3, <1>4, PostsAdded
  <2> QED BY <1>1, <1>2, <1>4, <2>1 DEF Onwarded
<1>5. CASE ~opens /\ ~leaves
  <2>1. posts' = kept
    BY <1>1, <1>3, <1>5, PostsAdded
  <2>2. CASE screen.at = "list"
    BY <1>1, <1>2, <1>3, <1>5, <2>1, <2>2 DEF Onwarded, kept
  <2>3. CASE screen.at # "list"
    BY <1>1, <1>2, <1>3, <1>5, <2>1, <2>3 DEF Onwarded
  <2> QED BY <2>2, <2>3
<1>6. CASE leaves
  <2> DEFINE r == Post("delete", pendingDelete.id, screen.org, NoOffer, "fetch")
  <2>1. screen'.at # "list" /\ Posts(kept, flushPendingDelete)
    BY <1>1, <1>6
  <2>2. posts' \in Seq(GoodPosts)
    <3>1. CASE pendingDelete = NoDelete
      <4>1. Posts(kept, <<>>)
        BY <2>1, <3>1 DEF flushPendingDelete
      <4> QED BY <1>3, <4>1, PostsAdded
    <3>2. CASE pendingDelete # NoDelete
      <4>1. r \in GoodPosts
        BY <1>2, <3>2, FlushOK
      <4>2. Posts(kept, <<r>>)
        BY <2>1, <3>2 DEF flushPendingDelete
      <4> QED BY <1>3, <4>1, <4>2, PostsAdded
    <3> QED BY <3>1, <3>2
  <2> QED BY <1>1, <1>2, <2>1, <2>2 DEF Onwarded
<1> QED BY <1>4, <1>5, <1>6

\* The steps of the user that leave the table and what is shown as they are.
LEMMA OnwardStep ==
    ASSUME CatalogueInv, UNCHANGED <<owner, stock, shelf, outdated>>,
           posts' \in Seq(GoodPosts), Onwarded(posts), screen' \in Screens,
           pendingDelete' \in {pendingDelete, NoDelete}
    PROVE  CatalogueInv'
<1>1. CatalogueTypes'
  BY SameRows DEF CatalogueInv, CatalogueTypes
<1>2. ASSUME screen'.at = "list", ~FetchOf(posts', screen'.org), NEW p \in Offers \ outdated
      PROVE  screen' = screen /\ InPlace(posts', p, shelf[p], pendingDelete')
  <2>1. screen' = screen /\ ~FetchOf(posts, screen.org) /\ posts \in Seq(GoodPosts)
    <3>1. posts \in Seq(GoodPosts)
      BY DEF CatalogueInv, CatalogueTypes
    <3>2. \A r \in GoodPosts : \A i \in DOMAIN posts : /\ i \in DOMAIN Append(posts, r)
                                                       /\ Append(posts, r)[i] = posts[i]
      BY <3>1, OneMore
    <3> QED BY <1>2, <3>1, <3>2 DEF Onwarded, FetchOf
  <2>2. InPlace(posts, p, shelf[p], pendingDelete)
    BY <1>2, <2>1 DEF CatalogueInv
  <2> QED BY <1>2, <2>1, <2>2, HeldOnward
<1> QED BY <1>1, <1>2, SameRows DEF CatalogueInv

LEMMA SupplierStep ==
    ASSUME CatalogueInv,
           Navigate \/ FetchShelf \/ DeleteTimer \/ handleSubmit \/ ChangeImage
    PROVE  CatalogueInv'
<1>1. /\ CatalogueTypes /\ posts \in Seq(GoodPosts) /\ screen \in Screens
      /\ screen.org \in OrgIds /\ NoOffer \in Int
  BY ScreensOK DEF CatalogueInv, CatalogueTypes, NoOffer
<1>2. CASE Navigate
  <2>1. /\ UNCHANGED <<owner, stock, shelf, outdated>>
        /\ \E to \in Screens : GoTo(to, posts, spins, fault)
    <3>1. UNCHANGED <<owner, stock, shelf, outdated>>
      BY <1>2 DEF Navigate
    <3>2. Onwards \subseteq Screens
      BY <1>1, ScreensOK DEF Onwards, OrgIds
    <3>3. \A p \in Offers : FormOf(screen.org, p) \in Screens
      BY <1>1, ScreensOK
    <3> QED BY <1>2, <3>1, <3>2, <3>3 DEF Navigate
  <2> QED BY <1>1, <2>1, GoToResult, OnwardStep
<1>3. CASE FetchShelf
  <2>1. /\ UNCHANGED <<owner, stock, shelf, outdated, screen, pendingDelete>>
        /\ Posts(posts, fetchByOrg(screen.org))
    BY <1>3 DEF FetchShelf
  <2>2. FetchOf(posts', screen.org) /\ posts' \in Seq(GoodPosts)
    BY <1>1, <2>1, PostsAdded
  <2> QED BY <1>1, <2>1, <2>2, OnwardStep DEF Onwarded
<1>4. CASE DeleteTimer
  <2> DEFINE r == Post("delete", pendingDelete.id, screen.org, pendingDelete.row, "restore")
  <2>1. /\ UNCHANGED <<owner, stock, shelf, outdated, screen>> /\ Posts(posts, <<r>>)
        /\ pendingDelete # NoDelete /\ pendingDelete' = NoDelete
    BY <1>4 DEF DeleteTimer
  <2>2. pendingDelete.row \in Int
    BY <2>1 DEF CatalogueInv, CatalogueTypes
  <2>3. /\ r \in GoodPosts /\ IsLeaving(r, pendingDelete.id) /\ r.row = pendingDelete.row
        /\ r.then = "restore"
    BY <1>1, <2>1, <2>2, FlushOK
  <2> HIDE DEF r
  <2>4. posts' = Append(posts, r) /\ posts' \in Seq(GoodPosts)
    BY <1>1, <2>1, <2>3, PostsAdded
  <2>5. Onwarded(posts)
    BY <2>1, <2>3, <2>4, OffersAssumption DEF Onwarded
  <2> QED BY <1>1, <2>1, <2>4, <2>5, OnwardStep
<1>5. CASE handleSubmit
  <2>1. UNCHANGED <<owner, stock, shelf, outdated, screen, pendingDelete>>
    BY <1>5 DEF handleSubmit
  <2>2. PICK image \in BOOLEAN :
           Posts(posts, <<IF screen.offer = NewOffer
                THEN Post("create", NewOffer, screen.org, NoOffer, IF image THEN "image" ELSE "push")
                ELSE Post("update", screen.offer, screen.org, NoOffer, "back")>>)
    BY <1>5 DEF handleSubmit
  <2>3. \E r \in GoodPosts : r.state = "sent" /\ r.kind # "delete" /\ Posts(posts, <<r>>)
    <3>1. CASE screen.offer = NewOffer
      <4>1. "create" \in PostKinds /\ NewOffer \in Offers \cup {"all", NewOffer}
        BY DEF PostKinds
      <4>2. CASE image
        <5>1. LET c == Post("create", NewOffer, screen.org, NoOffer, "image")
              IN  c \in GoodPosts /\ c.state = "sent" /\ c.kind = "create"
          <6>1. "image" \in Thens /\ screen.org \in OrgIds /\ NoOffer \in Int
            BY <1>1 DEF Thens
          <6> QED BY <4>1, <6>1, SentOK
        <5> QED BY <2>2, <3>1, <4>2, <5>1
      <4>3. CASE ~image
        <5>1. LET c == Post("create", NewOffer, screen.org, NoOffer, "push")
              IN  c \in GoodPosts /\ c.state = "sent" /\ c.kind = "create"
          <6>1. "push" \in Thens /\ screen.org \in OrgIds /\ NoOffer \in Int
            BY <1>1 DEF Thens
          <6> QED BY <4>1, <6>1, SentOK
        <5> QED BY <2>2, <3>1, <4>3, <5>1
      <4> QED BY <4>2, <4>3
    <3>2. CASE screen.offer # NewOffer
      <4>1. screen.offer \in Offers /\ "update" \in PostKinds
        BY <1>1, <3>2, ScreensOK DEF PostKinds
      <4>2. LET r == Post("update", screen.offer, screen.org, NoOffer, "back")
            IN  r \in GoodPosts /\ r.state = "sent" /\ r.kind = "update"
        BY <1>1, <4>1, SentOK DEF Thens
      <4> QED BY <2>2, <3>2, <4>2
    <3> QED BY <3>1, <3>2
  <2>4. posts' \in Seq(GoodPosts) /\ Onwarded(posts)
    BY <1>1, <2>1, <2>3, PostsAdded DEF Onwarded
  <2> QED BY <1>1, <2>1, <2>4, OnwardStep
<1>6. CASE ChangeImage
  <2> DEFINE r == Post("image", screen.offer, screen.org, NoOffer, "form")
  <2>1. /\ UNCHANGED <<owner, stock, shelf, outdated, screen, pendingDelete>>
        /\ screen.offer # NewOffer /\ Posts(posts, <<r>>)
    BY <1>6 DEF ChangeImage
  <2>2. screen.offer \in Offers
    BY <1>1, <2>1, ScreensOK
  <2>3. r \in GoodPosts /\ r.state = "sent" /\ r.kind = "image"
    BY <1>1, <2>2, SentOK DEF PostKinds, Thens
  <2> HIDE DEF r
  <2>4. posts' \in Seq(GoodPosts) /\ Onwarded(posts)
    BY <1>1, <2>1, <2>3, PostsAdded DEF Onwarded
  <2> QED BY <1>1, <2>1, <2>4, OnwardStep
<1> QED BY <1>2, <1>3, <1>4, <1>5, <1>6

\* A row comes back.
LEMMA RestoredOK ==
    ASSUME CatalogueTypes, NEW p \in Offers, NEW row \in Int, shelf' \in Restored(p, row)
    PROVE  /\ shelf' \in [Offers -> Seq(Int)]
           /\ \A q \in Offers \ {p} : shelf'[q] = shelf[q]
           /\ shelf[p] = <<>> => shelf'[p] = <<row>>
<1>1. shelf \in [Offers -> Seq(Int)] /\ shelf[p] \in Seq(Int) /\ <<row>> \in Seq(Int)
      /\ <<>> \in Seq(Int)
  BY EmptySeq DEF CatalogueTypes
<1>2. <<row>> \o shelf[p] \in Seq(Int) /\ Append(shelf[p], row) \in Seq(Int)
  BY <1>1, ConcatProperties, AppendProperties
<1>3. <<row>> \o <<>> = <<row>> /\ Append(<<>>, row) = <<row>>
  <2>1. <<row>> \o <<>> = <<row>>
    BY <1>1, ConcatEmptySeq
  <2>2. Append(<<>>, row) = <<>> \o <<row>>
    BY <1>1, AppendIsConcat
  <2>3. <<>> \o <<row>> = <<row>>
    BY <1>1, ConcatEmptySeq
  <2> QED BY <2>1, <2>2, <2>3
<1>4. PICK rows \in {<<row>> \o shelf[p], Append(shelf[p], row)} : shelf' = [shelf EXCEPT ![p] = rows]
  BY DEF Restored
<1>5. rows \in Seq(Int) /\ (shelf[p] = <<>> => rows = <<row>>)
  BY <1>2, <1>3, <1>4
<1> QED BY <1>1, <1>4, <1>5

LEMMA UndoDeleteStep == CatalogueInv /\ UndoDelete => CatalogueInv'
<1> SUFFICES ASSUME CatalogueInv, UndoDelete
             PROVE  CatalogueInv'
  OBVIOUS
<1> DEFINE d == pendingDelete.id
<1>1. /\ UNCHANGED <<owner, stock, screen, posts, outdated>> /\ pendingDelete # NoDelete
      /\ pendingDelete' = NoDelete /\ shelf' \in Restored(d, pendingDelete.row)
  BY DEF UndoDelete
<1>2. d \in Offers /\ pendingDelete.row \in Int
  BY <1>1 DEF CatalogueInv, CatalogueTypes
<1>3. /\ shelf' \in [Offers -> Seq(Int)] /\ \A q \in Offers \ {d} : shelf'[q] = shelf[q]
      /\ shelf[d] = <<>> => shelf'[d] = <<pendingDelete.row>>
  BY <1>1, <1>2, RestoredOK DEF CatalogueInv
<1>4. CatalogueTypes'
  BY <1>1, <1>3, SameRows DEF CatalogueInv, CatalogueTypes
<1>5. ASSUME screen.at = "list", ~FetchOf(posts, screen.org), NEW p \in Offers \ outdated
      PROVE  InPlace(posts, p, shelf'[p], NoDelete)
  <2>1. InPlace(posts, p, shelf[p], pendingDelete) /\ NoDelete.id # p
    BY <1>5, OffersAssumption DEF CatalogueInv
  <2>2. CASE p # d
    BY <1>3, <2>1, <2>2 DEF InPlace, Held
  <2>3. CASE p = d
    <3>1. owner[p] = screen.org /\ Held(posts, p, shelf[p], RowOf(p), pendingDelete, screen.org)
      BY <2>1, <2>3 DEF InPlace
    <3>2. shelf'[p] = <<pendingDelete.row>> /\ ~LeavesIn(posts, p) /\ Len(shelf'[p]) <= 1
      <4>1. shelf[p] = <<>> /\ ~LeavesIn(posts, p)
        BY <2>3, <3>1 DEF Held
      <4>2. shelf'[p] = <<pendingDelete.row>>
        BY <1>3, <2>3, <4>1
      <4>3. Len(<<pendingDelete.row>>) = 1
        OBVIOUS
      <4> QED BY <4>1, <4>2, <4>3
    <3>3. ~WrittenIn(posts, p) => <<pendingDelete.row>> = RowOf(p)
      BY <2>3, <3>1 DEF Held
    <3>4. \A i \in DOMAIN posts : ~IsLeaving(posts[i], p)
      BY <3>2 DEF LeavesIn
    <3>5. Held(posts, p, shelf'[p], RowOf(p), NoDelete, screen.org)
      BY <2>1, <3>2, <3>3, <3>4 DEF Held
    <3> QED BY <3>1, <3>5 DEF InPlace
  <2> QED BY <2>2, <2>3
<1> QED BY <1>1, <1>4, <1>5, SameRows DEF CatalogueInv

LEMMA HandleDeleteStep ==
    ASSUME CatalogueInv, NEW p \in Offers, handleDelete(p)
    PROVE  CatalogueInv'
<1> DEFINE r == Post("delete", pendingDelete.id, screen.org, NoOffer, "fetch")
           e == [id |-> p, row |-> shelf[p][1]]
<1>1. /\ UNCHANGED <<owner, stock, screen, outdated>> /\ shelf[p] # <<>>
      /\ Posts(posts, flushPendingDelete) /\ pendingDelete' = e
      /\ shelf' = [shelf EXCEPT ![p] = Tail(@)]
  BY DEF handleDelete, OnShelf
<1>2. /\ CatalogueTypes /\ posts \in Seq(GoodPosts) /\ shelf \in [Offers -> Seq(Int)]
      /\ shelf[p] \in Seq(Int) /\ NoOffer \in Int
  BY DEF CatalogueInv, CatalogueTypes, NoOffer
<1>3. Tail(shelf[p]) \in Seq(Int) /\ shelf[p][1] \in Int
  <2>1. Len(shelf[p]) \in Nat \ {0}
    BY <1>1, <1>2, EmptySeq
  <2>2. 1 \in 1..Len(shelf[p])
    BY <2>1
  <2> QED BY <1>1, <1>2, <2>2, HeadTailProperties, ElementOfSeq
<1>4. /\ shelf' \in [Offers -> Seq(Int)] /\ shelf'[p] = Tail(shelf[p])
      /\ \A q \in Offers \ {p} : shelf'[q] = shelf[q]
      /\ e \in [id : Offers, row : Int]
  BY <1>1, <1>2, <1>3
<1>5. \/ posts' = posts /\ pendingDelete = NoDelete
      \/ /\ pendingDelete # NoDelete /\ r \in GoodPosts /\ IsLeaving(r, pendingDelete.id)
         /\ r.then = "fetch" /\ r.org = screen.org /\ posts' = Append(posts, r)
  <2>1. CASE pendingDelete = NoDelete
    <3>1. Posts(posts, <<>>)
      BY <1>1, <2>1 DEF flushPendingDelete
    <3> QED BY <1>2, <2>1, <3>1, PostsAdded
  <2>2. CASE pendingDelete # NoDelete
    <3>1. r \in GoodPosts /\ IsLeaving(r, pendingDelete.id) /\ r.then = "fetch" /\ r.org = screen.org
      BY <1>2, <2>2, FlushOK
    <3>2. Posts(posts, <<r>>)
      BY <1>1, <2>2 DEF flushPendingDelete
    <3> QED BY <1>2, <2>2, <3>1, <3>2, PostsAdded
  <2> QED BY <2>1, <2>2
<1> HIDE DEF r
<1>6. /\ posts' \in Seq(GoodPosts)
      /\ \A i \in DOMAIN posts : i \in DOMAIN posts' /\ posts'[i] = posts[i]
  <2>1. CASE posts' = posts
    BY <1>2, <2>1
  <2>2. CASE posts' = Append(posts, r) /\ r \in GoodPosts
    BY <1>2, <2>2, OneMore
  <2> QED BY <1>5, <2>1, <2>2
<1>7. CatalogueTypes'
  BY <1>1, <1>2, <1>4, <1>6, SameRows DEF CatalogueTypes
<1>8. ASSUME screen.at = "list", ~FetchOf(posts', screen.org), NEW q \in Offers \ outdated
      PROVE  InPlace(posts', q, shelf'[q], e)
  <2> DEFINE org == screen.org
             row == RowOf(q)
  <2>1. InPlace(posts, q, shelf[q], pendingDelete)
    BY <1>6, <1>8 DEF FetchOf, CatalogueInv
  <2>2. CASE owner[q] # screen.org
    <3>1. q # p
      BY <1>1, <2>1, <2>2 DEF InPlace
    <3> QED BY <1>4, <2>1, <2>2, <3>1 DEF InPlace
  <2>3. CASE owner[q] = screen.org /\ q # p
    <3>1. Held(posts, q, shelf[q], row, pendingDelete, org)
      BY <2>1, <2>3 DEF InPlace
    <3>2. Held(posts', q, shelf'[q], row, e, org)
      <4>1. CASE posts' = posts /\ pendingDelete = NoDelete
        BY <1>4, <2>3, <3>1, <4>1, OffersAssumption DEF Held
      <4>2. CASE posts' # posts
        <5>1. /\ r \in GoodPosts /\ ~IsWritten(r, q) /\ r.id = pendingDelete.id
              /\ IsLeaving(r, pendingDelete.id) /\ r.then # "restore" /\ e.id # q
              /\ r.org = org
          BY <1>5, <2>3, <4>2 DEF IsWritten, IsLeaving
        <5>2. Held(Append(posts, r), q, shelf[q], row, e, org)
          BY <1>2, <3>1, <5>1, HeldFlushed
        <5> QED BY <1>4, <1>5, <2>3, <4>2, <5>2
      <4> QED BY <1>5, <4>1, <4>2
    <3> QED BY <2>3, <3>2 DEF InPlace
  <2>4. CASE owner[q] = screen.org /\ q = p
    <3>1. Held(posts, p, shelf[p], row, pendingDelete, org)
      BY <2>1, <2>4 DEF InPlace
    <3>2. ~LeavesIn(posts, p) /\ pendingDelete.id # p /\ Len(shelf[p]) <= 1
      BY <1>1, <3>1 DEF Held
    <3>3. shelf[p] = <<shelf[p][1]>> /\ shelf'[p] = <<>>
      <4>1. shelf[p] = <<shelf[p][1]>> /\ Tail(shelf[p]) = <<>>
        BY <1>1, <1>2, <3>2, OneRow
      <4> QED BY <1>4, <4>1
    <3>4. \A i \in DOMAIN posts' : ~IsLeaving(posts'[i], p)
      <4>1. CASE posts' = posts
        BY <3>2, <4>1 DEF LeavesIn
      <4>2. CASE posts' = Append(posts, r) /\ r \in GoodPosts /\ IsLeaving(r, pendingDelete.id)
        <5>1. ~IsLeaving(r, p)
          BY <3>2, <4>2 DEF IsLeaving
        <5> QED BY <1>2, <3>2, <4>2, <5>1, OneMore DEF LeavesIn
      <4> QED BY <1>5, <4>1, <4>2
    <3>5. ~WrittenIn(posts', p) => shelf[p] = row
      BY <1>6, <3>1, <3>2 DEF Held, WrittenIn
    <3>6. Len(<<>>) <= 1 /\ e.id = p /\ e.row = shelf[p][1]
      BY EmptySeq
    <3>7. Held(posts', q, shelf'[q], row, e, org)
      BY <2>4, <3>3, <3>4, <3>5, <3>6 DEF Held, LeavesIn
    <3> QED BY <2>4, <3>7 DEF InPlace
  <2> QED BY <2>2, <2>3, <2>4
<1> QED BY <1>1, <1>7, <1>8, SameRows DEF CatalogueInv

\* What follows an answer to anything but a fetch, or a failure.
LEMMA GoOnResult ==
    ASSUME CatalogueTypes, NEW k \in DOMAIN posts, NEW ok \in BOOLEAN, GoOn(k, ok),
           ok => posts[k].state = "ok"
    PROVE  /\ posts' \in Seq(GoodPosts) /\ Onwarded(RemoveAt(posts, k)) /\ screen' \in Screens
           /\ pendingDelete' \in {pendingDelete, NoDelete}
           /\ posts[k].kind = "fetch" =>
                 posts' = RemoveAt(posts, k) /\ UNCHANGED <<screen, pendingDelete>>
           /\ posts[k].then = "fetch" /\ ~ok => FetchOf(posts', posts[k].org)
<1> DEFINE r == posts[k]
           rest == RemoveAt(posts, k)
           spinning == spins /\ r.kind \notin {"fetch", "create", "update"}
           stays == UNCHANGED <<screen, pendingDelete>>
<1>1. /\ posts \in Seq(GoodPosts) /\ r \in GoodPosts /\ rest \in Seq(GoodPosts)
      /\ screen \in Screens /\ screen.org \in OrgIds
  <2>1. posts \in Seq(GoodPosts)
    BY DEF CatalogueTypes
  <2>2. r \in GoodPosts
    BY <2>1, ElementOfSeq, LenProperties
  <2> QED BY <2>1, <2>2, OneLess, ScreensOK DEF CatalogueTypes
<1>2. PostOK(r) /\ r \in PostOf /\ r.org \in OrgIds
  BY <1>1 DEF GoodPosts, PostOf
<1>3. r.kind = "fetch" => r.then = "nothing"
  BY <1>2 DEF PostOK
<1>4. CASE r.then = "back" /\ ok
  <2>1. PICK to \in Backwards : GoTo(to, rest, spinning, fault)
    BY <1>4 DEF GoOn
  <2>2. Backwards \subseteq Screens
    BY <1>1, ScreensOK DEF Backwards, Onwards, OrgIds
  <2>3. to \in Screens
    BY <2>2
  <2> HIDE DEF spinning, rest
  <2>4. /\ posts' \in Seq(GoodPosts) /\ Onwarded(rest) /\ screen' \in Screens
        /\ pendingDelete' \in {pendingDelete, NoDelete}
    BY <1>1, <2>1, <2>3, GoToResult
  <2> QED BY <1>3, <1>4, <2>4 DEF rest
<1>5. CASE r.then = "push" /\ (ok \/ r.kind = "image")
  <2>1. GoTo(Made, rest, spinning, ~ok \/ fault)
    BY <1>5 DEF GoOn
  <2>2. Made \in Screens
    BY <1>1, ScreensOK DEF Made, OrgIds
  <2> HIDE DEF spinning, rest
  <2>3. /\ posts' \in Seq(GoodPosts) /\ Onwarded(rest) /\ screen' \in Screens
        /\ pendingDelete' \in {pendingDelete, NoDelete}
    BY <1>1, <2>1, <2>2, GoToResult
  <2> QED BY <1>3, <1>5, <2>3 DEF rest
<1>6. CASE r.then = "image" /\ ok
  <2> DEFINE e == Post("image", r.id, r.org, NoOffer, "push")
  <2>1. Posts(rest, <<e>>) /\ stays
    BY <1>6 DEF GoOn
  <2>2. r.id \in Offers
    BY <1>2, <1>6 DEF PostOK
  <2>3. e \in GoodPosts /\ e.state = "sent" /\ e.kind = "image"
    BY <1>2, <2>2, SentOK DEF PostKinds, NoOffer, Thens
  <2> HIDE DEF e
  <2>4. posts' = Append(rest, e) /\ posts' \in Seq(GoodPosts)
    BY <1>1, <2>1, <2>3, PostsAdded
  <2>5. Onwarded(rest)
    BY <2>1, <2>3, <2>4 DEF Onwarded
  <2> QED BY <1>1, <1>3, <1>6, <2>1, <2>4, <2>5
<1>7. CASE r.then = "fetch" /\ ~ok
  <2>1. Posts(rest, fetchByOrg(r.org)) /\ stays
    BY <1>7 DEF GoOn
  <2>2. /\ FetchOf(posts', r.org) /\ posts' \in Seq(GoodPosts)
        /\ \E e \in GoodPosts : e.state = "sent" /\ e.kind # "delete" /\ posts' = Append(rest, e)
    BY <1>1, <1>2, <2>1, PostsAdded
  <2>3. Onwarded(rest)
    BY <2>1, <2>2 DEF Onwarded
  <2> QED BY <1>1, <1>3, <1>7, <2>1, <2>2, <2>3
<1>8. CASE /\ ~(r.then = "back" /\ ok) /\ ~(r.then = "push" /\ (ok \/ r.kind = "image"))
           /\ ~(r.then = "image" /\ ok) /\ ~(r.then = "fetch" /\ ~ok)
  <2>1. posts' = rest /\ stays
    BY <1>8 DEF GoOn
  <2> QED BY <1>1, <1>8, <2>1 DEF Onwarded
<1> QED BY <1>4, <1>5, <1>6, <1>7, <1>8

LEMMA NoFetchLeft ==
    ASSUME CatalogueTypes, NEW k \in DOMAIN posts,
           posts[k].kind # "fetch" \/ posts[k].org # screen.org,
           Onwarded(RemoveAt(posts, k)), screen'.at = "list", ~FetchOf(posts', screen'.org)
    PROVE  screen' = screen /\ ~FetchOf(posts, screen.org)
<1> DEFINE rest == RemoveAt(posts, k)
<1>1. /\ rest \in Seq(GoodPosts)
      /\ \A i \in DOMAIN posts \ {k} : \E j \in DOMAIN rest : rest[j] = posts[i]
  <2>1. posts \in Seq(GoodPosts)
    BY DEF CatalogueTypes
  <2>2. rest \in Seq(GoodPosts)
    BY <2>1, OneLess
  <2> QED BY <2>1, <2>2, KeptByRemoval
<1> HIDE DEF rest
<1>2. \A r \in GoodPosts : \A j \in DOMAIN rest : /\ j \in DOMAIN Append(rest, r)
                                                  /\ Append(rest, r)[j] = rest[j]
  BY <1>1, OneMore
<1>3. screen' = screen /\ \A j \in DOMAIN rest : j \in DOMAIN posts' /\ posts'[j] = rest[j]
  BY <1>2 DEF Onwarded, rest
<1> QED BY <1>1, <1>3 DEF FetchOf

LEMMA RowOfOK ==
    ASSUME CatalogueTypes, NEW p \in Offers
    PROVE  RowOf(p) \in Seq(Int) /\ Len(RowOf(p)) <= 1
<1>1. stock[p] \in Int
  BY DEF CatalogueTypes
<1>2. <<>> \in Seq(Int) /\ Len(<<>>) = 0 /\ <<stock[p]>> \in Seq(Int) /\ Len(<<stock[p]>>) = 1
  BY <1>1, EmptySeq
<1> QED BY <1>2 DEF RowOf

\* Once nothing deletes the product, what is shown may be its row.
LEMMA HeldAsRow ==
    ASSUME CatalogueTypes, NEW p \in Offers, NEW s, ~LeavesIn(s, p), pendingDelete.id # p, NEW org
    PROVE  Held(s, p, RowOf(p), RowOf(p), pendingDelete, org)
BY RowOfOK DEF Held, LeavesIn

LEMMA PostAnsweredStep ==
    ASSUME CatalogueInv, NEW k \in DOMAIN posts, PostAnswered(k)
    PROVE  CatalogueInv'
<1> DEFINE r == posts[k]
           rest == RemoveAt(posts, k)
           q == r.id
           ours == {p \in Offers : owner[p] = screen.org}
           sent == {j \in DOMAIN posts : posts[j].kind = "delete" /\ posts[j].state = "sent"}
           leaving == ({pendingDelete.id} \cap Offers) \cup ({posts[j].id : j \in sent} \cap ours)
<1>1. /\ UNCHANGED <<owner, stock>> /\ r.state = "ok" /\ GoOn(k, TRUE) /\ outdated' = Outdated(k)
      /\ shelf' = CASE r.kind = "fetch" -> r.rows
                    [] r.kind = "create" -> [shelf EXCEPT ![q] = Append(@, r.row)]
                    [] r.kind \in {"update", "image"} /\ OnShelf(q) -> [shelf EXCEPT ![q][1] = r.row]
                    [] OTHER -> shelf
  BY DEF PostAnswered
<1>2. /\ CatalogueTypes /\ posts \in Seq(GoodPosts) /\ r \in GoodPosts /\ rest \in Seq(GoodPosts)
      /\ shelf \in [Offers -> Seq(Int)]
  <2>1. posts \in Seq(GoodPosts) /\ CatalogueTypes
    BY DEF CatalogueInv, CatalogueTypes
  <2>2. r \in GoodPosts
    BY <2>1, ElementOfSeq, LenProperties
  <2> QED BY <2>1, <2>2, OneLess DEF CatalogueTypes
<1>3. /\ PostOK(r) /\ r.kind \in PostKinds /\ r.row \in Int /\ r.rows \in [Offers -> Seq(Int)]
      /\ r.missed \subseteq Offers
  BY <1>2 DEF GoodPosts, PostOf
<1>4. /\ posts' \in Seq(GoodPosts) /\ Onwarded(rest)
      /\ screen' \in Screens /\ pendingDelete' \in {pendingDelete, NoDelete}
      /\ r.kind = "fetch" => posts' = rest /\ UNCHANGED <<screen, pendingDelete>>
  BY <1>1, <1>2, GoOnResult
<1>5. leaving \subseteq Offers /\ ours \subseteq Offers
  OBVIOUS
<1>6. /\ \A p \in Offers \ leaving : pendingDelete.id # p
      /\ \A p \in ours \ leaving : ~LeavesIn(posts, p) /\ ~LeavesIn(rest, p)
  <2>1. \A p \in ours \ leaving : ~LeavesIn(posts, p)
    BY DEF LeavesIn, IsLeaving
  <2>2. \A j \in DOMAIN rest : \E i \in DOMAIN posts : rest[j] = posts[i]
    BY <1>2, OneLess
  <2> QED BY <2>1, <2>2 DEF LeavesIn
<1>7. outdated' = CASE r.kind = "fetch" ->
                          IF r.org = screen.org THEN r.missed \cup leaving ELSE Offers
                    [] r.kind \in {"update", "image"} ->
                          outdated \cup r.missed \cup ({q} \cap IF OnShelf(q) THEN {} ELSE ours)
                    [] r.kind = "create" ->
                          outdated \cup r.missed \cup
                            ({q} \cap IF OnShelf(q) THEN Offers ELSE leaving \cup (Offers \ ours))
                    [] OTHER -> outdated
  BY <1>1 DEF Outdated
<1> HIDE DEF leaving, sent
<1>8. CASE r.kind = "fetch"
  <2>1. /\ shelf' = r.rows /\ screen' = screen /\ pendingDelete' = pendingDelete
        /\ outdated' = IF r.org = screen.org THEN r.missed \cup leaving ELSE Offers
    BY <1>1, <1>4, <1>7, <1>8
  <2>2. CatalogueTypes'
    BY <1>1, <1>2, <1>3, <1>4, <1>5, <2>1, SameRows DEF CatalogueTypes
  <2>3. ASSUME NEW p \in Offers \ outdated'
        PROVE  InPlace(posts', p, shelf'[p], pendingDelete')
    <3>1. /\ p \notin leaving /\ pendingDelete.id # p
          /\ shelf'[p] = IF owner[p] = screen.org THEN RowOf(p) ELSE <<>>
      BY <1>1, <1>3, <1>6, <1>8, <2>1, <2>3 DEF PostOK
    <3>2. CASE owner[p] # screen.org
      BY <2>1, <3>1, <3>2 DEF InPlace
    <3>3. CASE owner[p] = screen.org
      <4>1. ~LeavesIn(rest, p)
        BY <1>6, <3>1, <3>3
      <4>2. Held(rest, p, RowOf(p), RowOf(p), pendingDelete, screen.org)
        BY <1>2, <3>1, <4>1, HeldAsRow
      <4> QED BY <1>4, <1>8, <2>1, <3>1, <3>3, <4>2 DEF InPlace
    <3> QED BY <3>2, <3>3
  <2> QED BY <1>1, <2>1, <2>2, <2>3, SameRows DEF CatalogueInv
<1>9. CASE r.kind # "fetch"
  <2>1. q \in Offers
    BY <1>1, <1>3, <1>9 DEF PostOK, PostKinds
  <2>2. /\ outdated \subseteq outdated' /\ outdated' \subseteq Offers
        /\ r.kind \in {"update", "image", "create"} /\ q \notin outdated' =>
              Selling(q) /\ r.row = stock[q]
    <3>1. outdated \subseteq outdated' /\ outdated' \subseteq Offers
      BY <1>2, <1>3, <1>5, <1>7, <1>9, <2>1 DEF CatalogueTypes, PostKinds
    <3>2. ASSUME r.kind = "update" \/ r.kind = "image" \/ r.kind = "create", q \notin outdated'
          PROVE  Selling(q) /\ r.row = stock[q]
      <4>1. q \notin r.missed
        BY <1>7, <3>2
      <4>2. IsWritten(r, q)
        BY <1>1, <3>2 DEF IsWritten
      <4> QED BY <1>3, <2>1, <4>1, <4>2 DEF PostOK
    <3> QED BY <3>1, <3>2
  <2>3. /\ shelf' \in [Offers -> Seq(Int)]
        /\ \A p \in Offers \ {q} : shelf'[p] = shelf[p]
    <3>1. shelf[q] \in Seq(Int)
      BY <1>2, <2>1
    <3>2. Append(shelf[q], r.row) \in Seq(Int)
      BY <1>3, <3>1, AppendProperties
    <3>3. OnShelf(q) => [shelf[q] EXCEPT ![1] = r.row] \in Seq(Int)
      <4> SUFFICES ASSUME OnShelf(q)
                   PROVE  [shelf[q] EXCEPT ![1] = r.row] \in Seq(Int)
        OBVIOUS
      <4>1. Len(shelf[q]) \in Nat \ {0}
        BY <3>1, EmptySeq DEF OnShelf
      <4>2. 1 \in 1..Len(shelf[q])
        BY <4>1
      <4> QED BY <1>3, <3>1, <4>2, ExceptSeq
    <3>4. CASE r.kind = "create"
      <4>1. shelf' = [shelf EXCEPT ![q] = Append(shelf[q], r.row)]
        BY <1>1, <3>4
      <4> QED BY <1>2, <2>1, <3>2, <4>1
    <3>5. CASE r.kind \in {"update", "image"} /\ OnShelf(q)
      <4>1. shelf' = [shelf EXCEPT ![q] = [shelf[q] EXCEPT ![1] = r.row]]
        BY <1>1, <1>2, <2>1, <3>5
      <4> QED BY <1>2, <2>1, <3>3, <3>5, <4>1
    <3>6. CASE r.kind # "create" /\ ~(r.kind \in {"update", "image"} /\ OnShelf(q))
      <4>1. shelf' = shelf
        BY <1>1, <1>9, <3>6
      <4> QED BY <1>2, <4>1
    <3> QED BY <3>4, <3>5, <3>6
  <2>4. CatalogueTypes'
    BY <1>1, <1>2, <1>4, <2>2, <2>3, SameRows DEF CatalogueTypes
  <2>5. ASSUME screen'.at = "list", ~FetchOf(posts', screen'.org), NEW p \in Offers \ outdated'
        PROVE  screen' = screen /\ InPlace(posts', p, shelf'[p], pendingDelete')
    <3>1. screen' = screen /\ ~FetchOf(posts, screen.org) /\ p \in Offers \ outdated
      BY <1>2, <1>4, <1>9, <2>2, <2>5, NoFetchLeft
    <3>2. InPlace(posts, p, shelf[p], pendingDelete)
      BY <2>5, <3>1 DEF CatalogueInv
    <3>3. ~IsLeaving(r, p)
      BY <1>1 DEF IsLeaving
    <3>4. InPlace(rest, p, shelf'[p], pendingDelete)
      <4>1. CASE owner[p] # screen.org
        <5>1. shelf[p] = <<>> /\ pendingDelete.id # p
          BY <3>2, <4>1 DEF InPlace
        <5>2. shelf'[p] = shelf[p]
          <6>1. CASE p # q
            BY <2>3, <6>1
          <6>2. CASE p = q
            <7>1. r.kind # "create" /\ ~OnShelf(q)
              BY <1>7, <2>5, <4>1, <5>1, <6>2 DEF OnShelf
            <7> QED BY <1>1, <1>9, <7>1
          <6> QED BY <6>1, <6>2
        <5> QED BY <4>1, <5>1, <5>2 DEF InPlace
      <4>2. CASE owner[p] = screen.org
        <5>1. Held(posts, p, shelf[p], RowOf(p), pendingDelete, screen.org)
          BY <3>2, <4>2 DEF InPlace
        <5>2. Held(rest, p, shelf'[p], RowOf(p), pendingDelete, screen.org)
          <6>1. CASE ~IsWritten(r, p)
            <7>1. shelf'[p] = shelf[p]
              <8>1. CASE p # q
                BY <2>3, <8>1
              <8>2. CASE p = q
                <9>1. r.kind \notin {"create", "update", "image"}
                  BY <1>1, <6>1, <8>2 DEF IsWritten
                <9> QED BY <1>1, <1>9, <9>1
              <8> QED BY <8>1, <8>2
            <7>2. Held(rest, p, shelf[p], RowOf(p), pendingDelete, screen.org)
              BY <1>2, <5>1, <3>3, <6>1, HeldLess
            <7> QED BY <7>1, <7>2
          <6>2. CASE IsWritten(r, p)
            <7>1. p = q /\ r.kind \in {"create", "update", "image"} /\ q \in ours
              BY <2>1, <4>2, <6>2 DEF IsWritten
            <7>2. RowOf(p) = <<r.row>>
              BY <2>2, <2>5, <7>1 DEF RowOf
            <7>3. shelf'[p] = <<r.row>> /\ pendingDelete.id # p /\ ~LeavesIn(rest, p)
              <8>1. CASE r.kind = "create"
                <9>1. ~OnShelf(q) /\ q \notin leaving
                  BY <1>7, <2>1, <2>5, <7>1, <8>1
                <9>2. shelf'[p] = Append(<<>>, r.row)
                  BY <1>1, <1>2, <2>1, <7>1, <8>1, <9>1 DEF OnShelf
                <9>3. Append(<<>>, r.row) = <<r.row>>
                  <10>1. <<>> \in Seq(Int) /\ <<r.row>> \in Seq(Int)
                    BY <1>3, EmptySeq
                  <10> QED BY <1>3, <10>1, AppendIsConcat, ConcatEmptySeq
                <9> QED BY <1>6, <2>1, <7>1, <9>1, <9>2, <9>3
              <8>2. CASE r.kind \in {"update", "image"}
                <9>1. OnShelf(q)
                  BY <1>7, <2>1, <2>5, <7>1, <8>2
                <9>2. shelf[q] # <<>> /\ shelf[q] \in Seq(Int) /\ Len(shelf[q]) <= 1
                  BY <1>2, <2>1, <5>1, <7>1, <9>1 DEF OnShelf, Held
                <9>3. PICK x \in Int : shelf[q] = <<x>>
                  BY <9>2, OneRow
                <9>4. shelf'[q] = [<<x>> EXCEPT ![1] = r.row]
                  BY <1>1, <1>2, <2>1, <8>2, <9>1, <9>3
                <9>5. [<<x>> EXCEPT ![1] = r.row] = <<r.row>>
                  OBVIOUS
                <9>6. ~LeavesIn(posts, p) /\ pendingDelete.id # p
                  BY <5>1, <7>1, <9>2 DEF Held
                <9>7. ~LeavesIn(rest, p)
                  <10>1. \A j \in DOMAIN rest : \E i \in DOMAIN posts : rest[j] = posts[i]
                    BY <1>2, OneLess
                  <10> QED BY <9>6, <10>1 DEF LeavesIn
                <9> QED BY <7>1, <9>4, <9>5, <9>6, <9>7
              <8> QED BY <7>1, <8>1, <8>2
            <7> QED BY <1>2, <7>2, <7>3, HeldAsRow
          <6> QED BY <6>1, <6>2
        <5> QED BY <4>2, <5>2 DEF InPlace
      <4> QED BY <4>1, <4>2
    <3>5. InPlace(posts', p, shelf'[p], pendingDelete')
      BY <1>2, <1>4, <2>5, <3>4, HeldOnward
    <3> QED BY <3>1, <3>5
  <2> QED BY <1>1, <2>4, <2>5, SameRows DEF CatalogueInv
<1> QED BY <1>8, <1>9

LEMMA PostFailsStep ==
    ASSUME CatalogueInv, NEW k \in DOMAIN posts, PostFails(k)
    PROVE  CatalogueInv'
<1> DEFINE r == posts[k]
           rest == RemoveAt(posts, k)
           q == r.id
           astray == r.then = "restore" /\ owner[q] # screen.org
<1>1. /\ UNCHANGED <<owner, stock>> /\ GoOn(k, FALSE)
      /\ shelf' \in IF r.then = "restore" THEN Restored(q, r.row) ELSE {shelf}
      /\ outdated' = outdated \cup CASE r.kind = "fetch" /\ r.org = screen.org -> Offers
                                     [] r.kind # "fetch" /\ (r.state = "ok" \/ astray) -> {q}
                                     [] OTHER -> {}
  BY DEF PostFails
<1>2. /\ CatalogueTypes /\ posts \in Seq(GoodPosts) /\ r \in GoodPosts /\ rest \in Seq(GoodPosts)
      /\ shelf \in [Offers -> Seq(Int)] /\ outdated \subseteq Offers
  <2>1. posts \in Seq(GoodPosts) /\ CatalogueTypes
    BY DEF CatalogueInv, CatalogueTypes
  <2>2. r \in GoodPosts
    BY <2>1, ElementOfSeq, LenProperties
  <2> QED BY <2>1, <2>2, OneLess DEF CatalogueTypes
<1>3. PostOK(r) /\ r.kind \in PostKinds /\ r.row \in Int /\ r.state \in {"sent", "ok"}
  BY <1>2 DEF GoodPosts, PostOf
<1>4. /\ posts' \in Seq(GoodPosts) /\ Onwarded(rest)
      /\ screen' \in Screens /\ pendingDelete' \in {pendingDelete, NoDelete}
      /\ r.then = "fetch" => FetchOf(posts', r.org)
  BY <1>1, <1>2, GoOnResult
<1>5. r.then = "restore" => q \in Offers /\ r.kind = "delete"
  BY <1>3 DEF PostOK
<1>6. /\ shelf' \in [Offers -> Seq(Int)]
      /\ \A p \in Offers \ {q} : shelf'[p] = shelf[p]
      /\ r.then # "restore" => shelf' = shelf
      /\ r.then = "restore" /\ shelf[q] = <<>> => shelf'[q] = <<r.row>>
  <2>1. CASE r.then = "restore"
    BY <1>1, <1>2, <1>3, <1>5, <2>1, RestoredOK
  <2>2. CASE r.then # "restore"
    BY <1>1, <1>2, <2>2
  <2> QED BY <2>1, <2>2
<1>7. outdated' \subseteq Offers
  <2>1. r.kind # "fetch" /\ (r.state = "ok" \/ astray) => q \in Offers
    BY <1>3, <1>5 DEF PostOK, PostKinds
  <2> QED BY <1>1, <1>2, <2>1
<1>8. CatalogueTypes'
  BY <1>1, <1>2, <1>4, <1>6, <1>7, SameRows DEF CatalogueTypes
<1>9. ASSUME screen'.at = "list", ~FetchOf(posts', screen'.org), NEW p \in Offers \ outdated'
      PROVE  screen' = screen /\ InPlace(posts', p, shelf'[p], pendingDelete')
  <2>1. /\ r.kind # "fetch" \/ r.org # screen.org
        /\ p \in Offers \ outdated
        /\ q = p => r.kind = "fetch" \/ (r.state # "ok" /\ ~astray)
    BY <1>1, <1>9
  <2>2. screen' = screen /\ ~FetchOf(posts, screen.org)
    BY <1>2, <1>4, <1>9, <2>1, NoFetchLeft
  <2>3. InPlace(posts, p, shelf[p], pendingDelete)
    BY <1>9, <2>1, <2>2 DEF CatalogueInv
  <2>4. ~IsWritten(r, p)
    BY <2>1 DEF IsWritten
  <2>5. CASE owner[p] # screen.org
    <3>1. shelf[p] = <<>> /\ pendingDelete.id # p
      BY <2>3, <2>5 DEF InPlace
    <3>2. shelf'[p] = shelf[p]
      BY <1>5, <1>6, <2>1, <2>5
    <3>3. InPlace(rest, p, shelf'[p], pendingDelete)
      BY <2>5, <3>1, <3>2 DEF InPlace
    <3> QED BY <1>2, <1>4, <1>9, <2>2, <3>3, HeldOnward
  <2>6. CASE owner[p] = screen.org
    <3> DEFINE org == screen.org
               row == RowOf(p)
    <3>1. Held(posts, p, shelf[p], row, pendingDelete, org)
      BY <2>3, <2>6 DEF InPlace
    <3>2. IsLeaving(r, p) => r.then # "fetch"
      BY <1>4, <1>9, <2>2, <3>1 DEF Held
    <3>3. Held(rest, p, shelf'[p], row, pendingDelete, org)
      <4>1. CASE ~IsLeaving(r, p)
        <5>1. shelf'[p] = shelf[p]
          <6>1. p = q => r.then # "restore"
            BY <1>3, <1>5, <2>1, <4>1 DEF IsLeaving
          <6> QED BY <1>6, <6>1
        <5> QED BY <1>2, <3>1, <2>4, <4>1, <5>1, HeldLess
      <4>2. CASE IsLeaving(r, p)
        <5>1. q = p /\ r.kind = "delete" /\ r.then = "restore"
          BY <1>3, <3>2, <4>2 DEF IsLeaving, PostOK
        <5>2. LeavesIn(posts, p)
          BY <4>2 DEF LeavesIn
        <5>3. shelf'[p] = <<r.row>> /\ pendingDelete.id # p
          BY <1>6, <3>1, <5>1, <5>2 DEF Held
        <5>4. \A i \in DOMAIN posts : IsLeaving(posts[i], p) => i = k
          BY <3>1, <4>2 DEF Held
        <5>5. ~LeavesIn(rest, p)
          BY <1>2, <5>4, LeavesLess
        <5>6. WrittenIn(rest, p) <=> WrittenIn(posts, p)
          <6>1. \A j \in DOMAIN rest : \E i \in DOMAIN posts : rest[j] = posts[i]
            BY <1>2, OneLess
          <6>2. \A i \in DOMAIN posts \ {k} : \E j \in DOMAIN rest : rest[j] = posts[i]
            BY <1>2, KeptByRemoval
          <6> HIDE DEF rest, r
          <6>3. ~IsWritten(posts[k], p)
            BY <2>4 DEF r
          <6> QED BY <6>1, <6>2, <6>3 DEF WrittenIn
        <5>7. ~WrittenIn(posts, p) => <<r.row>> = row
          BY <3>1, <4>2, <5>1 DEF Held
        <5>8. Len(<<r.row>>) = 1
          OBVIOUS
        <5>9. \A j \in DOMAIN rest : ~IsLeaving(rest[j], p)
          BY <5>5 DEF LeavesIn
        <5> QED BY <5>3, <5>5, <5>6, <5>7, <5>8, <5>9 DEF Held
      <4> QED BY <4>1, <4>2
    <3>4. InPlace(rest, p, shelf'[p], pendingDelete)
      BY <2>6, <3>3 DEF InPlace
    <3> QED BY <1>2, <1>4, <1>9, <2>2, <3>4, HeldOnward
  <2> QED BY <2>5, <2>6
<1> QED BY <1>1, <1>8, <1>9, SameRows DEF CatalogueInv

\* The server.
LEMMA ReadOffersStep ==
    ASSUME CatalogueInv, NEW k \in DOMAIN posts, ReadOffers(k)
    PROVE  CatalogueInv'
<1> DEFINE all == OffersOf(posts[k].org)
           e == [posts[k] EXCEPT !.state = "ok", !.rows = all]
<1>1. /\ UNCHANGED <<owner, stock, screen, shelf, pendingDelete, outdated>>
      /\ posts[k].kind = "fetch"
      /\ posts' = [posts EXCEPT ![k].state = "ok", ![k].rows = all]
  BY DEF ReadOffers
<1>2. /\ CatalogueTypes /\ posts \in Seq(GoodPosts) /\ posts[k] \in GoodPosts
  BY ElementOfSeq, LenProperties DEF CatalogueInv, CatalogueTypes
<1>3. /\ all \in [Offers -> Seq(Int)]
      /\ \A p \in Offers : all[p] = IF owner[p] = posts[k].org THEN RowOf(p) ELSE <<>>
  <2>1. \A p \in Offers : all[p] = IF owner[p] = posts[k].org THEN RowOf(p) ELSE <<>>
    BY DEF OffersOf, RowOf
  <2>2. all = [p \in Offers |-> all[p]] /\ <<>> \in Seq(Int)
    BY EmptySeq DEF OffersOf
  <2>3. \A p \in Offers : all[p] \in Seq(Int)
    BY <1>2, <2>1, <2>2, RowOfOK
  <2> QED BY <2>1, <2>2, <2>3
<1> HIDE DEF all
<1>4. /\ e \in PostOf /\ e.kind = "fetch" /\ e.rows = all /\ e.then = posts[k].then
      /\ e.state = "ok" /\ e.id = posts[k].id /\ e.missed = posts[k].missed
      /\ e.org = posts[k].org
  BY <1>1, <1>2, <1>3 DEF GoodPosts, PostOf
<1>5. e \in GoodPosts
  BY <1>1, <1>2, <1>3, <1>4 DEF GoodPosts, PostOK, IsWritten
<1>6. posts' = [posts EXCEPT ![k] = e]
  BY <1>1
<1> HIDE DEF e
<1>7. /\ posts' \in Seq(GoodPosts) /\ DOMAIN posts' = DOMAIN posts /\ posts'[k] = e
      /\ \A j \in DOMAIN posts \ {k} : posts'[j] = posts[j]
  BY <1>2, <1>5, <1>6, ExceptSeq, LenProperties
<1>8. CatalogueTypes'
  BY <1>1, <1>2, <1>7, SameRows DEF CatalogueTypes
<1>9. ASSUME screen.at = "list", ~FetchOf(posts', screen.org), NEW p \in Offers \ outdated
      PROVE  InPlace(posts', p, shelf[p], pendingDelete)
  <2>1. ~FetchOf(posts, screen.org)
    BY <1>1, <1>4, <1>7, <1>9 DEF FetchOf
  <2>2. InPlace(posts, p, shelf[p], pendingDelete)
    BY <1>9, <2>1 DEF CatalogueInv
  <2>3. \A j \in DOMAIN posts : /\ IsWritten(posts'[j], p) <=> IsWritten(posts[j], p)
                                /\ IsLeaving(posts'[j], p) <=> IsLeaving(posts[j], p)
                                /\ posts'[j].row = posts[j].row \/ ~IsLeaving(posts[j], p)
                                /\ posts'[j].then = posts[j].then /\ posts'[j].org = posts[j].org
    BY <1>1, <1>4, <1>7 DEF IsWritten, IsLeaving
  <2> QED BY <1>7, <2>2, <2>3, HeldSame DEF InPlace
<1> QED BY <1>1, <1>8, <1>9, SameRows DEF CatalogueInv

LEMMA WriteOfferStep ==
    ASSUME CatalogueInv, NEW k \in DOMAIN posts, WriteOffer(k)
    PROVE  CatalogueInv'
<1> DEFINE r == posts[k]
           told(p, j) == IF j # k /\ posts[j].state = "ok" /\ About(posts[j], p)
                         THEN [posts[j] EXCEPT !.missed = @ \cup {p}] ELSE posts[j]
           informed(p) == [j \in DOMAIN posts |-> told(p, j)]
<1>1. /\ UNCHANGED <<owner, screen, shelf, pendingDelete, outdated>>
      /\ r.kind # "fetch" /\ r.state = "sent"
  BY DEF WriteOffer
<1>2. PICK p \in Offers :
         /\ IF r.kind = "create" THEN owner[p] = r.org /\ stock[p] = NoOffer
            ELSE p = r.id /\ Selling(p)
         /\ stock' = [stock EXCEPT ![p] = IF r.kind = "delete" THEN Removed ELSE @ + 1]
         /\ posts' = [informed(p) EXCEPT ![k].state = "ok", ![k].id = p,
                          ![k].row = IF r.kind = "delete" THEN @ ELSE stock'[p]]
  BY DEF WriteOffer
<1>3. /\ CatalogueTypes /\ posts \in Seq(GoodPosts) /\ stock \in [Offers -> Int]
      /\ \A j \in DOMAIN posts : posts[j] \in GoodPosts
      /\ Len(posts) \in Nat /\ DOMAIN posts = 1..Len(posts)
  BY ElementOfSeq, LenProperties DEF CatalogueInv, CatalogueTypes
<1>4. /\ stock' \in [Offers -> Int] /\ stock'[p] \in Int
      /\ \A x \in Offers \ {p} : stock'[x] = stock[x]
      /\ r.kind = "delete" => stock'[p] = Removed
      /\ r.kind # "delete" => stock'[p] > NoOffer
  BY <1>2, <1>3 DEF Selling, NoOffer, Removed
<1>5. /\ \A x \in Offers \ {p} : RowOf(x)' = RowOf(x) /\ (Selling(x)' <=> Selling(x))
      /\ r.kind = "delete" => RowOf(p)' = <<>>
      /\ r.kind # "delete" => Selling(p)'
  BY <1>4 DEF RowOf, Selling, NoOffer, Removed
<1> DEFINE e == [r EXCEPT !.state = "ok", !.id = p,
                          !.row = IF r.kind = "delete" THEN @ ELSE stock'[p]]
<1>6. /\ DOMAIN posts' = DOMAIN posts /\ posts'[k] = e
      /\ \A j \in DOMAIN posts \ {k} : posts'[j] = told(p, j)
      /\ posts' = [i \in DOMAIN posts |-> posts'[i]]
  <2>1. DOMAIN informed(p) = DOMAIN posts /\ informed(p)[k] = r
        /\ \A j \in DOMAIN posts : informed(p)[j] = told(p, j)
        /\ informed(p) = [i \in DOMAIN posts |-> informed(p)[i]]
    OBVIOUS
  <2>2. k \in DOMAIN informed(p)
    BY <2>1
  <2> HIDE DEF informed, told
  <2>3. posts' = [informed(p) EXCEPT ![k] = e]
    <3>1. CASE r.kind = "delete"
      <4>1. posts' = [informed(p) EXCEPT ![k].state = "ok", ![k].id = p, ![k].row = @]
        BY <1>2, <3>1
      <4>2. e = [r EXCEPT !.state = "ok", !.id = p, !.row = @]
        BY <3>1
      <4> HIDE DEF e, r
      <4> QED BY <2>1, <2>2, <4>1, <4>2
    <3>2. CASE r.kind # "delete"
      <4>1. posts' = [informed(p) EXCEPT ![k].state = "ok", ![k].id = p, ![k].row = stock'[p]]
        BY <1>2, <3>2
      <4>2. e = [r EXCEPT !.state = "ok", !.id = p, !.row = stock'[p]]
        BY <3>2
      <4> HIDE DEF e, r
      <4> QED BY <2>1, <2>2, <4>1, <4>2
    <3> QED BY <3>1, <3>2
  <2> HIDE DEF e
  <2> QED BY <2>1, <2>3
<1>7. /\ posts'[k] \in PostOf /\ posts'[k].kind = r.kind /\ posts'[k].id = p
      /\ posts'[k].state = "ok" /\ posts'[k].then = r.then /\ posts'[k].missed = r.missed
      /\ posts'[k].org = r.org
      /\ posts'[k].row = IF r.kind = "delete" THEN r.row ELSE stock'[p]
  <2>1. r \in PostOf
    BY <1>3 DEF GoodPosts
  <2>2. /\ e \in PostOf /\ e.kind = r.kind /\ e.id = p /\ e.state = "ok" /\ e.then = r.then
        /\ e.missed = r.missed /\ e.org = r.org
        /\ e.row = IF r.kind = "delete" THEN r.row ELSE stock'[p]
    BY <1>4, <2>1 DEF PostOf
  <2> HIDE DEF e
  <2> QED BY <1>6, <2>2
<1>8. ASSUME NEW j \in DOMAIN posts \ {k}
      PROVE  /\ posts'[j] \in PostOf /\ posts'[j].kind = posts[j].kind
             /\ posts'[j].id = posts[j].id /\ posts'[j].state = posts[j].state
             /\ posts'[j].row = posts[j].row /\ posts'[j].rows = posts[j].rows
             /\ posts'[j].then = posts[j].then /\ posts'[j].org = posts[j].org
             /\ posts'[j].missed = IF posts[j].state = "ok" /\ About(posts[j], p)
                                   THEN posts[j].missed \cup {p} ELSE posts[j].missed
  <2>1. posts[j] \in PostOf /\ posts'[j] = told(p, j)
    BY <1>3, <1>6 DEF GoodPosts
  <2>2. CASE posts[j].state = "ok" /\ About(posts[j], p)
    <3>1. posts'[j] = [posts[j] EXCEPT !.missed = posts[j].missed \cup {p}]
      BY <2>1, <2>2
    <3> QED BY <2>1, <2>2, <3>1 DEF PostOf
  <2>3. CASE ~(posts[j].state = "ok" /\ About(posts[j], p))
    BY <2>1, <2>3
  <2> QED BY <2>2, <2>3
<1> HIDE DEF e, told
<1>9. PostOK(posts[k])'
  <2>1. PostOK(r)
    BY <1>3 DEF GoodPosts
  <2> QED BY <1>1, <1>5, <1>7, <2>1 DEF PostOK, IsWritten
<1>10. ASSUME NEW j \in DOMAIN posts \ {k}
       PROVE  PostOK(posts[j])'
  <2>1. PostOK(posts[j]) /\ posts[j].state \in {"sent", "ok"}
    BY <1>3 DEF GoodPosts, PostOf
  <2>2. ASSUME NEW x \in Offers \ posts'[j].missed, posts[j].state = "ok"
        PROVE  /\ posts[j].kind = "fetch" =>
                     posts[j].rows[x] = IF owner'[x] = posts[j].org THEN RowOf(x)' ELSE <<>>
               /\ IsWritten(posts[j], x) => Selling(x)' /\ posts[j].row = stock'[x]
    <3>1. x \in Offers \ posts[j].missed /\ (x = p => ~About(posts[j], p))
      BY <1>8, <2>2
    <3>2. CASE x # p
      BY <1>1, <1>4, <1>5, <2>1, <2>2, <3>1, <3>2 DEF PostOK
    <3>3. CASE x = p
      <4>1. posts[j].kind = "fetch" => owner[p] # posts[j].org
        BY <3>1, <3>3 DEF About
      <4>2. ~IsWritten(posts[j], p)
        BY <3>1, <3>3 DEF About, IsWritten
      <4> QED BY <1>1, <2>1, <2>2, <3>1, <3>3, <4>1, <4>2 DEF PostOK
    <3> QED BY <3>2, <3>3
  <2>3. \A x : IsWritten(posts'[j], x) => IsWritten(posts[j], x) /\ posts[j].state = "ok"
    BY <1>8 DEF IsWritten
  <2> QED BY <1>8, <2>1, <2>2, <2>3 DEF PostOK
<1>11. posts' \in Seq(GoodPosts')
  <2>1. \A j \in DOMAIN posts : posts'[j] \in GoodPosts'
    <3> SUFFICES ASSUME NEW j \in DOMAIN posts
                 PROVE  posts'[j] \in PostOf /\ PostOK(posts[j])'
      BY DEF GoodPosts
    <3>1. CASE j = k
      BY <1>7, <1>9, <3>1
    <3>2. CASE j # k
      BY <1>8, <1>10, <3>2
    <3> QED BY <3>1, <3>2
  <2>2. posts' \in [1..Len(posts) -> GoodPosts']
    BY <1>3, <1>6, <2>1
  <2> QED BY <1>3, <2>2, SeqDef
<1>12. CatalogueTypes'
  BY <1>1, <1>3, <1>4, <1>11 DEF CatalogueTypes
<1>13. ASSUME screen.at = "list", ~FetchOf(posts', screen.org), NEW x \in Offers \ outdated
       PROVE  InPlace(posts, x, shelf[x], pendingDelete)'
  <2> DEFINE org == screen.org
  <2>1. ~FetchOf(posts, screen.org)
    <3> SUFFICES ASSUME NEW j \in DOMAIN posts, posts[j].kind = "fetch", posts[j].org = screen.org
                 PROVE  FALSE
      BY DEF FetchOf
    <3>1. j # k
      BY <1>1
    <3>2. posts'[j].kind = "fetch" /\ posts'[j].org = screen.org /\ j \in DOMAIN posts'
      BY <1>6, <1>8, <3>1
    <3> QED BY <1>13, <3>2 DEF FetchOf
  <2>2. InPlace(posts, x, shelf[x], pendingDelete)
    BY <1>13, <2>1 DEF CatalogueInv
  <2>3. \A j \in DOMAIN posts \ {k} :
           /\ IsWritten(posts'[j], x) <=> IsWritten(posts[j], x)
           /\ IsLeaving(posts'[j], x) <=> IsLeaving(posts[j], x)
           /\ posts'[j].row = posts[j].row /\ posts'[j].then = posts[j].then
           /\ posts'[j].org = posts[j].org
    BY <1>6, <1>8 DEF IsWritten, IsLeaving
  <2>4. /\ ~IsWritten(posts[k], x) /\ ~IsLeaving(posts'[k], x)
        /\ x # p => ~IsWritten(posts'[k], x) /\ ~IsLeaving(posts[k], x)
        /\ x = p => IF r.kind = "delete" THEN ~IsWritten(posts'[k], x) /\ IsLeaving(posts[k], x)
                    ELSE IsWritten(posts'[k], x) /\ ~IsLeaving(posts[k], x)
    <3>1. r.kind \in PostKinds /\ (r.kind = "delete" => p = r.id)
      BY <1>2, <1>3 DEF GoodPosts, PostOf
    <3> QED BY <1>1, <1>6, <1>7, <3>1 DEF IsWritten, IsLeaving, PostKinds
  <2>5. CASE owner[x] # screen.org
    BY <1>1, <2>2, <2>5 DEF InPlace
  <2>6. CASE owner[x] = screen.org
    <3> DEFINE row == RowOf(x)
    <3>1. Held(posts, x, shelf[x], row, pendingDelete, org)
      BY <2>2, <2>6 DEF InPlace
    <3>2. Held(posts', x, shelf[x], RowOf(x)', pendingDelete, org)
      <4>1. CASE x # p
        <5>1. Held(posts', x, shelf[x], row, pendingDelete, org)
          <6>1. \A j \in DOMAIN posts : /\ IsWritten(posts'[j], x) <=> IsWritten(posts[j], x)
                                        /\ IsLeaving(posts'[j], x) <=> IsLeaving(posts[j], x)
                                        /\ posts'[j].row = posts[j].row \/ ~IsLeaving(posts[j], x)
                                        /\ posts'[j].then = posts[j].then
                                        /\ posts'[j].org = posts[j].org
            BY <1>7, <2>3, <2>4, <4>1
          <6> QED BY <1>6, <3>1, <6>1, HeldSame
        <5>2. RowOf(x)' = row
          BY <1>5, <4>1
        <5> QED BY <5>1, <5>2
      <4>2. CASE x = p /\ r.kind # "delete"
        <5>1. LeavesIn(posts', x) <=> LeavesIn(posts, x)
          BY <1>6, <2>3, <2>4, <4>2 DEF LeavesIn
        <5>2. WrittenIn(posts', x)
          BY <1>6, <2>4, <4>2 DEF WrittenIn
        <5>3. \A j \in DOMAIN posts : IsLeaving(posts'[j], x) =>
                 j # k /\ IsLeaving(posts[j], x) /\ posts'[j].then = posts[j].then
                       /\ posts'[j].org = posts[j].org
          BY <2>3, <2>4
        <5> QED BY <1>6, <3>1, <5>1, <5>2, <5>3 DEF Held
      <4>3. CASE x = p /\ r.kind = "delete"
        <5>1. LeavesIn(posts, x)
          BY <2>4, <4>3 DEF LeavesIn
        <5>2. \A j \in DOMAIN posts : ~IsLeaving(posts'[j], x)
          BY <2>3, <2>4, <3>1, <4>3 DEF Held
        <5>3. shelf[x] = <<>> /\ pendingDelete.id # x /\ Len(shelf[x]) <= 1
          BY <3>1, <5>1 DEF Held
        <5>4. RowOf(x)' = <<>>
          BY <1>5, <4>3
        <5> QED BY <1>6, <5>2, <5>3, <5>4 DEF Held, LeavesIn
      <4> QED BY <4>1, <4>2, <4>3
    <3> QED BY <1>1, <2>6, <3>2 DEF InPlace
  <2> QED BY <2>5, <2>6
<1> QED BY <1>1, <1>12, <1>13 DEF CatalogueInv

LEMMA StepCatalogueInv == CatalogueInv /\ [CatalogueNext]_catalogueVars => CatalogueInv'
<1> SUFFICES ASSUME CatalogueInv, [CatalogueNext]_catalogueVars
             PROVE  CatalogueInv'
  OBVIOUS
<1>1. CASE UNCHANGED catalogueVars
  <2>1. UNCHANGED <<owner, stock, screen, shelf, posts, pendingDelete, outdated>>
    BY <1>1 DEF catalogueVars
  <2> QED BY <2>1, SameRows DEF CatalogueInv, CatalogueTypes
<1>2. CASE Navigate \/ FetchShelf \/ DeleteTimer \/ handleSubmit \/ ChangeImage
  BY <1>2, SupplierStep
<1>3. CASE UndoDelete
  BY <1>3, UndoDeleteStep
<1>4. CASE \E p \in Offers : handleDelete(p)
  BY <1>4, HandleDeleteStep
<1>5. CASE \E i \in DOMAIN posts : ReadOffers(i) \/ WriteOffer(i) \/ PostAnswered(i) \/ PostFails(i)
  BY <1>5, ReadOffersStep, WriteOfferStep, PostAnsweredStep, PostFailsStep
<1> QED BY <1>1, <1>2, <1>3, <1>4, <1>5 DEF CatalogueNext

\* CatalogueSettles: whatever the supplier makes, changes, deletes and undoes, from the
\* ProductsView.vue of either organization or a form that was left before its answer came,
\* the one list of products.store.ts ends with every product of the organization shown once
\* and as it is, and with no other, unless an answer was lost, overtaken or for another list.
THEOREM CatalogueTheorem == CatalogueSpec => []CatalogueSettles
<1>1. CatalogueInv => CatalogueSettles
  <2> SUFFICES ASSUME CatalogueInv, CardsShown, posts = <<>>, pendingDelete = NoDelete,
                      NEW p \in Offers \ outdated
               PROVE  shelf[p] = IF owner[p] = screen.org THEN RowOf(p) ELSE <<>>
    BY DEF CatalogueSettles, OffersOf, RowOf
  <2>1. ~FetchOf(posts, screen.org) /\ ~LeavesIn(posts, p) /\ ~WrittenIn(posts, p)
    BY DEF FetchOf, LeavesIn, WrittenIn
  <2>2. InPlace(posts, p, shelf[p], pendingDelete)
    BY <2>1 DEF CatalogueInv, CardsShown
  <2> QED BY <2>1, <2>2, OffersAssumption DEF InPlace, Held
<1> QED BY <1>1, InitCatalogueInv, StepCatalogueInv, PTL DEF CatalogueSpec

=============================================================================
