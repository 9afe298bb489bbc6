---------------------------- MODULE Application ----------------------------
(***************************************************************************)
(* The parts of the application that keep a state of their own and meet     *)
(* only in the database and in who uses them: the hours of a courier, on    *)
(* the page and as stored, the cart of a client, the tabs of a signed-in    *)
(* user, the orders a client or a supplier has open, the deliveries of a    *)
(* courier, the products of an organization as they are stored, and as its  *)
(* supplier sees them, and what is known of the roads.  No step of one      *)
(* reads what another writes, so a behaviour is that of one part, chosen at *)
(* the start, while the others stay as they begin.                          *)
(***************************************************************************)
EXTENDS Schedule, ShiftRows, Checkout, Session, OrderList, Deliveries, Products,
        Catalogue, RoadSources

VARIABLE part     \* the part that takes steps

Parts == {"schedule", "shifts", "checkout", "session", "list", "deliveries", "products",
          "catalogue", "sources"}

\* A part that takes no steps begins in one of its initial states.
Init ==
    /\ part \in Parts
    /\ ScheduleInit /\ ShiftInit /\ CheckoutInit /\ SessionInit
    /\ ListInit /\ DeliveriesInit /\ ProductsInit /\ CatalogueInit /\ SourcesInit
    /\ part # "list" => role = "client" /\ \A o \in Orders : server[o] = Unplaced
    /\ part # "sources" => answered = {} /\ \A e \in Ends : kmCache[e] = Miss
    /\ part # "deliveries" => \A o \in Parcels : job[o] = "none"
    /\ part # "catalogue" => owner = [p \in Offers |-> CHOOSE o \in Organizations : TRUE]

Next ==
    \/ /\ part = "schedule" /\ ScheduleNext
       /\ UNCHANGED <<part, shiftVars, checkoutVars, sessionVars, listVars, deliveryVars,
                      productVars, catalogueVars, sourceVars>>
    \/ /\ part = "shifts" /\ ShiftNext
       /\ UNCHANGED <<part, scheduleVars, checkoutVars, sessionVars, listVars, deliveryVars,
                      productVars, catalogueVars, sourceVars>>
    \/ /\ part = "checkout" /\ CheckoutNext
       /\ UNCHANGED <<part, scheduleVars, shiftVars, sessionVars, listVars, deliveryVars,
                      productVars, catalogueVars, sourceVars>>
    \/ /\ part = "session" /\ SessionNext
       /\ UNCHANGED <<part, scheduleVars, shiftVars, checkoutVars, listVars, deliveryVars,
                      productVars, catalogueVars, sourceVars>>
    \/ /\ part = "list" /\ ListNext
       /\ UNCHANGED <<part, scheduleVars, shiftVars, checkoutVars, sessionVars, deliveryVars,
                      productVars, catalogueVars, sourceVars>>
    \/ /\ part = "deliveries" /\ DeliveriesNext
       /\ UNCHANGED <<part, scheduleVars, shiftVars, checkoutVars, sessionVars, listVars,
                      productVars, catalogueVars, sourceVars>>
    \/ /\ part = "products" /\ ProductsNext
       /\ UNCHANGED <<part, scheduleVars, shiftVars, checkoutVars, sessionVars, listVars,
                      deliveryVars, catalogueVars, sourceVars>>
    \/ /\ part = "catalogue" /\ CatalogueNext
       /\ UNCHANGED <<part, scheduleVars, shiftVars, checkoutVars, sessionVars, listVars,
                      deliveryVars, productVars, sourceVars>>
    \/ /\ part = "sources" /\ SourcesNext
       /\ UNCHANGED <<part, scheduleVars, shiftVars, checkoutVars, sessionVars, listVars,
                      deliveryVars, productVars, catalogueVars>>

Spec ==
    Init /\ [][Next]_<<part, scheduleVars, shiftVars, checkoutVars, sessionVars, listVars,
                       deliveryVars, productVars, catalogueVars, sourceVars>>

=============================================================================
