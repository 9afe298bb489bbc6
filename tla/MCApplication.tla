--------------------------- MODULE MCApplication ---------------------------
(***************************************************************************)
(* Two of everything that can be confused: products of two organizations,   *)
(* addresses, tabs with two calls each, orders, parcels, devices and forms. *)
(* The day of the calendar has three quarters of an hour.                   *)
(***************************************************************************)
EXTENDS Application, TLC

CONSTANTS g1, g2, s1, s2, a1, a2, t1, t2, c1, c2, o1, o2, p1, p2, f1, f2

On(day, start, end) == [day |-> day, start |-> start, end |-> end]

MCStored == {{}, {On(1, 0, 1), On(1, 2, 3)}}
MCPreset == [start |-> 1, end |-> 3]

\* Schedules in and out of order, with slots that touch and slots that overlap.
MCPayloads ==
    {<<>>, <<On(1, 0, 1)>>, <<On(1, 0, 2), On(1, 1, 3)>>, <<On(1, 1, 3), On(1, 0, 2)>>,
     <<On(1, 2, 3), On(1, 0, 2)>>, <<On(1, 0, 2), On(1, 2, 3)>>,
     <<On(1, 2, 3), On(2, 0, 2), On(1, 0, 1)>>}

MCSellerOf == (g1 :> s1) @@ (g2 :> s2)

-----------------------------------------------------------------------------
\* What tells two states of the checkout apart: of an order its items and whether
\* its coordinates are not those of its address, of an address no more.
GoesWrong(o) == ~o.late /\ o.dto.coords \notin {None, o.dto.address}

CheckoutView ==
    <<cart, page, form, busy, fetching,
      {<<c.id, c.basket, c.state, c.heard, c.dto.items, GoesWrong(c)>> : c \in creates},
      [i \in DOMAIN placed |-> <<placed[i].basket, GoesWrong(placed[i])>>],
      basket, doubtful, lost>>

\* Of the token a call was sent with, whether it is still good, and nothing of what
\* the properties except once two tabs have raced: neither of the requests that no
\* tab waits for, which from then on can only change the hash.
SessionView ==
    <<clock, hash, storage, refresh, signIn, IF raced THEN {} ELSE abandoned, raced,
      ~raced /\ thrown, ~raced /\ broken, ~raced /\ loggedOut,
      [t \in Tabs |-> [c \in Calls |->
          [calls[t][c] EXCEPT !.token = IF AccessTokenGuard(@) THEN 1 ELSE 0]]]>>

View ==
    <<part, scheduleVars, shiftVars, CheckoutView, SessionView, listVars, deliveryVars,
      productVars, catalogueVars, sourceVars>>

\* Only one part takes steps, so its values are exchanged together with those of
\* the others: the first of its sets, and then the second.
Exchanged ==
    {{{a1, a2}, {t1, t2}, {o1, o2}, {p1, p2}}, {{g1, g2}, {s1, s2}, {c1, c2}, {f1, f2}}}

Swap(pairs) == [x \in UNION pairs |-> CHOOSE y \in UNION {p \in pairs : x \in p} : y # x]

Symmetry == {Swap(pairs) : pairs \in Exchanged}

=============================================================================
