--------------------------- MODULE BrowserProofs ----------------------------
(***************************************************************************)
(* What a browser keeps, and must keep right: the session of a user in all  *)
(* tabs, the orders a client or a supplier has open, and the deliveries of  *)
(* a courier.  Proved for every number of tabs, calls, orders, requests and *)
(* messages under way, and for every life of the tokens.                    *)
(*                                                                          *)
(* SessionKept speaks of what the server has denied and of localStorage.    *)
(* The invariant adds what the code never checks: as long as nothing has    *)
(* raced, one refresh, one log out or one sign in is under way in all tabs, *)
(* and the server has the refresh token that localStorage has, or the one   *)
(* of the refresh or the sign in that is about to bring it there.           *)
(*                                                                          *)
(* ListSettles and DeliveriesSettle speak of the moment when nothing is     *)
(* under way any more.  Their invariants say what every message, request and *)
(* answer on its way will make of what is shown.                            *)
(***************************************************************************)
EXTENDS Session, OrderList, Deliveries, FiniteSetTheorems, SequenceTheorems, TLAPS

-----------------------------------------------------------------------------
\* Sequences

\* A sequence without one of its members.
LEMMA RemovedFrom ==
    ASSUME NEW S, NEW s \in Seq(S), NEW i \in DOMAIN s
    PROVE  /\ RemoveAt(s, i) \in Seq(S)
           /\ Len(RemoveAt(s, i)) = Len(s) - 1
           /\ \A j \in 1..(Len(s) - 1) : RemoveAt(s, i)[j] = IF j < i THEN s[j] ELSE s[j + 1]
<1> DEFINE front == SubSeq(s, 1, i - 1)
           back  == SubSeq(s, i + 1, Len(s))
<1>1. Len(s) \in Nat /\ i \in 1..Len(s) /\ \A j \in 1..Len(s) : s[j] \in S
  BY LenProperties, ElementOfSeq
<1>2. /\ front \in Seq(S) /\ Len(front) = i - 1
      /\ \A j \in 1..(i - 1) : front[j] = s[j]
  <2>1. \A j \in 1..(i - 1) : s[j] \in S
    BY <1>1
  <2>2. /\ front \in Seq(S)
        /\ Len(front) = IF 1 <= i - 1 THEN (i - 1) - 1 + 1 ELSE 0
        /\ \A j \in 1..((i - 1) - 1 + 1) : front[j] = s[1 + j - 1]
    BY <1>1, <2>1, SubSeqProperties
  <2>3. (i - 1) - 1 + 1 = i - 1 /\ \A j \in 1..(i - 1) : 1 + j - 1 = j
    BY <1>1
  <2> QED BY <1>1, <2>2, <2>3
<1>3. /\ back \in Seq(S) /\ Len(back) = Len(s) - i
      /\ \A j \in 1..(Len(s) - i) : back[j] = s[i + j]
  <2>1. \A j \in (i + 1)..Len(s) : s[j] \in S
    BY <1>1
  <2>2. /\ back \in Seq(S)
        /\ Len(back) = IF i + 1 <= Len(s) THEN Len(s) - (i + 1) + 1 ELSE 0
        /\ \A j \in 1..(Len(s) - (i + 1) + 1) : back[j] = s[(i + 1) + j - 1]
    BY <1>1, <2>1, SubSeqProperties
  <2>3. \A j \in 1..(Len(s) - i) : j \in 1..(Len(s) - (i + 1) + 1) /\ (i + 1) + j - 1 = i + j
    BY <1>1
  <2> QED BY <1>1, <2>2, <2>3
<1>4. RemoveAt(s, i) = front \o back
  BY DEF RemoveAt
<1> HIDE DEF front, back
<1>5. /\ RemoveAt(s, i) \in Seq(S) /\ Len(RemoveAt(s, i)) = Len(s) - 1
      /\ \A j \in 1..(Len(s) - 1) : RemoveAt(s, i)[j] = IF j <= i - 1 THEN front[j]
                                                         ELSE back[j - (i - 1)]
  <2>1. Len(front) + Len(back) = Len(s) - 1
    BY <1>1, <1>2, <1>3
  <2>2. /\ front \o back \in Seq(S) /\ Len(front \o back) = Len(front) + Len(back)
        /\ \A j \in 1..(Len(front) + Len(back)) : (front \o back)[j] =
              IF j <= Len(front) THEN front[j] ELSE back[j - Len(front)]
    BY <1>2, <1>3, ConcatProperties
  <2> QED BY <1>2, <1>4, <2>1, <2>2
<1>6. ASSUME NEW j \in 1..(Len(s) - 1)
      PROVE  RemoveAt(s, i)[j] = IF j < i THEN s[j] ELSE s[j + 1]
  <2>1. CASE j < i
    BY <1>1, <1>2, <1>5, <2>1
  <2>2. CASE ~(j < i)
    <3>1. j - (i - 1) \in 1..(Len(s) - i) /\ i + (j - (i - 1)) = j + 1 /\ ~(j <= i - 1)
      BY <1>1, <2>2
    <3> QED BY <1>3, <1>5, <2>2, <3>1
  <2> QED BY <2>1, <2>2
<1> QED BY <1>5, <1>6

\* A sequence with one member more, and one less: which of them is which.
LEMMA OneMore ==
    ASSUME NEW S, NEW s \in Seq(S), NEW e \in S
    PROVE  /\ Append(s, e) \in Seq(S) /\ Len(Append(s, e)) = Len(s) + 1
           /\ DOMAIN Append(s, e) = DOMAIN s \cup {Len(s) + 1}
           /\ \A j \in DOMAIN s : j \in Nat /\ j < Len(s) + 1 /\ Append(s, e)[j] = s[j]
           /\ Append(s, e)[Len(s) + 1] = e
<1>1. Len(s) \in Nat /\ DOMAIN s = 1..Len(s)
  BY LenProperties
<1>2. /\ Append(s, e) \in Seq(S) /\ Len(Append(s, e)) = Len(s) + 1
      /\ \A j \in 1..Len(s) : Append(s, e)[j] = s[j]
      /\ Append(s, e)[Len(s) + 1] = e
  BY AppendProperties
<1>3. DOMAIN Append(s, e) = 1..(Len(s) + 1)
  BY <1>2, LenProperties
<1>4. 1..(Len(s) + 1) = (1..Len(s)) \cup {Len(s) + 1}
  BY <1>1
<1> QED BY <1>1, <1>2, <1>3, <1>4

LEMMA OneLess ==
    ASSUME NEW S, NEW s \in Seq(S), NEW i \in DOMAIN s
    PROVE  /\ RemoveAt(s, i) \in Seq(S) /\ i \in Nat
           /\ \A k \in DOMAIN RemoveAt(s, i) :
                 LET j == IF k < i THEN k ELSE k + 1
                 IN  j \in DOMAIN s \ {i} /\ RemoveAt(s, i)[k] = s[j]
           /\ \A j \in DOMAIN s \ {i} :
                 LET k == IF j < i THEN j ELSE j - 1
                 IN  k \in DOMAIN RemoveAt(s, i) /\ RemoveAt(s, i)[k] = s[j]
           /\ DOMAIN s \subseteq Nat /\ DOMAIN RemoveAt(s, i) \subseteq Nat
<1>1. Len(s) \in Nat /\ DOMAIN s = 1..Len(s) /\ i \in 1..Len(s)
  BY LenProperties
<1>2. /\ RemoveAt(s, i) \in Seq(S) /\ Len(RemoveAt(s, i)) = Len(s) - 1
      /\ \A j \in 1..(Len(s) - 1) : RemoveAt(s, i)[j] = IF j < i THEN s[j] ELSE s[j + 1]
  BY RemovedFrom
<1>3. DOMAIN RemoveAt(s, i) = 1..(Len(s) - 1)
  BY <1>2, LenProperties
<1>4. ASSUME NEW k \in 1..(Len(s) - 1)
      PROVE  LET j == IF k < i THEN k ELSE k + 1
             IN  j \in (1..Len(s)) \ {i} /\ RemoveAt(s, i)[k] = s[j]
  BY <1>1, <1>2
<1>5. ASSUME NEW j \in (1..Len(s)) \ {i}
      PROVE  LET k == IF j < i THEN j ELSE j - 1
             IN  k \in 1..(Len(s) - 1) /\ RemoveAt(s, i)[k] = s[j]
  <2>1. CASE j < i
    BY <1>1, <1>2, <2>1
  <2>2. CASE ~(j < i)
    <3>1. j - 1 \in 1..(Len(s) - 1) /\ ~(j - 1 < i) /\ (j - 1) + 1 = j
      BY <1>1, <2>2
    <3> QED BY <1>2, <2>2, <3>1
  <2> QED BY <2>1, <2>2
<1> QED BY <1>1, <1>2, <1>3, <1>4, <1>5

\* What is left is still there after it.
LEMMA KeptByRemoval ==
    ASSUME NEW S, NEW s \in Seq(S), NEW i \in DOMAIN s
    PROVE  \A j \in DOMAIN s \ {i} : \E k \in DOMAIN RemoveAt(s, i) : RemoveAt(s, i)[k] = s[j]
<1> DEFINE t == RemoveAt(s, i)
<1>1. \A j \in DOMAIN s \ {i} :
         LET k == IF j < i THEN j ELSE j - 1
         IN  k \in DOMAIN t /\ t[k] = s[j]
  BY OneLess
<1> HIDE DEF t
<1>2. \A j \in DOMAIN s \ {i} : \E k \in DOMAIN t : t[k] = s[j]
  BY <1>1
<1> QED BY <1>2 DEF t

\* The first member, and the others.
LEMMA OneTaken ==
    ASSUME NEW S, NEW f \in Seq(S), f # <<>>
    PROVE  /\ 1 \in DOMAIN f /\ Head(f) = f[1] /\ f[1] \in S /\ Tail(f) \in Seq(S)
           /\ \A j \in DOMAIN Tail(f) : /\ j \in Nat \ {0} /\ j + 1 \in DOMAIN f
                                        /\ Tail(f)[j] = f[j + 1]
           /\ \A k \in DOMAIN f \ {1} : /\ k \in Nat \ {0, 1} /\ k - 1 \in DOMAIN Tail(f)
                                        /\ Tail(f)[k - 1] = f[k]
<1>1. Len(f) \in Nat \ {0} /\ DOMAIN f = 1..Len(f)
  BY EmptySeq, LenProperties
<1>2. /\ Tail(f) \in Seq(S) /\ Len(Tail(f)) = Len(f) - 1
      /\ \A i \in 1..Len(Tail(f)) : Tail(f)[i] = f[i + 1]
  BY HeadTailProperties
<1>3. DOMAIN Tail(f) = 1..(Len(f) - 1)
  BY <1>2, LenProperties
<1>4. Head(f) = f[1] /\ f[1] \in S
  BY <1>1, ElementOfSeq

<1> QED BY <1>1, <1>2, <1>3, <1>4

\* A sequence with one member.
LEMMA OneAlone ==
    ASSUME NEW S, NEW e \in S
    PROVE  /\ <<e>> \in Seq(S) /\ Len(<<e>>) = 1 /\ <<e>> # <<>>
           /\ <<e>> \o <<>> = <<e>> /\ Append(<<>>, e) = <<e>>
<1>1. <<e>> \in Seq(S) /\ Len(<<e>>) = 1 /\ <<>> \in Seq(S) /\ Len(<<>>) = 0
  BY EmptySeq
<1>2. <<e>> \o <<>> = <<e>> /\ <<>> \o <<e>> = <<e>>
  BY <1>1, ConcatEmptySeq
<1>3. Append(<<>>, e) = <<>> \o <<e>>
  BY <1>1, AppendIsConcat
<1> QED BY <1>1, <1>2, <1>3

\* At most one row is one, or none.
LEMMA OneRow ==
    ASSUME NEW S, NEW rows \in Seq(S), Len(rows) <= 1, rows # <<>>
    PROVE  rows[1] \in S /\ rows = <<rows[1]>> /\ Tail(rows) = <<>>
<1>1. Len(rows) \in Nat \ {0} /\ DOMAIN rows = 1..Len(rows)
  BY EmptySeq, LenProperties
<1>2. Len(rows) = 1 /\ 1 \in 1..Len(rows)
  BY <1>1
<1>3. rows[1] \in S
  BY <1>2, ElementOfSeq
<1>4. <<rows[1]>> \in Seq(S) /\ Len(<<rows[1]>>) = 1 /\ <<rows[1]>>[1] = rows[1]
  BY <1>3
<1>5. rows = <<rows[1]>>
  <2>1. \A i \in 1..Len(rows) : rows[i] = <<rows[1]>>[i]
    BY <1>2, <1>4
  <2> QED BY <1>2, <1>4, <2>1, SeqEqual
<1>6. Tail(rows) \in Seq(S) /\ Len(Tail(rows)) = 0
  BY <1>2, HeadTailProperties
<1>7. Tail(rows) = <<>>
  BY <1>6, EmptySeq
<1> QED BY <1>3, <1>5, <1>7

-----------------------------------------------------------------------------
\* The session

Call == [pc : {"idle", "sent", "ok", "401", "queued", "refreshing"}, token : Nat,
         retry : BOOLEAN, logout : BOOLEAN]

Refresh == [pc : {"idle", "sent", "update", "denied", "done"}, token : Nat, for : Nat]

Late == [pc : {"sent", "update", "denied", "signIn", "logout"}, token : Nat, for : Nat]

SessionTypeOK ==
    /\ clock \in Nat \ {0} /\ hash \in Nat /\ storage \in Nat
    /\ calls \in [Tabs -> [Calls -> Call]]
    /\ refresh \in [Tabs -> Refresh]
    /\ \A t \in Tabs : refresh[t].pc = "idle" => refresh[t] = NoRefresh
    /\ signIn \in [Tabs -> Nat \cup {NoSignIn}]
    /\ abandoned \subseteq Late
    /\ raced \in BOOLEAN /\ thrown \in BOOLEAN /\ broken \in BOOLEAN /\ loggedOut \in BOOLEAN

Refreshing(t) == refresh[t] # NoRefresh

\* One refresh, one log out or one sign in, or the refresh a log out waits for.
OneAtATime ==
    /\ \A t, u \in Tabs : Refreshing(t) =>
          /\ Refreshing(u) => u = t
          /\ signIn[u] = NoSignIn
          /\ \A d \in Calls : calls[u][d].logout => u = t /\ calls[u][d].pc = "refreshing"
    /\ \A t, u \in Tabs : signIn[t] # NoSignIn =>
          /\ signIn[u] # NoSignIn => u = t
          /\ ~LoggingOut(u)
    /\ \A t, u \in Tabs, c, d \in Calls :
          calls[t][c].logout /\ calls[u][d].logout => t = u /\ c = d

\* What the server has is the token of the session, or that of its successor.
HashAgrees ==
    /\ \A t \in Tabs : Refreshing(t) =>
          /\ refresh[t].pc \in {"sent", "update"} => hash = refresh[t].token
          /\ refresh[t].pc = "done" => hash = refresh[t].for
    /\ \A t \in Tabs : signIn[t] \notin {NoSignIn, Sent} => hash = signIn[t]
    /\ storage # NoToken =>
          \/ hash = storage
          \/ \E t \in Tabs : Refreshing(t)
          \/ \E t \in Tabs, c \in Calls : calls[t][c].logout /\ calls[t][c].pc = "ok"

\* Where the token is: the server may have another one once a request broke.
TokensAgree ==
    /\ \A t \in Tabs : Refreshing(t) => storage # NoToken /\ storage = refresh[t].token
    /\ \A t \in Tabs : signIn[t] # NoSignIn => storage = NoToken
    /\ ~broken => HashAgrees

NothingLeft == abandoned # {} => raced \/ broken

SessionInv ==
    /\ SessionTypeOK
    /\ NothingLeft
    /\ ~raced => OneAtATime /\ TokensAgree
    /\ SessionKept
    /\ NoCallStranded

-----------------------------------------------------------------------------
\* The calls of the tabs

LEMMA OneCall ==
    ASSUME SessionTypeOK, NEW t \in Tabs, NEW c \in Calls, NEW call \in Call,
           SetCall(t, c, call)
    PROVE  /\ calls' \in [Tabs -> [Calls -> Call]]
           /\ calls'[t][c] = call
           /\ \A u \in Tabs, d \in Calls : u # t \/ d # c => calls'[u][d] = calls[u][d]
BY DEF SessionTypeOK, SetCall

LEMMA NoCallFacts == NoCall \in Call /\ NoCall.pc = "idle" /\ ~NoCall.logout
BY DEF NoCall, Call, NoToken

LEMMA NoRefreshFacts == NoRefresh \in Refresh /\ NoRefresh.pc = "idle"
BY DEF NoRefresh, Refresh, NoToken

\* A call that leaves the waiting ones alone.
LEMMA OneCallStranded ==
    ASSUME SessionTypeOK, NoCallStranded, NEW t \in Tabs, NEW c \in Calls, NEW call \in Call,
           SetCall(t, c, call), UNCHANGED refresh,
           call.pc \in {"queued", "refreshing"} => Refreshing(t)
    PROVE  NoCallStranded'
BY OneCall DEF NoCallStranded, Refreshing

\* A disjunction that grows, of two truth values.
LEMMA Grows ==
    ASSUME NEW old, NEW more, NEW new, old \in BOOLEAN, new = (old \/ more)
    PROVE  new \in BOOLEAN /\ (old => new) /\ (more => new) /\ (~new => ~old /\ ~more)
<1>1. (old \/ more) \in BOOLEAN
  BY Zenon
<1> QED BY <1>1, Zenon

LEMMA LogoutOfFacts ==
    ASSUME SessionTypeOK, NEW t \in Tabs, NEW c \in Calls
    PROVE  /\ LogoutOf(t, c) \subseteq Late
           /\ LogoutOf(t, c) # {} => calls[t][c].logout
<1>1. calls[t][c] \in Call
  BY DEF SessionTypeOK
<1> QED BY <1>1 DEF LogoutOf, Late, Call, NoToken

LEMMA RefreshOfFacts ==
    ASSUME SessionTypeOK, NEW t \in Tabs
    PROVE  /\ RefreshOf(t) \subseteq Late
           /\ RefreshOf(t) # {} => Refreshing(t)
<1>1. refresh[t] \in Refresh
  BY DEF SessionTypeOK
<1>2. \A r \in Refresh : r.pc \in {"sent", "update"} => r \in Late
  BY DEF Refresh, Late
<1> QED BY <1>1, <1>2, NoRefreshFacts DEF RefreshOf, Refreshing

LEMMA SignInOfFacts == \A t \in Tabs : SignInOf(t) \subseteq Late
BY DEF SignInOf, Late, NoToken

LEMMA AbandonFacts ==
    ASSUME NEW leaving, Abandon(leaving), abandoned \subseteq Late, leaving \subseteq Late
    PROVE  abandoned' \subseteq Late /\ (abandoned' # {} => abandoned # {} \/ leaving # {})
BY DEF Abandon

LEMMA SendKeeps ==
    ASSUME SessionInv, NEW t \in Tabs, NEW c \in Calls, NEW logout \in BOOLEAN,
           Send(t, c, logout)
    PROVE  SessionInv'
<1> DEFINE call == [pc |-> "sent", token |-> storage, retry |-> FALSE, logout |-> logout]
<1>1. call \in Call /\ call.pc = "sent" /\ call.logout = logout
  BY DEF Call, SessionInv, SessionTypeOK
<1>2. SetCall(t, c, call) /\ calls[t][c] = NoCall /\ signIn[t] = NoSignIn
      /\ UNCHANGED <<clock, hash, storage, refresh, signIn, abandoned, thrown, broken, loggedOut>>
      /\ raced' = (raced \/ (logout /\ (Refreshing(t) \/ OthersUnderway(t, c))))
  BY DEF Send, Refreshing
<1> HIDE DEF call
<1>3. /\ calls' \in [Tabs -> [Calls -> Call]] /\ calls'[t][c] = call
      /\ \A u \in Tabs, d \in Calls : u # t \/ d # c => calls'[u][d] = calls[u][d]
  BY <1>1, <1>2, OneCall DEF SessionInv
<1>4. SessionTypeOK'
  BY <1>2, <1>3 DEF SessionInv, SessionTypeOK
<1>8. NothingLeft'
  BY <1>2 DEF SessionInv, NothingLeft
<1>5. NoCallStranded'
  BY <1>1, <1>2, OneCallStranded DEF SessionInv
<1>6. ASSUME ~raced'
      PROVE  OneAtATime' /\ TokensAgree' /\ SessionKept'
  <2>1. ~raced /\ OneAtATime /\ TokensAgree /\ SessionKept
    BY <1>2, <1>6 DEF SessionInv, SessionTypeOK
  <2>2. logout => /\ \A u \in Tabs : ~Refreshing(u) /\ signIn[u] = NoSignIn
                  /\ \A u \in Tabs, d \in Calls : u # t \/ d # c => ~calls[u][d].logout
    BY <1>2, <1>6 DEF OthersUnderway, Refreshing
  <2>3. OneAtATime'
    BY <1>1, <1>2, <1>3, <2>1, <2>2, NoCallFacts DEF OneAtATime, Refreshing, LoggingOut
  <2>4. TokensAgree'
    BY <1>1, <1>2, <1>3, <2>1, NoCallFacts DEF TokensAgree, HashAgrees, Refreshing
  <2> QED BY <1>2, <2>1, <2>3, <2>4 DEF SessionKept
<1>7. SessionKept'
  BY <1>6 DEF SessionKept
<1> QED BY <1>4, <1>5, <1>6, <1>7, <1>8 DEF SessionInv

LEMMA ServeKeeps ==
    ASSUME SessionInv, NEW t \in Tabs, NEW c \in Calls, Serve(t, c)
    PROVE  SessionInv'
<1> DEFINE allowed == AccessTokenGuard(calls[t][c].token)
           pc == IF allowed THEN "ok" ELSE "401"
           call == [calls[t][c] EXCEPT !.pc = pc]
<1>1. /\ call \in Call /\ call.pc = pc /\ call.logout = calls[t][c].logout
      /\ calls[t][c].pc = "sent"
  BY DEF Call, SessionInv, SessionTypeOK, Serve
<1>2. /\ SetCall(t, c, call)
      /\ UNCHANGED <<clock, storage, refresh, signIn, abandoned, raced, thrown, broken, loggedOut>>
      /\ hash' = IF allowed /\ calls[t][c].logout THEN NoToken ELSE hash
  BY DEF Serve
<1> HIDE DEF call, allowed
<1>3. /\ calls' \in [Tabs -> [Calls -> Call]] /\ calls'[t][c] = call
      /\ \A u \in Tabs, d \in Calls : u # t \/ d # c => calls'[u][d] = calls[u][d]
  BY <1>1, <1>2, OneCall DEF SessionInv
<1>4. SessionTypeOK'
  BY <1>2, <1>3 DEF SessionInv, SessionTypeOK, NoToken
<1>5. NoCallStranded'
  BY <1>1, <1>2, OneCallStranded DEF SessionInv
<1>6. ASSUME ~raced
      PROVE  OneAtATime' /\ TokensAgree'
  <2>1. OneAtATime /\ TokensAgree
    BY <1>6 DEF SessionInv
  <2>2. OneAtATime'
    <3>1. \A u \in Tabs, d \in Calls :
             /\ calls'[u][d].logout = calls[u][d].logout
             /\ calls[u][d].pc = "refreshing" => calls'[u][d].pc = "refreshing"
      BY <1>1, <1>3
    <3>2. \A u \in Tabs : LoggingOut(u)' => LoggingOut(u)
      BY <3>1 DEF LoggingOut
    <3> QED BY <1>2, <2>1, <3>1, <3>2 DEF OneAtATime, Refreshing
  <2>3. CASE calls[t][c].logout /\ allowed
    <3>1. \A u \in Tabs : ~Refreshing(u) /\ signIn[u] = NoSignIn
      BY <1>1, <2>1, <2>3 DEF OneAtATime, LoggingOut
    <3>2. calls'[t][c].logout /\ calls'[t][c].pc = "ok"
      BY <1>1, <1>3, <2>3
    <3> QED BY <1>2, <2>2, <3>1, <3>2 DEF TokensAgree, HashAgrees, Refreshing
  <2>4. CASE ~(calls[t][c].logout /\ allowed)
    <3>1. hash' = hash
      BY <1>2, <2>4
    <3>2. \A u \in Tabs, d \in Calls :
             calls[u][d].logout /\ calls[u][d].pc = "ok" =>
                 calls'[u][d].logout /\ calls'[u][d].pc = "ok"
      BY <1>1, <1>3
    <3> QED BY <1>2, <2>1, <2>2, <3>1, <3>2 DEF TokensAgree, HashAgrees, Refreshing
  <2> QED BY <2>2, <2>3, <2>4
<1>7. NothingLeft'
  BY <1>2 DEF SessionInv, NothingLeft
<1> QED BY <1>2, <1>4, <1>5, <1>6, <1>7 DEF SessionInv, SessionKept

LEMMA SettleKeeps ==
    ASSUME SessionInv, NEW t \in Tabs, NEW c \in Calls,
           calls[t][c].pc \in {"sent", "ok", "401"}, Settle(t, c)
    PROVE  SessionInv'
<1>1. /\ SetCall(t, c, NoCall)
      /\ UNCHANGED <<clock, hash, refresh, signIn, raced, thrown>>
      /\ Abandon(LogoutOf(t, c)) /\ broken' = (broken \/ LogoutOf(t, c) # {})
      /\ IF calls[t][c].logout THEN storage' = NoToken /\ loggedOut' = TRUE
         ELSE UNCHANGED <<storage, loggedOut>>
  BY DEF Settle
<1>2. /\ broken' \in BOOLEAN /\ (broken => broken')
      /\ abandoned' \subseteq Late /\ (abandoned' # {} => abandoned # {} \/ broken')
  <2>1. abandoned' \subseteq Late /\ (abandoned' # {} => abandoned # {} \/ LogoutOf(t, c) # {})
    BY <1>1, LogoutOfFacts, AbandonFacts DEF SessionInv, SessionTypeOK
  <2>2. /\ broken' \in BOOLEAN /\ (broken => broken')
        /\ LogoutOf(t, c) # {} => broken'
    BY <1>1, Grows DEF SessionInv, SessionTypeOK
  <2> QED BY <2>1, <2>2
<1>3. /\ calls' \in [Tabs -> [Calls -> Call]] /\ calls'[t][c] = NoCall
      /\ \A u \in Tabs, d \in Calls : u # t \/ d # c => calls'[u][d] = calls[u][d]
  BY <1>1, OneCall, NoCallFacts DEF SessionInv
<1>4. SessionTypeOK'
  <2>1. storage' \in Nat
    BY <1>1 DEF SessionInv, SessionTypeOK, NoToken
  <2>2. loggedOut \in BOOLEAN
    BY DEF SessionInv, SessionTypeOK
  <2>3. loggedOut' = TRUE \/ loggedOut' = loggedOut
    BY <1>1, Zenon
  <2>4. loggedOut' \in BOOLEAN
    BY <2>2, <2>3, Zenon
  <2> QED BY <1>1, <1>2, <1>3, <2>1, <2>4 DEF SessionInv, SessionTypeOK
<1>5. NoCallStranded'
  BY <1>1, OneCallStranded, NoCallFacts DEF SessionInv
<1>6. ASSUME ~raced
      PROVE  OneAtATime' /\ TokensAgree'
  <2>1. OneAtATime /\ TokensAgree
    BY <1>6 DEF SessionInv
  <2>2. OneAtATime'
    <3>1. \A u \in Tabs, d \in Calls :
             calls'[u][d].logout => calls[u][d].logout /\ calls'[u][d] = calls[u][d]
      BY <1>3, NoCallFacts
    <3>2. \A u \in Tabs : LoggingOut(u)' => LoggingOut(u)
      BY <3>1 DEF LoggingOut
    <3> QED BY <1>1, <2>1, <3>1, <3>2 DEF OneAtATime, Refreshing
  <2>3. CASE calls[t][c].logout
    <3>1. \A u \in Tabs : ~Refreshing(u)
      BY <2>1, <2>3 DEF OneAtATime
    <3>2. \A u \in Tabs : signIn[u] = NoSignIn
      BY <2>1, <2>3 DEF OneAtATime, LoggingOut
    <3> QED BY <1>1, <1>2, <2>3, <2>2, <3>1, <3>2 DEF TokensAgree, HashAgrees, Refreshing
  <2>4. CASE ~calls[t][c].logout
    BY <1>1, <1>2, <1>3, <2>1, <2>2, <2>4, NoCallFacts DEF TokensAgree, HashAgrees, Refreshing
  <2> QED BY <2>2, <2>3, <2>4
<1>7. NothingLeft'
  BY <1>1, <1>2 DEF SessionInv, NothingLeft
<1>8. SessionKept'
  BY <1>1, <1>2 DEF SessionInv, SessionKept
<1> QED BY <1>1, <1>4, <1>5, <1>6, <1>7, <1>8 DEF SessionInv

LEMMA QueueKeeps ==
    ASSUME SessionInv, NEW t \in Tabs, NEW c \in Calls, Queue(t, c)
    PROVE  SessionInv'
<1> DEFINE call == [calls[t][c] EXCEPT !.pc = "queued"]
<1>1. /\ call \in Call /\ call.pc = "queued" /\ call.logout = calls[t][c].logout
      /\ calls[t][c].pc = "401" /\ Refreshing(t)
  BY DEF Call, SessionInv, SessionTypeOK, Queue, NotRefreshing, Refreshing
<1>2. /\ SetCall(t, c, call)
      /\ UNCHANGED <<clock, hash, storage, refresh, signIn, abandoned, raced, thrown, broken,
                     loggedOut>>
  BY DEF Queue
<1> HIDE DEF call
<1>3. /\ calls' \in [Tabs -> [Calls -> Call]] /\ calls'[t][c] = call
      /\ \A u \in Tabs, d \in Calls : u # t \/ d # c => calls'[u][d] = calls[u][d]
  BY <1>1, <1>2, OneCall DEF SessionInv
<1>4. SessionTypeOK'
  BY <1>2, <1>3 DEF SessionInv, SessionTypeOK
<1>5. NoCallStranded'
  BY <1>1, <1>2, OneCallStranded DEF SessionInv
<1>6. ASSUME ~raced
      PROVE  OneAtATime' /\ TokensAgree'
  <2>1. OneAtATime /\ TokensAgree
    BY <1>6 DEF SessionInv
  <2>2. ~calls[t][c].logout
    BY <1>1, <2>1 DEF OneAtATime
  <2>3. OneAtATime'
    BY <1>1, <1>2, <1>3, <2>1, <2>2 DEF OneAtATime, Refreshing, LoggingOut
  <2>4. TokensAgree'
    BY <1>1, <1>2, <1>3, <2>1, <2>2 DEF TokensAgree, HashAgrees, Refreshing
  <2> QED BY <2>3, <2>4
<1>7. NothingLeft'
  BY <1>2 DEF SessionInv, NothingLeft
<1> QED BY <1>2, <1>4, <1>5, <1>6, <1>7 DEF SessionInv, SessionKept

-----------------------------------------------------------------------------
\* A tab that is loaded anew, at /login or where it was

\* Its calls and its refresh are gone; the tokens are, or are as they were.
LEMMA TabLeaves ==
    ASSUME SessionInv, NEW t \in Tabs, UNCHANGED clock,
           calls' = [calls EXCEPT ![t] = [c \in Calls |-> NoCall]],
           refresh' = [refresh EXCEPT ![t] = NoRefresh],
           signIn' = signIn \/ signIn' = [signIn EXCEPT ![t] = NoSignIn],
           hash' \in Nat, raced' \in BOOLEAN, raced => raced', loggedOut' \in BOOLEAN,
           storage' \in {NoToken, storage},
           thrown' \in BOOLEAN, broken' \in BOOLEAN, broken => broken', NothingLeft',
           abandoned' \subseteq Late, ~raced' => (thrown' => broken'),
           ~raced' /\ ~broken' => hash' = hash,
           ~raced' => \/ storage' = NoToken
                      \/ /\ ~Refreshing(t) /\ ~LoggingOut(t)
                         /\ UNCHANGED loggedOut,
           storage' = NoToken => \A u \in Tabs \ {t} : ~raced' => ~Refreshing(u)
    PROVE  SessionInv'
<1>1. /\ calls' \in [Tabs -> [Calls -> Call]]
      /\ \A c \in Calls : calls'[t][c] = NoCall
      /\ \A u \in Tabs \ {t} : calls'[u] = calls[u]
      /\ refresh' \in [Tabs -> Refresh] /\ refresh'[t] = NoRefresh
      /\ \A u \in Tabs \ {t} : refresh'[u] = refresh[u]
      /\ signIn' \in [Tabs -> Nat \cup {NoSignIn}]
      /\ \A u \in Tabs : signIn'[u] \in {signIn[u], NoSignIn}
  BY NoCallFacts, NoRefreshFacts DEF SessionInv, SessionTypeOK
<1>2. SessionTypeOK'
  BY <1>1, NoRefreshFacts DEF SessionInv, SessionTypeOK, NoToken
<1>3. NoCallStranded'
  BY <1>1, NoCallFacts DEF SessionInv, NoCallStranded
<1>4. ASSUME ~raced'
      PROVE  OneAtATime' /\ TokensAgree' /\ SessionKept'
  <2>1. ~raced /\ OneAtATime /\ TokensAgree /\ SessionKept
    BY <1>4 DEF SessionInv, SessionTypeOK
  <2>2. OneAtATime'
    BY <1>1, <2>1, NoCallFacts DEF OneAtATime, Refreshing, LoggingOut
  <2>3. TokensAgree'
    <3>1. CASE storage' = NoToken
      BY <1>1, <1>4, <2>1, <3>1 DEF TokensAgree, HashAgrees, Refreshing
    <3>2. CASE storage' # NoToken
      BY <1>1, <1>4, <2>1, <3>2 DEF TokensAgree, HashAgrees, Refreshing, LoggingOut
    <3> QED BY <3>1, <3>2
  <2>4. SessionKept'
    BY <1>4, <2>1 DEF SessionKept
  <2> QED BY <2>2, <2>3, <2>4
<1> QED BY <1>2, <1>3, <1>4 DEF SessionInv, SessionKept

\* What ToLogin does to a variable of truth values.
LEMMA ToLoginFacts ==
    ASSUME NEW t, ToLogin(t)
    PROVE  loggedOut' \in BOOLEAN /\ storage' = NoToken
<1>1. loggedOut' = (loggedOut \/ LoggingOut(t))
  BY DEF ToLogin
<1>2. (loggedOut \/ LoggingOut(t)) \in BOOLEAN
  BY Zenon
<1> QED BY <1>1, <1>2, Zenon DEF ToLogin

LEMMA ReloadTabKeeps ==
    ASSUME SessionInv, NEW t \in Tabs, ReloadTab(t)
    PROVE  SessionInv'
<1> DEFINE left == RefreshOf(t) \cup SignInOf(t) \cup UNION {LogoutOf(t, c) : c \in Calls}
<1>1. /\ raced' = (raced \/ Refreshing(t) \/ LoggingOut(t) \/ signIn[t] = Sent)
      /\ UNCHANGED <<clock, hash, storage, thrown, broken, loggedOut>>
      /\ Abandon(left)
      /\ calls' = [calls EXCEPT ![t] = [c \in Calls |-> NoCall]]
      /\ refresh' = [refresh EXCEPT ![t] = NoRefresh]
      /\ signIn' = [signIn EXCEPT ![t] = NoSignIn]
  BY DEF ReloadTab, Refreshing
<1> HIDE DEF left
<1>2. raced' \in BOOLEAN /\ (raced => raced')
      /\ (~raced' => ~Refreshing(t) /\ ~LoggingOut(t) /\ signIn[t] # Sent)
  BY <1>1, Grows DEF SessionInv, SessionTypeOK
<1>3. hash' \in Nat /\ loggedOut' \in BOOLEAN /\ thrown' \in BOOLEAN /\ broken' \in BOOLEAN
  BY <1>1 DEF SessionInv, SessionTypeOK
<1>4. ~raced' => /\ ~Refreshing(t) /\ ~LoggingOut(t) /\ left = {}
                 /\ (thrown' => broken')
  <2> SUFFICES ASSUME ~raced' PROVE ~Refreshing(t) /\ ~LoggingOut(t) /\ left = {}
                                    /\ (thrown' => broken')
    OBVIOUS
  <2>1. ~raced /\ ~Refreshing(t) /\ ~LoggingOut(t) /\ signIn[t] # Sent
    BY <1>2 DEF SessionInv, SessionTypeOK
  <2>2. RefreshOf(t) = {} /\ SignInOf(t) = {} /\ \A c \in Calls : LogoutOf(t, c) = {}
    BY <2>1, RefreshOfFacts, LogoutOfFacts DEF SignInOf, LoggingOut, SessionInv
  <2> QED BY <1>1, <2>1, <2>2 DEF SessionInv, SessionKept, left
<1>6. abandoned' \subseteq Late /\ NothingLeft'
  <2>1. left \subseteq Late
    BY RefreshOfFacts, SignInOfFacts, LogoutOfFacts DEF SessionInv, left
  <2>2. abandoned' \subseteq Late /\ (abandoned' # {} => abandoned # {} \/ left # {})
    BY <1>1, <2>1, AbandonFacts DEF SessionInv, SessionTypeOK
  <2> QED BY <1>1, <1>2, <1>4, <2>2 DEF NothingLeft, SessionInv
<1>5. storage' = NoToken => \A u \in Tabs \ {t} : ~raced' => ~Refreshing(u)
  BY <1>1, <1>2 DEF SessionInv, TokensAgree, HashAgrees
<1> HIDE DEF left
<1> QED BY <1>1, <1>2, <1>3, <1>4, <1>5, <1>6, TabLeaves

LEMMA RefreshFailedKeeps ==
    ASSUME SessionInv, NEW t \in Tabs, RefreshFailed(t)
    PROVE  SessionInv'
<1> DEFINE unanswered == refresh[t].pc # "denied"
           good == unanswered /\ ~Expired(refresh[t])
<1>1. /\ broken' = (broken \/ unanswered) /\ thrown' = (thrown \/ good)
      /\ UNCHANGED <<clock, hash, signIn, raced>>
      /\ calls' = [calls EXCEPT ![t] = [c \in Calls |-> NoCall]]
      /\ refresh' = [refresh EXCEPT ![t] = NoRefresh]
      /\ storage' = NoToken /\ loggedOut' \in BOOLEAN /\ Refreshing(t)
      /\ Abandon(RefreshOf(t))
  BY ToLoginFacts, NoRefreshFacts DEF RefreshFailed, ToLogin, Refreshing
<1>2. RefreshOf(t) # {} => unanswered
  BY DEF RefreshOf
<1> HIDE DEF unanswered
<1>3. /\ broken' \in BOOLEAN /\ (broken => broken') /\ (unanswered => broken')
      /\ thrown' \in BOOLEAN
  BY <1>1, Grows DEF SessionInv, SessionTypeOK
<1>4. thrown' => thrown \/ unanswered
  BY <1>1, Zenon
<1> HIDE DEF good
<1>5. hash' \in Nat /\ raced' \in BOOLEAN
  BY <1>1 DEF SessionInv, SessionTypeOK
<1>6. \A u \in Tabs \ {t} : ~raced' => ~Refreshing(u)
  BY <1>1 DEF SessionInv, OneAtATime
<1>7. ~raced' => (thrown' => broken')
  BY <1>1, <1>3, <1>4 DEF SessionInv, SessionKept
<1>8. abandoned' \subseteq Late /\ NothingLeft'
  <2>1. abandoned' \subseteq Late /\ (abandoned' # {} => abandoned # {} \/ RefreshOf(t) # {})
    BY <1>1, RefreshOfFacts, AbandonFacts DEF SessionInv, SessionTypeOK
  <2> QED BY <1>1, <1>2, <1>3, <2>1 DEF NothingLeft, SessionInv
<1> QED BY <1>1, <1>3, <1>5, <1>6, <1>7, <1>8, TabLeaves

LEMMA StartRefreshKeeps ==
    ASSUME SessionInv, NEW t \in Tabs, NEW c \in Calls, StartRefresh(t, c)
    PROVE  SessionInv'
<1>0. ~Refreshing(t) /\ calls[t][c].pc = "401" /\ UNCHANGED <<clock, hash, signIn, abandoned, thrown, broken>>
  BY DEF StartRefresh, NotRefreshing, Refreshing
<1>1. CASE storage = NoToken /\ ToLogin(t) /\ UNCHANGED raced
  <2>1. /\ calls' = [calls EXCEPT ![t] = [d \in Calls |-> NoCall]]
        /\ refresh' = [refresh EXCEPT ![t] = NoRefresh]
        /\ storage' = NoToken /\ loggedOut' \in BOOLEAN
        /\ raced' \in BOOLEAN /\ hash' \in Nat
    BY <1>0, <1>1, ToLoginFacts DEF ToLogin, SessionInv, SessionTypeOK
  <2>2. \A u \in Tabs \ {t} : ~raced' => ~Refreshing(u)
    BY <1>1 DEF SessionInv, TokensAgree
  <2>3. /\ thrown' \in BOOLEAN /\ broken' \in BOOLEAN /\ abandoned' \subseteq Late
        /\ NothingLeft' /\ (~raced' => (thrown' => broken'))
    BY <1>0, <1>1 DEF SessionInv, SessionTypeOK, SessionKept, NothingLeft
  <2> QED BY <1>0, <1>1, <2>1, <2>2, <2>3, TabLeaves
<1>2. CASE /\ storage # NoToken
           /\ SetCall(t, c, [calls[t][c] EXCEPT !.pc = "refreshing", !.retry = TRUE])
           /\ refresh' = [refresh EXCEPT ![t] = [pc |-> "sent", token |-> storage,
                                                for |-> NoToken]]
           /\ raced' = (raced \/ OthersUnderway(t, c))
           /\ UNCHANGED <<storage, loggedOut>>
  <2> DEFINE call == [calls[t][c] EXCEPT !.pc = "refreshing", !.retry = TRUE]
             r == [pc |-> "sent", token |-> storage, for |-> NoToken]
  <2>1. /\ call \in Call /\ call.pc = "refreshing" /\ call.logout = calls[t][c].logout
        /\ r \in Refresh /\ r.pc = "sent" /\ r.token = storage
    <3>1. calls[t][c] \in Call /\ storage \in Nat
      BY DEF SessionInv, SessionTypeOK
    <3>2. /\ call \in Call /\ call.pc = "refreshing" /\ call.logout = calls[t][c].logout
      BY <3>1 DEF Call
    <3>3. /\ r \in Refresh /\ r.pc = "sent" /\ r.token = storage
      BY <3>1 DEF Refresh, NoToken
    <3> QED BY <3>2, <3>3
  <2> HIDE DEF call, r
  <2>2. /\ SetCall(t, c, call) /\ refresh' = [refresh EXCEPT ![t] = r]
    BY <1>2 DEF call, r
  <2>3. /\ calls' \in [Tabs -> [Calls -> Call]] /\ calls'[t][c] = call
        /\ \A u \in Tabs, d \in Calls : u # t \/ d # c => calls'[u][d] = calls[u][d]
    BY <2>1, <2>2, OneCall DEF SessionInv
  <2>4. /\ refresh' \in [Tabs -> Refresh] /\ refresh'[t] = r
        /\ \A u \in Tabs \ {t} : refresh'[u] = refresh[u]
        /\ refresh'[t] # NoRefresh
    BY <2>1, <2>2, NoRefreshFacts DEF SessionInv, SessionTypeOK
  <2>5. raced' \in BOOLEAN /\ (raced => raced')
    BY <1>2, Grows DEF SessionInv, SessionTypeOK
  <2>9. NothingLeft'
    BY <1>0, <2>5 DEF SessionInv, NothingLeft
  <2>6. SessionTypeOK'
    BY <1>0, <1>2, <2>1, <2>3, <2>4, <2>5 DEF SessionInv, SessionTypeOK
  <2>7. NoCallStranded'
    BY <2>1, <2>3, <2>4 DEF SessionInv, NoCallStranded
  <2>8. ASSUME ~raced'
        PROVE  OneAtATime' /\ TokensAgree' /\ SessionKept'
    <3>1. ~raced /\ OneAtATime /\ TokensAgree /\ SessionKept
      BY <1>2, <2>8 DEF SessionInv, SessionTypeOK
    <3>2. /\ \A u \in Tabs : ~Refreshing(u) /\ signIn[u] = NoSignIn
          /\ \A u \in Tabs, d \in Calls : u # t \/ d # c => ~calls[u][d].logout
      BY <1>0, <1>2, <2>8 DEF OthersUnderway, Refreshing
    <3>3. ~broken => hash = storage
      BY <1>0, <1>2, <3>1, <3>2 DEF TokensAgree, HashAgrees
    <3>4. OneAtATime'
      <4>1. \A u \in Tabs, d \in Calls :
               calls'[u][d].logout => u = t /\ d = c /\ calls'[u][d].pc = "refreshing"
        BY <2>1, <2>3, <3>2
      <4>2. \A u \in Tabs : signIn'[u] = NoSignIn /\ (Refreshing(u)' => u = t)
        BY <1>0, <2>4, <3>2 DEF Refreshing
      <4> QED BY <4>1, <4>2 DEF OneAtATime
    <3>5. TokensAgree'
      BY <1>0, <1>2, <2>1, <2>3, <2>4, <3>2, <3>3 DEF TokensAgree, HashAgrees, Refreshing
    <3> QED BY <1>0, <1>2, <3>1, <3>4, <3>5 DEF SessionKept
  <2> QED BY <2>6, <2>7, <2>8, <2>9 DEF SessionInv, SessionKept
<1> QED BY <1>1, <1>2 DEF StartRefresh

-----------------------------------------------------------------------------
\* The refresh

\* The server takes a step, which the calls do not see.
LEMMA RefreshMoves ==
    ASSUME SessionInv, NEW t \in Tabs, Refreshing(t), NEW r \in Refresh, r.pc # "idle",
           r.token = refresh[t].token, refresh' = [refresh EXCEPT ![t] = r],
           UNCHANGED <<clock, storage, calls, signIn, abandoned, raced, broken, loggedOut>>,
           hash' \in Nat, thrown' \in BOOLEAN, ~raced => (thrown' => broken),
           ~raced /\ ~broken => /\ r.pc \in {"sent", "update"} => hash' = r.token
                                /\ r.pc = "done" => hash' = r.for
    PROVE  SessionInv'
<1>1. /\ refresh' \in [Tabs -> Refresh] /\ refresh'[t] = r
      /\ \A u \in Tabs \ {t} : refresh'[u] = refresh[u]
      /\ refresh'[t] # NoRefresh
  BY NoRefreshFacts DEF SessionInv, SessionTypeOK
<1>2. \A u \in Tabs : Refreshing(u)' <=> Refreshing(u)
  BY <1>1 DEF Refreshing
<1>3. SessionTypeOK'
  BY <1>1 DEF SessionInv, SessionTypeOK
<1>4. NoCallStranded'
  BY <1>2 DEF SessionInv, NoCallStranded, Refreshing
<1>5. ASSUME ~raced
      PROVE  OneAtATime' /\ TokensAgree' /\ SessionKept'
  <2>1. OneAtATime /\ TokensAgree /\ SessionKept
    BY <1>5 DEF SessionInv
  <2>2. OneAtATime'
    <3>1. \A u \in Tabs : LoggingOut(u)' <=> LoggingOut(u)
      BY DEF LoggingOut
    <3> QED BY <1>2, <2>1, <3>1 DEF OneAtATime
  <2>3. /\ \A u \in Tabs : Refreshing(u) => u = t
        /\ \A u \in Tabs : signIn'[u] = NoSignIn
    BY <2>1 DEF OneAtATime
  <2>4. TokensAgree'
    BY <1>1, <1>2, <1>5, <2>1, <2>3 DEF TokensAgree, HashAgrees
  <2>5. SessionKept'
    BY <1>5, <2>1 DEF SessionKept
  <2> QED BY <2>2, <2>4, <2>5
<1>6. NothingLeft'
  BY DEF SessionInv, NothingLeft
<1> QED BY <1>3, <1>4, <1>5, <1>6 DEF SessionInv, SessionKept

LEMMA CheckedFacts ==
    ASSUME clock \in Nat, NEW r, r \in Refresh \cup Late
    PROVE  /\ Checked(r).pc \in {"update", "denied"} /\ Checked(r).token = r.token
           /\ Allowed(r) => Checked(r).pc = "update"
           /\ r \in Refresh => Checked(r) \in Refresh
           /\ r \in Late => Checked(r) \in Late
<1> DEFINE pc == IF Allowed(r) THEN "update" ELSE "denied"
           for == IF Allowed(r) THEN clock ELSE NoToken
<1>1. pc \in {"update", "denied"} /\ for \in Nat /\ (Allowed(r) => pc = "update")
  BY DEF NoToken
<1>2. Checked(r) = [r EXCEPT !.pc = pc, !.for = for]
  BY DEF Checked
<1> HIDE DEF pc, for
<1>3. CASE r \in Refresh
  <2>1. Checked(r).pc = pc /\ Checked(r).token = r.token /\ Checked(r) \in Refresh
    BY <1>1, <1>2, <1>3 DEF Refresh
  <2>2. r \in Late => Checked(r) \in Late
    BY <1>1, <1>2 DEF Late
  <2> QED BY <1>1, <2>1, <2>2
<1>4. CASE r \in Late
  <2>1. Checked(r).pc = pc /\ Checked(r).token = r.token /\ Checked(r) \in Late
    BY <1>1, <1>2, <1>4 DEF Late
  <2>2. r \in Refresh => Checked(r) \in Refresh
    BY <1>1, <1>2 DEF Refresh
  <2> QED BY <1>1, <2>1, <2>2
<1> QED BY <1>3, <1>4

LEMMA CheckRefreshKeeps ==
    ASSUME SessionInv, NEW t \in Tabs, CheckRefresh(t)
    PROVE  SessionInv'
<1> DEFINE r == Checked(refresh[t])
           alive == ~(Allowed(refresh[t]) \/ Expired(refresh[t]))
<1>1. /\ refresh' = [refresh EXCEPT ![t] = r]
      /\ UNCHANGED <<clock, hash, storage, calls, signIn, abandoned, raced, broken, loggedOut>>
      /\ thrown' = (thrown \/ alive)
      /\ refresh[t].pc = "sent"
  BY DEF CheckRefresh
<1>2. refresh[t] \in Refresh /\ clock \in Nat /\ hash \in Nat
  BY DEF SessionInv, SessionTypeOK
<1>3. alive => hash # refresh[t].token
  BY DEF Allowed
<1>4. Refreshing(t)
  BY <1>1, NoRefreshFacts DEF Refreshing
<1>5. ~raced /\ ~broken => hash = refresh[t].token
  BY <1>1, <1>4 DEF SessionInv, TokensAgree, HashAgrees
<1>6. /\ r \in Refresh /\ r.pc \in {"update", "denied"} /\ r.token = refresh[t].token
  BY <1>2, CheckedFacts
<1> HIDE DEF r, alive
<1>7. thrown' \in BOOLEAN /\ (thrown' => thrown \/ alive)
  <2>1. thrown' \in BOOLEAN
    BY <1>1, Grows DEF SessionInv, SessionTypeOK
  <2> QED BY <1>1, <2>1, Zenon
<1>8. ~raced => (thrown' => broken)
  BY <1>3, <1>5, <1>7 DEF SessionInv, SessionKept
<1> QED BY <1>1, <1>2, <1>4, <1>5, <1>6, <1>7, <1>8, RefreshMoves

LEMMA UpdateHashKeeps ==
    ASSUME SessionInv, NEW t \in Tabs, UpdateHash(t)
    PROVE  SessionInv'
<1> DEFINE r == [refresh[t] EXCEPT !.pc = "done"]
<1>1. /\ refresh' = [refresh EXCEPT ![t] = r] /\ hash' = refresh[t].for
      /\ UNCHANGED <<clock, storage, calls, signIn, abandoned, raced, thrown, broken, loggedOut>>
      /\ refresh[t].pc = "update"
  BY DEF UpdateHash
<1>2. refresh[t] \in Refresh /\ thrown' \in BOOLEAN
  BY <1>1 DEF SessionInv, SessionTypeOK
<1>3. Refreshing(t) /\ (~raced => (thrown' => broken))
  BY <1>1, NoRefreshFacts DEF Refreshing, SessionInv, SessionKept
<1>4. /\ r \in Refresh /\ r.pc = "done" /\ r.token = refresh[t].token
      /\ r.for = refresh[t].for /\ hash' \in Nat
  BY <1>1, <1>2 DEF Refresh
<1> HIDE DEF r
<1> QED BY <1>1, <1>2, <1>3, <1>4, RefreshMoves

\* The server finishes what the tabs no longer wait for.
LEMMA LateRequestKeeps ==
    ASSUME SessionInv, NEW r \in abandoned, LateRequest(r)
    PROVE  SessionInv'
<1>1. UNCHANGED <<clock, storage, calls, refresh, signIn, raced, thrown, broken, loggedOut>>
  BY DEF LateRequest
<1>2. /\ clock \in Nat \ {0} /\ hash \in Nat /\ abandoned \subseteq Late /\ r \in Late
      /\ r.for \in Nat /\ (raced \/ broken)
  BY DEF SessionInv, SessionTypeOK, NothingLeft, Late
<1>3. abandoned' \subseteq Late
  BY <1>2, CheckedFacts DEF LateRequest
<1>4. hash' \in Nat
  BY <1>2 DEF LateRequest, NoToken
<1>5. SessionTypeOK'
  BY <1>1, <1>3, <1>4 DEF SessionInv, SessionTypeOK
<1>6. ASSUME ~raced
      PROVE  OneAtATime' /\ TokensAgree'
  BY <1>1, <1>2, <1>6 DEF SessionInv, OneAtATime, TokensAgree, Refreshing, LoggingOut
<1> QED BY <1>1, <1>2, <1>5, <1>6 DEF SessionInv, SessionKept, NoCallStranded, NothingLeft

\* processQueue: whatever waits in the tab is sent again.
LEMMA ResendFacts ==
    ASSUME SessionTypeOK, NEW t \in Tabs, NEW token \in Nat, NEW c \in Calls
    PROVE  /\ Resend(t, token)[c] \in Call
           /\ Resend(t, token)[c].pc \notin {"queued", "refreshing"}
           /\ Resend(t, token)[c].logout = calls[t][c].logout
<1>1. calls[t][c] \in Call
  BY DEF SessionTypeOK
<1> DEFINE again == [calls[t][c] EXCEPT !.pc = "sent", !.token = token]
<1>2. again \in Call /\ again.pc = "sent" /\ again.logout = calls[t][c].logout
  BY <1>1 DEF Call
<1>3. Resend(t, token)[c] = IF calls[t][c].pc \in {"refreshing", "queued"} THEN again
                            ELSE calls[t][c]
  BY DEF Resend
<1> HIDE DEF again
<1> QED BY <1>1, <1>2, <1>3

LEMMA RefreshedKeeps ==
    ASSUME SessionInv, NEW t \in Tabs, Refreshed(t)
    PROVE  SessionInv'
<1> DEFINE token == refresh[t].for
<1>1. /\ storage' = token /\ calls' = [calls EXCEPT ![t] = Resend(t, token)]
      /\ refresh' = [refresh EXCEPT ![t] = NoRefresh]
      /\ UNCHANGED <<clock, hash, signIn, abandoned, raced, thrown, broken, loggedOut>>
      /\ refresh[t].pc = "done"
  BY DEF Refreshed
<1>2. token \in Nat /\ Refreshing(t) /\ SessionTypeOK
  BY <1>1, NoRefreshFacts DEF SessionInv, SessionTypeOK, Refresh, Refreshing
<1> HIDE DEF token
<1>3. /\ calls' \in [Tabs -> [Calls -> Call]]
      /\ \A u \in Tabs \ {t} : calls'[u] = calls[u]
      /\ \A c \in Calls : /\ calls'[t][c].pc \notin {"queued", "refreshing"}
                          /\ calls'[t][c].logout = calls[t][c].logout
  <2>1. \A c \in Calls : /\ Resend(t, token)[c] \in Call
                         /\ Resend(t, token)[c].pc \notin {"queued", "refreshing"}
                         /\ Resend(t, token)[c].logout = calls[t][c].logout
    BY <1>2, ResendFacts
  <2>2. Resend(t, token) \in [Calls -> Call]
    <3>1. Resend(t, token) = [c \in Calls |-> Resend(t, token)[c]]
      BY DEF Resend
    <3> QED BY <2>1, <3>1
  <2> QED BY <1>1, <1>2, <2>1, <2>2 DEF SessionTypeOK
<1>4. /\ refresh' \in [Tabs -> Refresh] /\ refresh'[t] = NoRefresh
      /\ \A u \in Tabs \ {t} : refresh'[u] = refresh[u]
  BY <1>1, <1>2, NoRefreshFacts DEF SessionTypeOK
<1>5. SessionTypeOK'
  BY <1>1, <1>2, <1>3, <1>4 DEF SessionTypeOK
<1>6. NoCallStranded'
  BY <1>3, <1>4 DEF SessionInv, NoCallStranded
<1>7. ASSUME ~raced
      PROVE  OneAtATime' /\ TokensAgree' /\ SessionKept'
  <2>1. OneAtATime /\ TokensAgree /\ SessionKept
    BY <1>7 DEF SessionInv
  <2>2. \A u \in Tabs : ~Refreshing(u)' /\ signIn'[u] = NoSignIn
    BY <1>1, <1>2, <1>4, <2>1 DEF OneAtATime, Refreshing
  <2>3. \A u \in Tabs, c \in Calls : calls'[u][c].logout = calls[u][c].logout
    BY <1>3
  <2>4. OneAtATime'
    BY <2>1, <2>2, <2>3 DEF OneAtATime
  <2>5. (~broken => hash' = storage') /\ storage # NoToken
    BY <1>1, <1>2, <2>1 DEF TokensAgree, HashAgrees, token
  <2>6. TokensAgree'
    BY <1>1, <2>2, <2>5 DEF TokensAgree, HashAgrees
  <2>7. SessionKept'
    BY <1>1, <2>1, <2>5 DEF SessionKept
  <2> QED BY <2>4, <2>6, <2>7
<1>8. NothingLeft'
  BY <1>1 DEF SessionInv, NothingLeft
<1> QED BY <1>1, <1>5, <1>6, <1>7, <1>8 DEF SessionInv, SessionKept

-----------------------------------------------------------------------------
\* The sign in

\* The sign in of tab t moves, which neither the calls nor the refreshes see.
LEMMA SignInMoves ==
    ASSUME SessionInv, NEW t \in Tabs, NEW at \in Nat \cup {NoSignIn},
           signIn' = [signIn EXCEPT ![t] = at], UNCHANGED <<clock, calls, refresh>>,
           raced' \in BOOLEAN, raced => raced', hash' \in Nat, storage' \in Nat,
           loggedOut' \in BOOLEAN, thrown' \in BOOLEAN, broken' \in BOOLEAN,
           abandoned' \subseteq Late, NothingLeft', ~raced' => (thrown' => broken'),
           ~raced' =>
              /\ \A u \in Tabs : ~Refreshing(u) /\ ~LoggingOut(u)
              /\ \A u \in Tabs \ {t} : signIn[u] = NoSignIn
              /\ loggedOut' => storage' = NoToken
              /\ at # NoSignIn => storage' = NoToken,
           ~raced' /\ ~broken' =>
              /\ storage' # NoToken => hash' = storage'
              /\ at \notin {NoSignIn, Sent} => hash' = at
    PROVE  SessionInv'
<1>1. /\ signIn' \in [Tabs -> Nat \cup {NoSignIn}] /\ signIn'[t] = at
      /\ \A u \in Tabs \ {t} : signIn'[u] = signIn[u]
  BY DEF SessionInv, SessionTypeOK
<1>2. SessionTypeOK'
  BY <1>1 DEF SessionInv, SessionTypeOK
<1>3. NoCallStranded'
  BY DEF SessionInv, NoCallStranded
<1>4. ASSUME ~raced'
      PROVE  OneAtATime' /\ TokensAgree' /\ SessionKept'
  <2>1. ~raced /\ OneAtATime /\ SessionKept
    BY <1>4 DEF SessionInv, SessionTypeOK
  <2>2. \A u \in Tabs : ~Refreshing(u)' /\ ~LoggingOut(u)'
    BY <1>4 DEF Refreshing, LoggingOut
  <2>3. \A u \in Tabs : signIn'[u] # NoSignIn => u = t
    BY <1>1, <1>4
  <2>4. OneAtATime'
    BY <2>1, <2>2, <2>3 DEF OneAtATime
  <2>5. TokensAgree'
    BY <1>1, <1>4, <2>2, <2>3 DEF TokensAgree, HashAgrees
  <2>6. SessionKept'
    BY <1>4, <2>1 DEF SessionKept
  <2> QED BY <2>4, <2>5, <2>6
<1> QED BY <1>2, <1>3, <1>4 DEF SessionInv, SessionKept

\* While a sign in is under way, nothing else is that changes the session.
LEMMA SignInAlone ==
    ASSUME SessionInv, NEW t \in Tabs, signIn[t] # NoSignIn, ~raced
    PROVE  /\ \A u \in Tabs : ~Refreshing(u) /\ ~LoggingOut(u)
           /\ \A u \in Tabs \ {t} : signIn[u] = NoSignIn
           /\ storage = NoToken
           /\ ~broken /\ signIn[t] # Sent => hash = signIn[t]
BY DEF SessionInv, OneAtATime, TokensAgree, HashAgrees

LEMMA SignInsKeep ==
    ASSUME SessionInv, NEW t \in Tabs,
           SignIn(t) \/ ServeSignIn(t) \/ SignedIn(t) \/ SignInFailed(t)
    PROVE  SessionInv'
<1>1. /\ clock \in Nat \ {0} /\ hash \in Nat /\ storage \in Nat
      /\ raced \in BOOLEAN /\ loggedOut \in BOOLEAN /\ thrown \in BOOLEAN
      /\ broken \in BOOLEAN /\ abandoned \subseteq Late
      /\ signIn[t] \in Nat \cup {NoSignIn}
      /\ NothingLeft /\ (~raced => (thrown => broken) /\ (loggedOut => storage = NoToken))
  BY DEF SessionInv, SessionTypeOK, SessionKept
<1>2. Sent = 0 /\ NoToken = 0 /\ NoSignIn = 0 - 1
  BY DEF Sent, NoToken, NoSignIn
<1>3. CASE SignIn(t)
  <2> DEFINE overlap == \E u \in Tabs : \/ refresh[u] # NoRefresh \/ LoggingOut(u)
                                        \/ signIn[u] # NoSignIn
  <2>1. /\ signIn' = [signIn EXCEPT ![t] = Sent] /\ storage = NoToken
        /\ UNCHANGED <<clock, hash, storage, calls, refresh, abandoned, loggedOut>>
        /\ raced' = (raced \/ overlap)
        /\ broken' = (broken /\ abandoned # {}) /\ thrown' = (thrown /\ abandoned # {})
    BY <1>3 DEF SignIn, AtLogin
  <2>2. raced' \in BOOLEAN /\ (raced => raced') /\ (~raced' => ~raced /\ ~overlap)
    BY <1>1, <2>1, Grows
  <2>3. ~raced' => /\ \A u \in Tabs : ~Refreshing(u) /\ ~LoggingOut(u)
                   /\ \A u \in Tabs \ {t} : signIn[u] = NoSignIn
    BY <2>2 DEF Refreshing
  <2> HIDE DEF overlap
  <2>4. /\ broken' \in BOOLEAN /\ thrown' \in BOOLEAN
        /\ (broken' <=> broken /\ abandoned # {}) /\ (thrown' <=> thrown /\ abandoned # {})
    <3>1. (broken /\ abandoned # {}) \in BOOLEAN /\ (thrown /\ abandoned # {}) \in BOOLEAN
      BY Zenon
    <3> QED BY <2>1, <3>1, Zenon
  <2>5. NothingLeft' /\ (~raced' => (thrown' => broken'))
    BY <1>1, <2>1, <2>2, <2>4 DEF NothingLeft
  <2>6. ~raced' => (loggedOut' => storage' = NoToken)
    BY <2>1
  <2> QED BY <1>1, <1>2, <2>1, <2>2, <2>3, <2>4, <2>5, <2>6, SignInMoves
<1>4. CASE ServeSignIn(t)
  <2>1. /\ signIn' = [signIn EXCEPT ![t] = clock] /\ hash' = clock
        /\ UNCHANGED <<clock, storage, calls, refresh, abandoned, raced, thrown, broken,
                       loggedOut>>
        /\ signIn[t] # NoSignIn
    BY <1>2, <1>4 DEF ServeSignIn
  <2>2. ~raced => /\ \A u \in Tabs : ~Refreshing(u) /\ ~LoggingOut(u)
                  /\ \A u \in Tabs \ {t} : signIn[u] = NoSignIn
                  /\ storage = NoToken
    BY <2>1, SignInAlone
  <2>3. NothingLeft'
    BY <1>1, <2>1 DEF NothingLeft
  <2> QED BY <1>1, <2>1, <2>2, <2>3, SignInMoves
<1>5. CASE SignedIn(t)
  <2>1. /\ signIn[t] > Sent /\ storage' = signIn[t] /\ loggedOut' = FALSE
        /\ signIn' = [signIn EXCEPT ![t] = NoSignIn]
        /\ UNCHANGED <<clock, hash, calls, refresh, abandoned, raced, thrown, broken>>
    BY <1>5 DEF SignedIn
  <2>2. signIn[t] \notin {NoSignIn, Sent} /\ signIn[t] \in Nat
    BY <1>1, <1>2, <2>1
  <2>3. ~raced => /\ \A u \in Tabs : ~Refreshing(u) /\ ~LoggingOut(u)
                  /\ \A u \in Tabs \ {t} : signIn[u] = NoSignIn
                  /\ ~broken => hash = signIn[t]
    BY <2>2, SignInAlone
  <2>4. loggedOut' \in BOOLEAN /\ ~loggedOut' /\ raced' \in BOOLEAN
    BY <1>1, <2>1
  <2>5. NoSignIn \in Nat \cup {NoSignIn}
    OBVIOUS
  <2>6. NothingLeft'
    BY <1>1, <2>1 DEF NothingLeft
  <2> QED BY <1>1, <2>1, <2>2, <2>3, <2>4, <2>5, <2>6, SignInMoves
<1>6. CASE SignInFailed(t)
  <2>1. /\ signIn[t] # NoSignIn /\ signIn' = [signIn EXCEPT ![t] = NoSignIn]
        /\ UNCHANGED <<clock, hash, storage, calls, refresh, raced, thrown, loggedOut>>
    BY <1>6 DEF SignInFailed
  <2>2. /\ broken' \in BOOLEAN /\ (broken => broken')
        /\ abandoned' \subseteq Late /\ (abandoned' # {} => abandoned # {} \/ broken')
    <3>1. CASE UNCHANGED <<abandoned, broken>>
      BY <1>1, <3>1
    <3>2. CASE Abandon(SignInOf(t)) /\ broken' = (broken \/ SignInOf(t) # {})
      <4>1. abandoned' \subseteq Late /\ (abandoned' # {} => abandoned # {} \/ SignInOf(t) # {})
        BY <1>1, <3>2, SignInOfFacts, AbandonFacts
      <4>2. /\ broken' \in BOOLEAN /\ (broken => broken')
            /\ SignInOf(t) # {} => broken'
        BY <1>1, <3>2, Grows
      <4> QED BY <4>1, <4>2
    <3> QED BY <1>6, <3>1, <3>2 DEF SignInFailed
  <2>3. NothingLeft' /\ (~raced' => (thrown' => broken'))
    BY <1>1, <2>1, <2>2 DEF NothingLeft
  <2>4. ~raced => /\ \A u \in Tabs : ~Refreshing(u) /\ ~LoggingOut(u)
                  /\ \A u \in Tabs \ {t} : signIn[u] = NoSignIn
                  /\ storage = NoToken
    BY <2>1, SignInAlone
  <2> QED BY <1>1, <1>2, <2>1, <2>2, <2>3, <2>4, SignInMoves
<1> QED BY <1>3, <1>4, <1>5, <1>6

LEMMA ElsewhereKeeps == SessionInv /\ Elsewhere => SessionInv'
BY DEF Elsewhere, SessionInv, SessionTypeOK, SessionKept, NoCallStranded, NoToken, NothingLeft

LEMMA TickKeeps == SessionInv /\ Tick => SessionInv'
<1> SUFFICES ASSUME SessionInv, Tick PROVE SessionInv'
  OBVIOUS
<1>1. UNCHANGED <<hash, storage, calls, refresh, signIn, abandoned, raced, thrown, broken,
                  loggedOut>>
      /\ clock' = clock + 1
  BY DEF Tick
<1>2. SessionTypeOK'
  BY <1>1 DEF SessionInv, SessionTypeOK
<1> QED BY <1>1, <1>2 DEF SessionInv, OneAtATime, TokensAgree, HashAgrees, SessionKept,
        NoCallStranded, NothingLeft, Refreshing, LoggingOut

-----------------------------------------------------------------------------
\* The invariant

LEMMA InitSessionInv == SessionInit => SessionInv
<1> SUFFICES ASSUME SessionInit PROVE SessionInv
  OBVIOUS
<1>1. SessionTypeOK
  <2>1. calls \in [Tabs -> [Calls -> Call]] /\ refresh \in [Tabs -> Refresh]
    BY NoCallFacts, NoRefreshFacts DEF SessionInit
  <2>2. /\ raced \in BOOLEAN /\ thrown \in BOOLEAN /\ broken \in BOOLEAN
        /\ loggedOut \in BOOLEAN /\ abandoned \subseteq Late
    BY DEF SessionInit
  <2> QED BY <2>1, <2>2 DEF SessionInit, SessionTypeOK
<1>2. /\ \A t \in Tabs : ~Refreshing(t) /\ ~LoggingOut(t) /\ signIn[t] = NoSignIn
      /\ \A t \in Tabs, c \in Calls : calls[t][c].pc = "idle" /\ ~calls[t][c].logout
  BY NoCallFacts DEF SessionInit, Refreshing, LoggingOut
<1>3. OneAtATime /\ TokensAgree
  BY <1>2 DEF SessionInit, OneAtATime, TokensAgree, HashAgrees
<1>4. SessionKept /\ NoCallStranded /\ NothingLeft
  BY <1>2 DEF SessionInit, SessionKept, NoCallStranded, NothingLeft
<1> QED BY <1>1, <1>3, <1>4 DEF SessionInv

LEMMA StepSessionInv == SessionInv /\ [SessionNext]_sessionVars => SessionInv'
<1> SUFFICES ASSUME SessionInv, [SessionNext]_sessionVars PROVE SessionInv'
  OBVIOUS
<1>1. ASSUME NEW t \in Tabs, NEW c \in Calls, Answered(t, c) \/ Rejected(t, c)
      PROVE  SessionInv'
  BY <1>1, SettleKeeps DEF Answered, Rejected
<1>2. CASE UNCHANGED sessionVars
  BY <1>2 DEF sessionVars, SessionInv, SessionTypeOK, OneAtATime, TokensAgree, HashAgrees, SessionKept,
     NoCallStranded, NothingLeft, Refreshing, LoggingOut
<1> QED BY <1>1, <1>2, SendKeeps, ServeKeeps, QueueKeeps, StartRefreshKeeps,
        CheckRefreshKeeps, LateRequestKeeps, UpdateHashKeeps, RefreshedKeeps, RefreshFailedKeeps, SignInsKeep,
        ReloadTabKeeps, ElsewhereKeeps, TickKeeps DEF SessionNext

\* In however many tabs, a session ends by itself only when its refresh token has
\* expired or a request that changes the tokens failed without being refused, and a
\* log out leaves no token, unless two tabs or browsers change the session at once
\* or a page is left while it does (the interceptor of axios.instance.ts against
\* refreshTokens, signIn and logout of the auth service).
THEOREM SessionTheorem == SessionSpec => []SessionKept
<1>1. SessionInv => SessionKept
  BY DEF SessionInv
<1> QED BY <1>1, InitSessionInv, StepSessionInv, PTL DEF SessionSpec

\* Whatever races, no call is left waiting for tokens that no refresh will bring
\* (isRefreshing and failedQueue of axios.instance.ts).
THEOREM StrandedTheorem == SessionSpec => []NoCallStranded
<1>1. SessionInv => NoCallStranded
  BY DEF SessionInv
<1> QED BY <1>1, InitSessionInv, StepSessionInv, PTL DEF SessionSpec

-----------------------------------------------------------------------------
\* The orders on screen

Taken == {"ACCEPTED", "READY_FOR_DELIVERY"}

OrderRow == [status : {"UNPLACED", "GONE", "PENDING"} \cup Taken, courier : BOOLEAN]

OrderMessage == [type : {"created", "updated", "removed"}, id : Orders, row : OrderRow]

RequestOf ==
    [kind : {"fetch", "cancel", "status", "assign"}, id : Orders \cup {"none"}, row : OrderRow,
     state : {"sent", "written", "ok"}, rows : [Orders -> Seq(OrderRow)],
     then : {"none", "refetch", "restore"}]

RequestOK(r) ==
    /\ r.kind = "cancel" <=> r.then # "none"
    /\ r.kind # "fetch" => r.id \in Orders
    /\ r.kind \in {"status", "assign"} /\ r.state # "sent" => r.row.status \in Taken

GoodRequests == {r \in RequestOf : RequestOK(r)}

ListTypes ==
    /\ server \in [Orders -> OrderRow]
    /\ feed \in Seq(OrderMessage) /\ emitted \in 0..Len(feed)
    /\ list \in [Orders -> Seq(OrderRow)] /\ requests \in Seq(GoodRequests)
    /\ pending = NoPending \/ pending \in [id : Orders, row : OrderRow]
    /\ crossed \subseteq Orders

\* The rows the list should have of an order whose row is s.
ShownAs(s) == IF s.status \in {"PENDING"} \cup Taken THEN <<s>> ELSE <<>>

Heard(f, o) == \E k \in DOMAIN f : f[k].id = o
HeardOf(f, o, type) == \E k \in DOMAIN f : f[k].id = o /\ f[k].type = type

\* What is still to come of an order whose row is s: what it has become comes last, that
\* it was placed comes first, and that it is gone is the end.
Tells(f, o, s) ==
    /\ \A k \in DOMAIN f : f[k].id = o =>
          /\ (\A j \in DOMAIN f : f[j].id = o => j <= k) =>
                f[k].row = s /\ (f[k].type = "created" => s.status = "PENDING")
          /\ f[k].type = "removed" => s.status = "GONE"
          /\ f[k].type = "updated" => s.status \in Taken
          /\ s.status = "PENDING" => f[k].type = "created"
          /\ s.status # "UNPLACED"
          /\ \A j \in DOMAIN f : f[j].id = o /\ j < k =>
                f[k].type # "created" /\ f[j].type # "removed"

\* Once the messages f have come, rows will be what the list should show.
Replays(f, o, s, rows) ==
    /\ Len(rows) <= 1
    /\ ~Heard(f, o) => rows = ShownAs(s)
    /\ Heard(f, o) /\ s.status = "PENDING" => rows \in {<<>>, <<s>>}
    /\ Heard(f, o) /\ s.status \in Taken => rows # <<>> \/ HeardOf(f, o, "created")

\* The row an answer brings of a change is the last one, or another one comes after it.
Latest(row, f, o, s) ==
    /\ row.status \in Taken
    /\ IF Heard(f, o) THEN s.status # "PENDING" ELSE row = s

\* What is to come leads to t where it led to s.
Carries(f, g, o, s, t) ==
    /\ Tells(g, o, t)
    /\ \A rows : Replays(f, o, s, rows) => Replays(g, o, t, rows)
    /\ \A row : Latest(row, f, o, s) => Latest(row, g, o, t)

IsCancel(r, o) == r.kind = "cancel" /\ r.state = "sent" /\ r.id = o
CancelIn(q, o) == \E i \in DOMAIN q : IsCancel(q[i], o)
FetchIn(s)      == \E i \in DOMAIN s : s[i].kind = "fetch"

\* What will be shown of an order, or would be if it were not cancelled.  It is cancelled
\* by one at a time, and not shown meanwhile.
Kept(q, f, o, s, rows, p) ==
    /\ CancelIn(q, o) \/ p.id = o => rows = <<>>
    /\ p.id = o => ~CancelIn(q, o) /\ Replays(f, o, s, <<p.row>>)
    /\ \A i, j \in DOMAIN q : IsCancel(q[i], o) /\ IsCancel(q[j], o) => i = j
    /\ \A i \in DOMAIN q : IsCancel(q[i], o) /\ q[i].then = "restore" =>
          Replays(f, o, s, <<q[i].row>>)
    /\ ~CancelIn(q, o) /\ p.id # o => Replays(f, o, s, rows)

\* What an answer brings of an order: the rows as the server read them, to which the
\* messages are still to come; or a change, the last one or one that another follows.
Brings(r, f, o, s) ==
    r.state = "ok" =>
        /\ r.kind = "fetch" => Replays(f, o, s, r.rows[o])
        /\ r.kind \in {"status", "assign"} /\ r.id = o => Latest(r.row, f, o, s)

OnScreen == mounted /\ ~FetchIn(requests) /\ (~error \/ pending # NoPending)

ListInv ==
    /\ ListTypes
    /\ \A o \in Orders \ crossed : Tells(feed, o, server[o])
    /\ \A o \in Orders \ crossed : \A i \in DOMAIN requests :
          Brings(requests[i], feed, o, server[o])
    /\ OnScreen => \A o \in Orders \ crossed :
          Kept(requests, feed, o, server[o], list[o], pending)

-----------------------------------------------------------------------------
\* The statuses, in their order

LEMMA StatusSet ==
    /\ ToSet(Status) = {"PENDING"} \cup Taken
    /\ \A from, to : Follows(from, to) => from \in {"PENDING"} \cup Taken /\ to \in Taken
<1>1. Status[1] = "PENDING" /\ Status[2] = "ACCEPTED" /\ Status[3] = "READY_FOR_DELIVERY"
      /\ DOMAIN Status = {1, 2, 3}
  BY DEF Status
<1>2. ToSet(Status) = {"PENDING"} \cup Taken
  BY <1>1 DEF ToSet, Taken
<1>3. \A from, to : Follows(from, to) => \E i \in {1, 2} : from = Status[i] /\ to = Status[i + 1]
  BY DEF Follows
<1>4. \A from, to : Follows(from, to) => from \in {"PENDING"} \cup Taken /\ to \in Taken
  BY <1>1, <1>3 DEF Taken
<1> QED BY <1>2, <1>4

LEMMA RowsShown ==
    ASSUME ListTypes, NEW o \in Orders
    PROVE  Rows[o] = ShownAs(server[o]) /\ ShownAs(server[o]) \in Seq(OrderRow)
           /\ Len(ShownAs(server[o])) <= 1
<1>1. server[o] \in OrderRow
  BY DEF ListTypes
<1>2. /\ <<>> \in Seq(OrderRow) /\ Len(<<>>) = 0
      /\ <<server[o]>> \in Seq(OrderRow) /\ Len(<<server[o]>>) = 1
  BY <1>1, EmptySeq, OneAlone
<1> QED BY <1>2, StatusSet DEF Rows, Exists, ShownAs

\* The changes the server makes.
Becomes(s, type, row) ==
    /\ row \in OrderRow
    /\ \/ type = "created" /\ s.status = "UNPLACED" /\ row.status = "PENDING"
       \/ type = "updated" /\ s.status \in {"PENDING"} \cup Taken /\ row.status \in Taken
       \/ type = "removed" /\ s.status = "PENDING" /\ row.status = "GONE"

\* A change and its message.
LEMMA ToldOf ==
    ASSUME NEW f \in Seq(OrderMessage), NEW o \in Orders, NEW s \in OrderRow,
           Tells(f, o, s), NEW type, NEW row, Becomes(s, type, row)
    PROVE  LET g == Append(f, [type |-> type, id |-> o, row |-> row])
           IN  /\ g \in Seq(OrderMessage) /\ HeardOf(g, o, type)
               /\ Carries(f, g, o, s, row)
<1> DEFINE m == [type |-> type, id |-> o, row |-> row]
           g == Append(f, m)
           n == Len(f) + 1
<1>1. m \in OrderMessage /\ m.type = type /\ m.id = o /\ m.row = row
  BY DEF Becomes, OrderMessage
<1> HIDE DEF m
<1>2. /\ g \in Seq(OrderMessage) /\ DOMAIN g = DOMAIN f \cup {n} /\ g[n] = m
      /\ \A j \in DOMAIN f : j \in Nat /\ j < n /\ g[j] = f[j]
      /\ n \in Nat
  BY <1>1, OneMore, LenProperties
<1> HIDE DEF g, n
<1>3. HeardOf(g, o, type) /\ Heard(g, o)
  BY <1>1, <1>2 DEF HeardOf, Heard
<1>4. Tells(g, o, row)
  <2> SUFFICES ASSUME NEW k \in DOMAIN g, g[k].id = o
               PROVE  /\ (\A j \in DOMAIN g : g[j].id = o => j <= k) =>
                            g[k].row = row /\ (g[k].type = "created" => row.status = "PENDING")
                      /\ g[k].type = "removed" => row.status = "GONE"
                      /\ g[k].type = "updated" => row.status \in Taken
                      /\ row.status = "PENDING" => g[k].type = "created"
                      /\ row.status # "UNPLACED"
                      /\ \A j \in DOMAIN g : g[j].id = o /\ j < k =>
                            g[k].type # "created" /\ g[j].type # "removed"
    BY DEF Tells
  <2>1. row.status # "UNPLACED"
    BY DEF Becomes, Taken
  <2>2. CASE k = n
    <3>1. \A j \in DOMAIN g : g[j].id = o /\ j < k => g[k].type # "created" /\ g[j].type # "removed"
      <4> SUFFICES ASSUME NEW j \in DOMAIN g, g[j].id = o, j < k
                   PROVE  g[k].type # "created" /\ g[j].type # "removed"
        OBVIOUS
      <4>1. j \in DOMAIN f /\ f[j].id = o /\ f[j] = g[j]
        BY <1>2, <2>2
      <4>2. s.status # "UNPLACED" /\ (f[j].type = "removed" => s.status = "GONE")
        BY <4>1 DEF Tells
      <4> QED BY <1>1, <1>2, <2>2, <4>1, <4>2 DEF Becomes, Taken
    <3> QED BY <1>1, <1>2, <2>1, <2>2, <3>1 DEF Becomes, Taken
  <2>3. CASE k # n
    <3>1. k \in DOMAIN f /\ g[k] = f[k] /\ f[k].id = o /\ k < n
      BY <1>2, <2>3
    <3>2. ~(\A j \in DOMAIN g : g[j].id = o => j <= k)
      BY <1>1, <1>2, <3>1
    <3>3. /\ f[k].type = "removed" => s.status = "GONE"
          /\ f[k].type = "updated" => s.status \in Taken
          /\ s.status = "PENDING" => f[k].type = "created"
          /\ s.status # "UNPLACED"
          /\ \A j \in DOMAIN f : f[j].id = o /\ j < k => f[k].type # "created" /\ f[j].type # "removed"
      BY <3>1 DEF Tells
    <3>4. \A j \in DOMAIN g : j < k => j \in DOMAIN f /\ g[j] = f[j]
      BY <1>2, <3>1
    <3>5. s.status \in {"PENDING"} \cup Taken /\ row.status \in Taken \cup {"GONE"}
      BY <3>3 DEF Becomes
    <3> QED BY <2>1, <3>1, <3>2, <3>3, <3>4, <3>5 DEF Becomes, Taken
  <2> QED BY <2>2, <2>3
<1>5. ASSUME NEW rows, Replays(f, o, s, rows)
      PROVE  Replays(g, o, row, rows)
  <2>1. HeardOf(f, o, "created") => HeardOf(g, o, "created")
    BY <1>2 DEF HeardOf
  <2>2. CASE type = "created"
    <3>1. ~Heard(f, o) /\ s.status = "UNPLACED" /\ row.status = "PENDING"
      BY <2>2 DEF Becomes, Tells, Heard
    <3>2. rows = <<>>
      BY <1>5, <3>1 DEF Replays, ShownAs, Taken
    <3> QED BY <1>3, <1>5, <3>1, <3>2 DEF Replays, Taken
  <2>3. CASE type = "updated"
    <3>1. s.status \in {"PENDING"} \cup Taken /\ row.status \in Taken
      BY <2>3 DEF Becomes
    <3>2. rows # <<>> \/ HeardOf(f, o, "created")
      <4>1. CASE ~Heard(f, o)
        BY <1>5, <3>1, <4>1, OneAlone DEF Replays, ShownAs
      <4>2. CASE Heard(f, o) /\ s.status = "PENDING"
        BY <4>2 DEF Heard, HeardOf, Tells
      <4>3. CASE Heard(f, o) /\ s.status \in Taken
        BY <1>5, <4>3 DEF Replays
      <4> QED BY <3>1, <4>1, <4>2, <4>3
    <3> QED BY <1>3, <1>5, <2>1, <3>1, <3>2 DEF Replays, Taken
  <2>4. CASE type = "removed"
    <3>1. row.status = "GONE"
      BY <2>4 DEF Becomes
    <3> QED BY <1>3, <1>5, <3>1 DEF Replays, Taken
  <2> QED BY <2>2, <2>3, <2>4 DEF Becomes
<1>6. Append(f, [type |-> type, id |-> o, row |-> row]) = g
  BY DEF g, m
<1>7. ASSUME NEW any, Latest(any, f, o, s)
      PROVE  Latest(any, g, o, row)
  <2>1. s.status # "UNPLACED" /\ any.status \in Taken
    BY <1>7 DEF Latest, Heard, Tells, Taken
  <2>2. row.status # "PENDING"
    BY <2>1 DEF Becomes, Taken
  <2> QED BY <1>3, <2>1, <2>2 DEF Latest
<1> QED BY <1>2, <1>3, <1>4, <1>5, <1>6, <1>7 DEF Carries

\* What is shown of an order when the messages about it that are not it are let through.
LEMMA ToldOfOthers ==
    ASSUME NEW f \in Seq(OrderMessage), NEW m \in OrderMessage, NEW o, o # m.id, NEW s
    PROVE  LET g == Append(f, m)
           IN  Tells(f, o, s) => Carries(f, g, o, s, s)
<1> DEFINE g == Append(f, m)
<1>1. /\ \A j \in DOMAIN f : j \in DOMAIN g /\ g[j] = f[j]
      /\ \A j \in DOMAIN g : g[j].id = o => j \in DOMAIN f
  BY OneMore
<1> HIDE DEF g
<1>2. /\ \A type : HeardOf(f, o, type) <=> HeardOf(g, o, type)
      /\ Heard(f, o) <=> Heard(g, o)
  BY <1>1 DEF HeardOf, Heard
<1>3. Tells(f, o, s) => Tells(g, o, s)
  BY <1>1 DEF Tells
<1>4. \A rows : Replays(f, o, s, rows) => Replays(g, o, s, rows)
  BY <1>2 DEF Replays
<1>5. \A row : Latest(row, f, o, s) => Latest(row, g, o, s)
  BY <1>2 DEF Latest
<1>6. Tells(f, o, s) => Carries(f, g, o, s, s)
  BY <1>3, <1>4, <1>5 DEF Carries
<1> QED BY <1>6 DEF g

\* The rows of an order once a message about it is taken in.
TakenIn(m, rows) ==
    IF m.type = "created" THEN IF rows = <<>> THEN <<m.row>> ELSE rows
    ELSE IF m.type = "updated" THEN IF rows = <<>> THEN rows ELSE [rows EXCEPT ![1] = m.row]
    ELSE <<>>

LEMMA TakenInRows ==
    ASSUME NEW m \in OrderMessage, NEW rows \in Seq(OrderRow)
    PROVE  /\ TakenIn(m, rows) \in Seq(OrderRow)
           /\ Len(rows) <= 1 => Len(TakenIn(m, rows)) <= 1
           /\ rows # <<>> /\ m.type # "removed" => TakenIn(m, rows) # <<>>
           /\ Len(rows) <= 1 /\ rows # <<>> /\ m.type = "updated" => TakenIn(m, rows) = <<m.row>>
<1>1. m.row \in OrderRow /\ <<>> \in Seq(OrderRow) /\ Len(<<>>) = 0
  BY EmptySeq DEF OrderMessage
<1>2. <<m.row>> \in Seq(OrderRow) /\ Len(<<m.row>>) = 1 /\ <<m.row>> # <<>>
  BY <1>1, OneAlone
<1>3. CASE m.type = "updated" /\ rows # <<>>
  <2> DEFINE new == [rows EXCEPT ![1] = m.row]
  <2>1. Len(rows) \in Nat \ {0} /\ DOMAIN rows = 1..Len(rows)
    BY <1>3, EmptySeq, LenProperties
  <2>2. 1 \in 1..Len(rows)
    BY <2>1
  <2>3. new \in Seq(OrderRow) /\ Len(new) = Len(rows) /\ new[1] = m.row
    BY <1>1, <2>2, ExceptSeq
  <2>4. TakenIn(m, rows) = new
    BY <1>3 DEF TakenIn
  <2> HIDE DEF new
  <2>5. new # <<>>
    BY <1>1, <2>1, <2>3
  <2>6. Len(rows) <= 1 => new = <<m.row>>
    BY <2>3, <2>5, OneRow
  <2> QED BY <1>3, <2>1, <2>3, <2>4, <2>5, <2>6
<1>4. CASE m.type = "created" /\ rows = <<>>
  <2>1. TakenIn(m, rows) = <<m.row>>
    BY <1>4 DEF TakenIn
  <2>2. Len(TakenIn(m, rows)) <= 1
    BY <1>2, <2>1
  <2> QED BY <1>2, <1>4, <2>1, <2>2
<1>5. CASE (m.type = "created" /\ rows # <<>>) \/ (m.type = "updated" /\ rows = <<>>)
  <2>1. TakenIn(m, rows) = rows
    BY <1>5 DEF TakenIn
  <2> QED BY <1>5, <2>1
<1>6. CASE m.type = "removed"
  <2>1. TakenIn(m, rows) = <<>>
    BY <1>6 DEF TakenIn
  <2> QED BY <1>1, <1>6, <2>1
<1> QED BY <1>3, <1>4, <1>5, <1>6 DEF OrderMessage

LEMMA TakenInOK ==
    ASSUME NEW f \in Seq(OrderMessage), f # <<>>, NEW o \in Orders, NEW s \in OrderRow, Tells(f, o, s)
    PROVE  /\ Tail(f) \in Seq(OrderMessage) /\ Head(f) \in OrderMessage /\ Tells(Tail(f), o, s)
           /\ o # Head(f).id =>
                 /\ \A rows : Replays(f, o, s, rows) => Replays(Tail(f), o, s, rows)
                 /\ \A row : Latest(row, f, o, s) => Latest(row, Tail(f), o, s)
           /\ o = Head(f).id =>
                 /\ \A rows \in Seq(OrderRow) :
                       Replays(f, o, s, rows) => Replays(Tail(f), o, s, TakenIn(Head(f), rows))
                 /\ \A row : /\ Latest(row, f, o, s)
                             /\ \E k \in DOMAIN f : f[k].id = o /\ f[k].row = row
                             => Latest(row, Tail(f), o, s)
<1> DEFINE m == Head(f)
           g == Tail(f)
<1>1. /\ 1 \in DOMAIN f /\ m = f[1] /\ m \in OrderMessage /\ g \in Seq(OrderMessage)
      /\ \A j \in DOMAIN g : j \in Nat \ {0} /\ j + 1 \in DOMAIN f /\ g[j] = f[j + 1]
      /\ \A k \in DOMAIN f \ {1} : k \in Nat \ {0, 1} /\ k - 1 \in DOMAIN g /\ g[k - 1] = f[k]
  BY OneTaken
<1> HIDE DEF m, g
<1>2. Tells(g, o, s)
  <2> SUFFICES ASSUME NEW k \in DOMAIN g, g[k].id = o
               PROVE  /\ (\A j \in DOMAIN g : g[j].id = o => j <= k) =>
                            g[k].row = s /\ (g[k].type = "created" => s.status = "PENDING")
                      /\ g[k].type = "removed" => s.status = "GONE"
                      /\ g[k].type = "updated" => s.status \in Taken
                      /\ s.status = "PENDING" => g[k].type = "created"
                      /\ s.status # "UNPLACED"
                      /\ \A j \in DOMAIN g : g[j].id = o /\ j < k =>
                            g[k].type # "created" /\ g[j].type # "removed"
    BY DEF Tells
  <2>1. k \in Nat \ {0} /\ k + 1 \in DOMAIN f /\ f[k + 1] = g[k] /\ f[k + 1].id = o
    BY <1>1
  <2>2. /\ (\A j \in DOMAIN f : f[j].id = o => j <= k + 1) =>
              f[k + 1].row = s /\ (f[k + 1].type = "created" => s.status = "PENDING")
        /\ f[k + 1].type = "removed" => s.status = "GONE"
        /\ f[k + 1].type = "updated" => s.status \in Taken
        /\ s.status = "PENDING" => f[k + 1].type = "created"
        /\ s.status # "UNPLACED"
        /\ \A j \in DOMAIN f : f[j].id = o /\ j < k + 1 =>
              f[k + 1].type # "created" /\ f[j].type # "removed"
    BY <2>1 DEF Tells
  <2>3. (\A j \in DOMAIN g : g[j].id = o => j <= k) => \A j \in DOMAIN f : f[j].id = o => j <= k + 1
    <3> SUFFICES ASSUME \A j \in DOMAIN g : g[j].id = o => j <= k, NEW j \in DOMAIN f, f[j].id = o
                 PROVE  j <= k + 1
      OBVIOUS
    <3>1. CASE j = 1
      BY <2>1, <3>1
    <3>2. CASE j # 1
      <4>1. j \in Nat \ {0, 1} /\ j - 1 \in DOMAIN g /\ g[j - 1].id = o
        BY <1>1, <3>2
      <4>2. j - 1 <= k
        BY <4>1
      <4> QED BY <2>1, <4>1, <4>2
    <3> QED BY <3>1, <3>2
  <2>4. \A j \in DOMAIN g : g[j].id = o /\ j < k =>
           g[k].type # "created" /\ g[j].type # "removed"
    <3> SUFFICES ASSUME NEW j \in DOMAIN g, g[j].id = o, j < k
                 PROVE  g[k].type # "created" /\ g[j].type # "removed"
      OBVIOUS
    <3>1. j \in Nat /\ j + 1 \in DOMAIN f /\ g[j] = f[j + 1] /\ j + 1 < k + 1
      BY <1>1, <2>1
    <3> QED BY <2>1, <2>2, <3>1
  <2> QED BY <2>1, <2>2, <2>3, <2>4
<1>3. ASSUME o # m.id
      PROVE  /\ \A rows : Replays(f, o, s, rows) => Replays(g, o, s, rows)
             /\ \A row : Latest(row, f, o, s) => Latest(row, g, o, s)
  <2>1. \A k \in DOMAIN f : f[k].id = o => k - 1 \in DOMAIN g /\ g[k - 1] = f[k]
    BY <1>1, <1>3
  <2>2. \A type : HeardOf(f, o, type) => HeardOf(g, o, type)
    BY <2>1 DEF HeardOf
  <2>3. Heard(f, o) <=> Heard(g, o)
    BY <1>1, <2>1 DEF Heard
  <2>4. \A rows : Replays(f, o, s, rows) => Replays(g, o, s, rows)
    BY <2>2, <2>3 DEF Replays
  <2> QED BY <2>3, <2>4 DEF Latest
<1>4. ASSUME o = m.id, NEW rows \in Seq(OrderRow), Replays(f, o, s, rows)
      PROVE  Replays(g, o, s, TakenIn(m, rows))
  <2> DEFINE new == TakenIn(m, rows)
  <2>1. /\ new \in Seq(OrderRow) /\ Len(new) <= 1
        /\ rows # <<>> /\ m.type # "removed" => new # <<>>
        /\ rows # <<>> /\ m.type = "updated" => new = <<m.row>>
        /\ rows = <<>> /\ m.type = "created" => new = <<m.row>>
        /\ rows # <<>> /\ m.type = "created" => new = rows
        /\ m.type = "removed" => new = <<>>
        /\ <<m.row>> # <<>> /\ <<>> # <<m.row>>
    <3>1. Len(rows) <= 1
      BY <1>4 DEF Replays
    <3>2. <<m.row>> # <<>>
      BY <1>1, OneAlone DEF OrderMessage
    <3> QED BY <1>1, <3>1, <3>2, TakenInRows DEF TakenIn
  <2>2. /\ Heard(f, o) /\ m.type \in {"created", "updated", "removed"}
        /\ m.type = "removed" => s.status = "GONE"
        /\ m.type = "updated" => s.status \in Taken
        /\ s.status = "PENDING" => m.type = "created"
        /\ s.status # "UNPLACED"
    BY <1>1, <1>4 DEF Heard, Tells, OrderMessage
  <2>3. \A k \in DOMAIN f \ {1} : f[k].id = o => f[k].type # "created" /\ m.type # "removed"
    <3>1. \A k \in DOMAIN f \ {1} : 1 < k
      BY <1>1
    <3> QED BY <1>1, <1>4, <3>1 DEF Tells
  <2>4. ~HeardOf(g, o, "created")
    <3>1. \A j \in DOMAIN g : j + 1 \in DOMAIN f \ {1} /\ g[j] = f[j + 1]
      BY <1>1
    <3> QED BY <2>3, <3>1 DEF HeardOf
  <2> SUFFICES Replays(g, o, s, new)
    OBVIOUS
  <2> HIDE DEF new
  <2>5. CASE ~Heard(g, o)
    <3>1. \A j \in DOMAIN f : f[j].id = o => j <= 1
      <4>1. \A j \in DOMAIN f \ {1} : g[j - 1] = f[j] /\ j - 1 \in DOMAIN g
        BY <1>1
      <4>2. \A j \in DOMAIN f \ {1} : f[j].id # o
        BY <2>5, <4>1 DEF Heard
      <4>3. 1 <= 1
        OBVIOUS
      <4> QED BY <4>2, <4>3
    <3>2. m.row = s
      BY <1>1, <1>4, <3>1 DEF Tells
    <3>3. CASE m.type = "created"
      <4>1. s.status = "PENDING"
        BY <1>1, <1>4, <3>1, <3>3 DEF Tells
      <4> QED BY <1>4, <2>1, <2>2, <2>5, <3>2, <3>3, <4>1 DEF Replays, ShownAs, Taken
    <3>4. CASE m.type = "updated"
      <4>1. ~HeardOf(f, o, "created")
        BY <1>1, <2>3, <3>4 DEF HeardOf
      <4>2. rows # <<>> /\ s.status \in Taken
        BY <1>4, <2>2, <3>4, <4>1 DEF Replays
      <4> QED BY <2>1, <2>5, <3>2, <3>4, <4>2 DEF Replays, ShownAs
    <3>5. CASE m.type = "removed"
      BY <2>1, <2>2, <2>5, <3>5 DEF Replays, ShownAs, Taken
    <3> QED BY <2>2, <3>3, <3>4, <3>5
  <2>6. CASE Heard(g, o)
    <3>1. PICK j \in DOMAIN g : g[j].id = o
      BY <2>6 DEF Heard
    <3>2. j + 1 \in DOMAIN f \ {1} /\ f[j + 1].id = o /\ f[j + 1].type # "created" /\ m.type # "removed"
      BY <1>1, <2>3, <3>1
    <3>3. s.status # "PENDING"
      BY <3>2 DEF Tells
    <3>4. s.status \in Taken => new # <<>>
      <4>1. CASE m.type = "created"
        BY <2>1, <4>1
      <4>2. CASE m.type = "updated"
        <5>1. ~HeardOf(f, o, "created")
          BY <1>1, <2>3, <4>2 DEF HeardOf
        <5> QED BY <1>4, <2>1, <2>2, <3>2, <5>1 DEF Replays
      <4> QED BY <2>2, <3>2, <4>1, <4>2
    <3> QED BY <2>1, <2>6, <3>3, <3>4 DEF Replays
  <2> QED BY <2>5, <2>6
<1>5. ASSUME o = m.id, NEW row, Latest(row, f, o, s), NEW k \in DOMAIN f, f[k].id = o, f[k].row = row
      PROVE  Latest(row, g, o, s)
  <2>1. Heard(f, o)
    BY <1>5 DEF Heard
  <2>2. CASE Heard(g, o)
    BY <1>5, <2>1, <2>2 DEF Latest
  <2>3. CASE ~Heard(g, o)
    <3>1. \A j \in DOMAIN f : f[j].id = o => j = 1
      BY <1>1, <2>3 DEF Heard
    <3>2. \A j \in DOMAIN f : f[j].id = o => j <= 1
      BY <3>1
    <3>3. k = 1 /\ f[1].row = s
      BY <1>1, <1>5, <3>1, <3>2 DEF Tells
    <3> QED BY <1>5, <2>3, <3>3 DEF Latest
  <2> QED BY <2>2, <2>3
<1> QED BY <1>1, <1>2, <1>3, <1>4, <1>5 DEF m, g

\* What is still to come of an order when other messages come, go or change places: old
\* says where each of its messages was.
LEMMA Rearranged ==
    ASSUME NEW f, NEW g, NEW o, NEW s, Tells(f, o, s),
           DOMAIN f \subseteq Int, DOMAIN g \subseteq Int, NEW old,
           \A j \in DOMAIN g : g[j].id = o => old[j] \in DOMAIN f /\ f[old[j]] = g[j],
           \A i \in DOMAIN f : f[i].id = o => \E j \in DOMAIN g : old[j] = i /\ g[j].id = o,
           \A i, j \in DOMAIN g : g[i].id = o /\ g[j].id = o /\ i < j => old[i] < old[j]
    PROVE  Carries(f, g, o, s, s)
<1>1. /\ \A type : HeardOf(f, o, type) <=> HeardOf(g, o, type)
      /\ Heard(f, o) <=> Heard(g, o)
  <2>1. \A i \in DOMAIN f : f[i].id = o => \E j \in DOMAIN g : g[j].id = o /\ g[j] = f[i]
    OBVIOUS
  <2>2. \A j \in DOMAIN g : g[j].id = o => \E i \in DOMAIN f : f[i].id = o /\ g[j] = f[i]
    OBVIOUS
  <2> QED BY <2>1, <2>2 DEF HeardOf, Heard
<1>2. ASSUME NEW k \in DOMAIN g, g[k].id = o
      PROVE  /\ (\A j \in DOMAIN g : g[j].id = o => j <= k) =>
                   g[k].row = s /\ (g[k].type = "created" => s.status = "PENDING")
             /\ g[k].type = "removed" => s.status = "GONE"
             /\ g[k].type = "updated" => s.status \in Taken
             /\ s.status = "PENDING" => g[k].type = "created"
             /\ s.status # "UNPLACED"
             /\ \A j \in DOMAIN g : g[j].id = o /\ j < k =>
                   g[k].type # "created" /\ g[j].type # "removed"
  <2>1. old[k] \in DOMAIN f /\ f[old[k]] = g[k] /\ f[old[k]].id = o
    BY <1>2
  <2>2. (\A j \in DOMAIN g : g[j].id = o => j <= k) => \A i \in DOMAIN f : f[i].id = o => i <= old[k]
    <3> SUFFICES ASSUME \A j \in DOMAIN g : g[j].id = o => j <= k, NEW i \in DOMAIN f, f[i].id = o
                 PROVE  i <= old[k]
      OBVIOUS
    <3>1. PICK j \in DOMAIN g : old[j] = i /\ g[j].id = o
      OBVIOUS
    <3>2. j = k \/ j < k
      BY <1>2, <3>1
    <3> QED BY <1>2, <2>1, <3>1, <3>2
  <2>3. \A j \in DOMAIN g : g[j].id = o /\ j < k => old[j] \in DOMAIN f /\ f[old[j]] = g[j] /\ old[j] < old[k]
    BY <1>2
  <2> QED BY <2>1, <2>2, <2>3 DEF Tells
<1>3. Tells(g, o, s)
  BY <1>2 DEF Tells
<1>4. \A rows : Replays(f, o, s, rows) => Replays(g, o, s, rows)
  BY <1>1 DEF Replays
<1>5. \A row : Latest(row, f, o, s) => Latest(row, g, o, s)
  BY <1>1 DEF Latest
<1> QED BY <1>3, <1>4, <1>5 DEF Carries

LEMMA OtherGone ==
    ASSUME NEW f \in Seq(OrderMessage), NEW k \in DOMAIN f, NEW o, f[k].id # o, NEW s, Tells(f, o, s)
    PROVE  Carries(f, RemoveAt(f, k), o, s, s)
<1> DEFINE g == RemoveAt(f, k)
           old == [j \in DOMAIN g |-> IF j < k THEN j ELSE j + 1]
<1>1. /\ k \in Nat /\ DOMAIN f \subseteq Nat /\ DOMAIN g \subseteq Nat
      /\ \A j \in DOMAIN g : old[j] \in DOMAIN f \ {k} /\ g[j] = f[old[j]]
      /\ \A i \in DOMAIN f \ {k} :
            LET j == IF i < k THEN i ELSE i - 1
            IN  j \in DOMAIN g /\ g[j] = f[i]
  BY OneLess
<1>2. \A i, j \in DOMAIN g : i < j => old[i] < old[j]
  BY <1>1
<1>3. \A i \in DOMAIN f \ {k} : \E j \in DOMAIN g : old[j] = i
  <2> SUFFICES ASSUME NEW i \in DOMAIN f \ {k}
               PROVE  \E j \in DOMAIN g : old[j] = i
    OBVIOUS
  <2>1. CASE i < k
    BY <1>1, <2>1
  <2>2. CASE ~(i < k)
    <3>1. i - 1 \in DOMAIN g /\ ~(i - 1 < k) /\ (i - 1) + 1 = i
      BY <1>1, <2>2
    <3> QED BY <3>1
  <2> QED BY <2>1, <2>2
<1> HIDE DEF g, old
<1>4. \A i \in DOMAIN f : f[i].id = o => \E j \in DOMAIN g : old[j] = i /\ g[j].id = o
  BY <1>1, <1>3
<1>5. Carries(f, g, o, s, s)
  BY <1>1, <1>2, <1>4, Rearranged
<1> QED BY <1>5 DEF g

\* What is kept of an order only depends on its cancels and on what is told of it.
LEMMA KeptTold ==
    ASSUME NEW q, NEW f, NEW g, NEW o, NEW s, NEW t, NEW rows, NEW p, Kept(q, f, o, s, rows, p),
           \A any : Replays(f, o, s, any) => Replays(g, o, t, any)
    PROVE  Kept(q, g, o, t, rows, p)
BY DEF Kept

LEMMA KeptMore ==
    ASSUME NEW S, NEW q \in Seq(S), NEW f, NEW o, NEW s, NEW rows, NEW p, Kept(q, f, o, s, rows, p),
           NEW r \in S, ~IsCancel(r, o)
    PROVE  Kept(Append(q, r), f, o, s, rows, p)
<1> DEFINE t == Append(q, r)
<1>1. /\ DOMAIN q \subseteq DOMAIN t /\ \A j \in DOMAIN q : t[j] = q[j]
      /\ \A j \in DOMAIN t \ DOMAIN q : t[j] = r
  BY OneMore
<1> HIDE DEF t
<1>2. CancelIn(t, o) <=> CancelIn(q, o)
  BY <1>1 DEF CancelIn
<1>3. \A j \in DOMAIN t : IsCancel(t[j], o) => j \in DOMAIN q /\ t[j] = q[j]
  BY <1>1
<1>4. Kept(t, f, o, s, rows, p)
  BY <1>2, <1>3 DEF Kept
<1> QED BY <1>4 DEF t

LEMMA KeptLess ==
    ASSUME NEW S, NEW q \in Seq(S), NEW f, NEW o, NEW s, NEW rows, NEW p, Kept(q, f, o, s, rows, p),
           NEW k \in DOMAIN q, ~IsCancel(q[k], o)
    PROVE  Kept(RemoveAt(q, k), f, o, s, rows, p)
<1> DEFINE t == RemoveAt(q, k)
           old(j) == IF j < k THEN j ELSE j + 1
<1>1. /\ \A j \in DOMAIN t : old(j) \in DOMAIN q /\ t[j] = q[old(j)]
      /\ \A i \in DOMAIN q \ {k} : \E j \in DOMAIN t : t[j] = q[i]
      /\ DOMAIN t \subseteq Nat /\ k \in Nat
  BY OneLess
<1>2. \A i, j \in DOMAIN t : old(i) = old(j) => i = j
  BY <1>1
<1> HIDE DEF t, old
<1>3. CancelIn(t, o) <=> CancelIn(q, o)
  BY <1>1 DEF CancelIn
<1>4. \A i, j \in DOMAIN t : IsCancel(t[i], o) /\ IsCancel(t[j], o) => i = j
  BY <1>1, <1>2 DEF Kept
<1>5. \A i \in DOMAIN t : IsCancel(t[i], o) => \E j \in DOMAIN q : t[i] = q[j]
  BY <1>1
<1>6. Kept(t, f, o, s, rows, p)
  BY <1>3, <1>4, <1>5 DEF Kept
<1> QED BY <1>6 DEF t

\* Without the one that cancels the order, nothing does.
LEMMA CancelLess ==
    ASSUME NEW S, NEW q \in Seq(S), NEW o, NEW k \in DOMAIN q,
           \A i \in DOMAIN q : IsCancel(q[i], o) => i = k
    PROVE  ~CancelIn(RemoveAt(q, k), o)
BY OneLess DEF CancelIn

\* A request that is answered is no cancel on its way any more.
LEMMA KeptAnswered ==
    ASSUME NEW S, NEW q \in Seq(S), NEW f, NEW o, NEW s, NEW rows, NEW p, Kept(q, f, o, s, rows, p),
           NEW k \in DOMAIN q, NEW e, ~IsCancel(e, o),
           IsCancel(q[k], o) => Replays(f, o, s, <<>>)
    PROVE  Kept([q EXCEPT ![k] = e], f, o, s, rows, p)
<1> DEFINE t == [q EXCEPT ![k] = e]
<1>1. /\ DOMAIN t = DOMAIN q /\ t[k] = e
      /\ \A j \in DOMAIN q \ {k} : t[j] = q[j]
  BY LenProperties
<1> HIDE DEF t
<1>2. \A j \in DOMAIN t : IsCancel(t[j], o) => j \in DOMAIN q /\ t[j] = q[j] /\ j # k
  BY <1>1
<1>3. CASE ~IsCancel(q[k], o)
  <2>1. CancelIn(t, o) <=> CancelIn(q, o)
    BY <1>1, <1>2, <1>3 DEF CancelIn
  <2>2. Kept(t, f, o, s, rows, p)
    BY <1>2, <2>1 DEF Kept
  <2> QED BY <2>2 DEF t
<1>4. CASE IsCancel(q[k], o)
  <2>1. CancelIn(q, o) /\ rows = <<>> /\ p.id # o
    BY <1>4 DEF CancelIn, Kept
  <2>2. ~CancelIn(t, o)
    BY <1>2, <1>4 DEF CancelIn, Kept
  <2>3. Kept(t, f, o, s, rows, p)
    BY <1>4, <2>1, <2>2 DEF Kept, CancelIn
  <2> QED BY <2>3 DEF t
<1> QED BY <1>3, <1>4

\* The cancel that waited is sent.
LEMMA KeptSent ==
    ASSUME NEW S, NEW q \in Seq(S), NEW f, NEW o, NEW s, NEW rows, NEW p, Kept(q, f, o, s, rows, p),
           NEW r \in S, r.id = p.id, r.then = "restore" => r.row = p.row, IsCancel(r, p.id),
           NEW e, e.id # o
    PROVE  Kept(Append(q, r), f, o, s, rows, e)
<1> DEFINE t == Append(q, r)
<1>1. CASE p.id # o
  <2>1. Kept(q, f, o, s, rows, e)
    BY <1>1 DEF Kept
  <2>2. ~IsCancel(r, o)
    BY <1>1 DEF IsCancel
  <2> QED BY <2>1, <2>2, KeptMore
<1>2. CASE p.id = o
  <2>1. /\ DOMAIN q \subseteq DOMAIN t /\ \A j \in DOMAIN q : t[j] = q[j]
        /\ \A j \in DOMAIN t \ DOMAIN q : t[j] = r /\ j = Len(q) + 1
        /\ Len(q) + 1 \in DOMAIN t /\ t[Len(q) + 1] = r
    BY OneMore
  <2> HIDE DEF t
  <2>2. CancelIn(t, o) /\ rows = <<>> /\ ~CancelIn(q, o) /\ Replays(f, o, s, <<p.row>>)
    BY <1>2, <2>1 DEF CancelIn, Kept
  <2>3. \A j \in DOMAIN t : IsCancel(t[j], o) => j = Len(q) + 1 /\ t[j] = r
    BY <2>1, <2>2 DEF CancelIn
  <2>4. Kept(t, f, o, s, rows, e)
    BY <1>2, <2>2, <2>3 DEF Kept
  <2> QED BY <2>4 DEF t
<1> QED BY <1>1, <1>2

\* Nothing cancels the order.
LEMMA KeptShown ==
    ASSUME NEW q, NEW f, NEW o, NEW s, NEW rows, NEW p,
           ~CancelIn(q, o), p.id # o, Replays(f, o, s, rows)
    PROVE  Kept(q, f, o, s, rows, p)
BY DEF Kept, CancelIn

\* A fetch stays where it is when another request is added or answered.
LEMMA FetchMore ==
    ASSUME NEW S, NEW q \in Seq(S), NEW r \in S
    PROVE  FetchIn(Append(q, r)) <=> FetchIn(q) \/ r.kind = "fetch"
<1>1. /\ \A j \in DOMAIN q : j \in DOMAIN Append(q, r) /\ Append(q, r)[j] = q[j]
      /\ \A j \in DOMAIN Append(q, r) \ DOMAIN q : Append(q, r)[j] = r
      /\ \E j \in DOMAIN Append(q, r) : Append(q, r)[j] = r
  BY OneMore
<1> QED BY <1>1 DEF FetchIn

LEMMA FetchKept ==
    ASSUME NEW S, NEW q \in Seq(S), NEW k \in DOMAIN q, q[k].kind # "fetch"
    PROVE  FetchIn(q) => FetchIn(RemoveAt(q, k))
BY KeptByRemoval DEF FetchIn

LEMMA ReplaysShown ==
    ASSUME NEW f, NEW o, NEW s \in OrderRow, Tells(f, o, s)
    PROVE  Replays(f, o, s, ShownAs(s))
<1>1. <<s>> # <<>> /\ Len(<<s>>) = 1 /\ Len(<<>>) = 0
  BY OneAlone, EmptySeq
<1>2. Len(ShownAs(s)) <= 1
  BY <1>1 DEF ShownAs
<1> QED BY <1>1, <1>2 DEF Replays, ShownAs

\* What a step does to the messages: of the orders that are still to be right, what is
\* to come leads to where the step has taken them.
FeedStep ==
    /\ server' \in [Orders -> OrderRow] /\ crossed' \subseteq Orders
    /\ feed' \in Seq(OrderMessage) /\ emitted' \in 0..Len(feed')
    /\ \A o \in Orders \ crossed' :
          o \notin crossed /\ Carries(feed, feed', o, server[o], server'[o])

LEMMA FeedFacts ==
    ASSUME ListInv
    PROVE  /\ server \in [Orders -> OrderRow] /\ crossed \subseteq Orders
           /\ feed \in Seq(OrderMessage) /\ emitted \in 0..Len(feed)
           /\ Len(feed) \in Nat /\ DOMAIN feed = 1..Len(feed)
           /\ \A k \in DOMAIN feed : feed[k] \in OrderMessage /\ feed[k].id \in Orders
           /\ \A o \in Orders : server[o] \in OrderRow
           /\ \A o \in Orders \ crossed : Tells(feed, o, server[o])
<1>1. /\ server \in [Orders -> OrderRow] /\ crossed \subseteq Orders
      /\ feed \in Seq(OrderMessage) /\ emitted \in 0..Len(feed)
      /\ \A o \in Orders \ crossed : Tells(feed, o, server[o])
  BY DEF ListInv, ListTypes
<1>2. Len(feed) \in Nat /\ DOMAIN feed = 1..Len(feed)
  BY <1>1, LenProperties
<1>3. \A k \in DOMAIN feed : feed[k] \in OrderMessage
  BY <1>1, <1>2, ElementOfSeq
<1> QED BY <1>1, <1>2, <1>3 DEF OrderMessage

LEMMA QuietFeed ==
    ASSUME ListInv, UNCHANGED <<server, feed, emitted>>,
           crossed \subseteq crossed', crossed' \subseteq Orders
    PROVE  FeedStep
BY FeedFacts DEF FeedStep, Carries

LEMMA LostFeed ==
    ASSUME ListInv, server' = server, Disconnected
    PROVE  FeedStep
<1>1. /\ feed' = SubSeq(feed, emitted + 1, Len(feed)) /\ emitted' = 0
      /\ crossed' = crossed \cup {feed[k].id : k \in 1..emitted}
  BY DEF Disconnected
<1>2. /\ feed' \in Seq(OrderMessage) /\ Len(feed') = Len(feed) - emitted
      /\ \A j \in 1..(Len(feed) - emitted) : feed'[j] = feed[j + emitted]
  <2>1. \A j \in (emitted + 1)..Len(feed) : feed[j] \in OrderMessage
    BY FeedFacts
  <2>2. /\ feed' \in Seq(OrderMessage)
        /\ Len(feed') = IF emitted + 1 <= Len(feed) THEN Len(feed) - (emitted + 1) + 1 ELSE 0
        /\ \A j \in 1..(Len(feed) - (emitted + 1) + 1) : feed'[j] = feed[(emitted + 1) + j - 1]
    BY <1>1, <2>1, FeedFacts, SubSeqProperties
  <2>3. \A j \in 1..(Len(feed) - emitted) :
           j \in 1..(Len(feed) - (emitted + 1) + 1) /\ (emitted + 1) + j - 1 = j + emitted
    BY FeedFacts
  <2> QED BY <2>2, <2>3, FeedFacts
<1>3. DOMAIN feed' = 1..(Len(feed) - emitted)
  BY <1>2, LenProperties
<1>4. crossed' \subseteq Orders
  BY <1>1, FeedFacts
<1>5. ASSUME NEW o \in Orders \ crossed'
      PROVE  o \notin crossed /\ Carries(feed, feed', o, server[o], server'[o])
  <2> DEFINE old == [j \in DOMAIN feed' |-> j + emitted]
  <2>1. \A i \in DOMAIN feed : feed[i].id = o => i - emitted \in DOMAIN feed' /\ (i - emitted) + emitted = i
    BY <1>1, <1>3, <1>5, FeedFacts
  <2>2. \A j \in DOMAIN feed' : old[j] \in DOMAIN feed /\ feed[old[j]] = feed'[j]
    BY <1>2, <1>3, FeedFacts
  <2>3. \A i, j \in DOMAIN feed' : i < j => old[i] < old[j]
    BY <1>3, FeedFacts
  <2>4. \A i \in DOMAIN feed : feed[i].id = o => \E j \in DOMAIN feed' : old[j] = i
    BY <2>1
  <2>5. DOMAIN feed \subseteq Int /\ DOMAIN feed' \subseteq Int /\ Tells(feed, o, server[o])
    BY <1>1, <1>3, <1>5, FeedFacts
  <2> HIDE DEF old
  <2>6. \A i \in DOMAIN feed : feed[i].id = o => \E j \in DOMAIN feed' : old[j] = i /\ feed'[j].id = o
    BY <2>2, <2>4
  <2>7. Carries(feed, feed', o, server[o], server[o])
    BY <2>2, <2>3, <2>5, <2>6, Rearranged
  <2> QED BY <1>1, <1>5, <2>7
<1> QED BY <1>1, <1>2, <1>4, <1>5, FeedFacts DEF FeedStep

LEMMA ChangedFeed ==
    ASSUME ListInv, UNCHANGED <<emitted, crossed>>, NEW o \in Orders, NEW type, NEW row,
           Becomes(server[o], type, row), Change(o, type, row)
    PROVE  FeedStep /\ HeardOf(feed', o, type)
<1> DEFINE m == [type |-> type, id |-> o, row |-> row]
<1>1. row \in OrderRow /\ m \in OrderMessage /\ m.id = o /\ m.type = type
  BY DEF Becomes, OrderMessage
<1>2. /\ server' = [server EXCEPT ![o] = row] /\ server' \in [Orders -> OrderRow]
      /\ server'[o] = row /\ \A x \in Orders \ {o} : server'[x] = server[x]
  BY <1>1, FeedFacts DEF Change
<1>3. feed' = Append(feed, m)
  BY DEF Change
<1>4. o \notin crossed => Carries(feed, feed', o, server[o], server'[o])
  BY <1>2, <1>3, FeedFacts, ToldOf
<1> HIDE DEF m
<1>5. /\ feed' \in Seq(OrderMessage) /\ Len(feed') = Len(feed) + 1
      /\ Len(feed) + 1 \in DOMAIN feed' /\ feed'[Len(feed) + 1] = m
  BY <1>1, <1>3, FeedFacts, OneMore
<1>6. HeardOf(feed', o, type)
  BY <1>1, <1>5 DEF HeardOf
<1>7. ASSUME NEW x \in Orders \ crossed, x # o
      PROVE  Carries(feed, feed', x, server[x], server'[x])
  BY <1>1, <1>2, <1>3, <1>7, FeedFacts, ToldOfOthers
<1>8. emitted' \in 0..Len(feed')
  BY <1>5, FeedFacts
<1> QED BY <1>2, <1>4, <1>5, <1>6, <1>7, <1>8, FeedFacts DEF FeedStep

\* A change that nothing tells of.
LEMMA SilentFeed ==
    ASSUME ListInv, UNCHANGED <<feed, emitted>>, NEW o \in Orders, NEW row \in OrderRow,
           server' = [server EXCEPT ![o] = row], crossed' = crossed \cup {o}
    PROVE  FeedStep
<1>1. server' \in [Orders -> OrderRow] /\ \A x \in Orders \ {o} : server'[x] = server[x]
  BY FeedFacts
<1> QED BY <1>1, FeedFacts DEF FeedStep, Carries

\* The requests that were there before bring what they did.
LEMMA BringsOn ==
    ASSUME ListInv, FeedStep,
           NEW r, r.state = "sent" \/ \E i \in DOMAIN requests : r = requests[i],
           NEW o \in Orders \ crossed'
    PROVE  Brings(r, feed', o, server'[o])
<1>1. CASE r.state = "sent"
  BY <1>1 DEF Brings
<1>2. ASSUME NEW i \in DOMAIN requests, r = requests[i]
      PROVE  Brings(r, feed', o, server'[o])
  <2>1. Brings(r, feed, o, server[o])
    BY <1>2 DEF ListInv, FeedStep, Carries
  <2> QED BY <2>1 DEF Brings, FeedStep, Carries
<1> QED BY <1>1, <1>2

LEMMA KeptOn ==
    ASSUME ListInv, FeedStep, OnScreen, NEW o \in Orders \ crossed'
    PROVE  Kept(requests, feed', o, server'[o], list[o], pending)
<1>1. Kept(requests, feed, o, server[o], list[o], pending)
  BY DEF ListInv, FeedStep, Carries
<1> QED BY <1>1, KeptTold DEF FeedStep, Carries

\* A step that leaves the requests, the list and what is pending as they are.
LEMMA FeedOnly ==
    ASSUME ListInv, FeedStep, UNCHANGED <<list, requests, pending>>, OnScreen' => OnScreen
    PROVE  ListInv'
<1>1. ListTypes'
  BY DEF ListInv, ListTypes, FeedStep
<1>2. \A o \in Orders \ crossed' : \A i \in DOMAIN requests' :
         Brings(requests'[i], feed', o, server'[o])
  BY BringsOn
<1>3. OnScreen' => \A o \in Orders \ crossed' :
         Kept(requests', feed', o, server'[o], list'[o], pending')
  BY KeptOn
<1> QED BY <1>1, <1>2, <1>3 DEF ListInv, FeedStep, Carries

LEMMA InitListInv == ListInit => ListInv
<1> SUFFICES ASSUME ListInit
             PROVE  ListInv
  OBVIOUS
<1>1. /\ <<>> \in Seq(OrderRow) /\ <<>> \in Seq(OrderMessage) /\ <<>> \in Seq(GoodRequests)
      /\ DOMAIN <<>> = {}
  BY EmptySeq
<1>2. ListTypes
  <2>1. Unplaced \in OrderRow /\ New \in OrderRow
    BY DEF OrderRow, Unplaced, New
  <2>2. server \in [Orders -> OrderRow]
    BY <2>1 DEF ListInit
  <2>3. list \in [Orders -> Seq(OrderRow)]
    BY <1>1 DEF ListInit, Nothing
  <2>4. emitted \in 0..Len(feed)
    BY EmptySeq DEF ListInit
  <2> QED BY <1>1, <2>2, <2>3, <2>4 DEF ListInit, ListTypes
<1>3. \A o \in Orders \ crossed : Tells(feed, o, server[o])
  BY <1>1 DEF ListInit, Tells
<1>4. ~OnScreen /\ requests = <<>>
  BY DEF ListInit, OnScreen
<1> QED BY <1>1, <1>2, <1>3, <1>4 DEF ListInv, ListInit

LEMMA OthersStep == ListInv /\ Others => ListInv'
<1> SUFFICES ASSUME ListInv, Others
             PROVE  ListInv'
  OBVIOUS
<1>1. UNCHANGED <<emitted, connected, mounted, list, loading, error, requests, pending, role>>
  BY DEF Others
<1> SUFFICES FeedStep
  BY <1>1, FeedOnly DEF OnScreen
<1>2. PICK o \in Orders :
         \/ /\ \/ server[o] = Unplaced /\ Change(o, "created", New)
               \/ server[o].status = "PENDING" /\ Change(o, "removed", Gone)
               \/ \E to \in ToSet(Status) :
                     /\ Follows(server[o].status, to)
                     /\ Change(o, "updated", [server[o] EXCEPT !.status = to])
               \/ /\ server[o].status = "READY_FOR_DELIVERY" /\ ~server[o].courier
                  /\ Change(o, "updated", [server[o] EXCEPT !.courier = TRUE])
            /\ UNCHANGED crossed
         \/ /\ server' = [server EXCEPT ![o] = [server[o] EXCEPT !.courier = TRUE]]
            /\ crossed' = crossed \cup {o}
            /\ UNCHANGED feed
  BY DEF Others
<1>3. server[o] \in OrderRow
  BY FeedFacts
<1>4. CASE server[o] = Unplaced /\ Change(o, "created", New) /\ UNCHANGED crossed
  <2>1. Becomes(server[o], "created", New)
    BY <1>4 DEF Becomes, OrderRow, New, Unplaced
  <2> QED BY <1>1, <1>4, <2>1, ChangedFeed
<1>5. CASE server[o].status = "PENDING" /\ Change(o, "removed", Gone) /\ UNCHANGED crossed
  <2>1. Becomes(server[o], "removed", Gone)
    BY <1>5 DEF Becomes, OrderRow, Gone
  <2> QED BY <1>1, <1>5, <2>1, ChangedFeed
<1>6. ASSUME NEW to \in ToSet(Status), Follows(server[o].status, to),
             Change(o, "updated", [server[o] EXCEPT !.status = to]), UNCHANGED crossed
      PROVE  FeedStep
  <2>1. server[o].status \in {"PENDING"} \cup Taken /\ to \in Taken
    BY <1>6, StatusSet
  <2>2. Becomes(server[o], "updated", [server[o] EXCEPT !.status = to])
    BY <1>3, <2>1 DEF Becomes, OrderRow
  <2> QED BY <1>1, <1>6, <2>2, ChangedFeed
<1>7. CASE /\ server[o].status = "READY_FOR_DELIVERY" /\ ~server[o].courier
           /\ Change(o, "updated", [server[o] EXCEPT !.courier = TRUE]) /\ UNCHANGED crossed
  <2>1. Becomes(server[o], "updated", [server[o] EXCEPT !.courier = TRUE])
    BY <1>3, <1>7 DEF Becomes, OrderRow, Taken
  <2> QED BY <1>1, <1>7, <2>1, ChangedFeed
<1>8. CASE /\ server' = [server EXCEPT ![o] = [server[o] EXCEPT !.courier = TRUE]]
           /\ crossed' = crossed \cup {o}
           /\ UNCHANGED feed
  <2> DEFINE row == [server[o] EXCEPT !.courier = TRUE]
  <2>1. row \in OrderRow /\ server' = [server EXCEPT ![o] = row]
    BY <1>3, <1>8 DEF OrderRow
  <2> HIDE DEF row
  <2> QED BY <1>1, <1>8, <2>1, SilentFeed
<1> QED BY <1>2, <1>4, <1>5, <1>6, <1>7, <1>8

LEMMA RequestsOK ==
    ASSUME ListTypes
    PROVE  /\ requests \in Seq(GoodRequests) /\ list \in [Orders -> Seq(OrderRow)]
           /\ server \in [Orders -> OrderRow] /\ crossed \subseteq Orders
           /\ \A i \in DOMAIN requests : requests[i] \in GoodRequests /\ requests[i] \in RequestOf
           /\ Fetch \in GoodRequests /\ Gone \in OrderRow /\ Nothing \in [Orders -> Seq(OrderRow)]
           /\ \A p \in [id : Orders, row : OrderRow] : \A then \in {"refetch", "restore"} :
                 /\ Cancel(p, then) \in GoodRequests /\ IsCancel(Cancel(p, then), p.id)
                 /\ Cancel(p, then).id = p.id /\ Cancel(p, then).then = then
                 /\ then = "restore" => Cancel(p, then).row = p.row
<1>1. requests \in Seq(GoodRequests)
  BY DEF ListTypes
<1>2. \A i \in DOMAIN requests : requests[i] \in GoodRequests
  BY <1>1, ElementOfSeq, LenProperties
<1>3. Gone \in OrderRow
  BY DEF Gone, OrderRow
<1>4. Nothing \in [Orders -> Seq(OrderRow)]
  BY EmptySeq DEF Nothing
<1>5. Fetch \in GoodRequests
  BY <1>3, <1>4 DEF Fetch, GoodRequests, RequestOf, RequestOK
<1>6. ASSUME NEW p \in [id : Orders, row : OrderRow], NEW then \in {"refetch", "restore"}
      PROVE  /\ Cancel(p, then) \in GoodRequests /\ IsCancel(Cancel(p, then), p.id)
             /\ Cancel(p, then).id = p.id /\ Cancel(p, then).then = then
             /\ then = "restore" => Cancel(p, then).row = p.row
  <2> DEFINE row == IF then = "restore" THEN p.row ELSE Gone
  <2>1. row \in OrderRow
    BY <1>3, <1>6
  <2>2. Cancel(p, then) = [kind |-> "cancel", id |-> p.id, row |-> row, state |-> "sent",
                           rows |-> Nothing, then |-> then]
    <3>1. Cancel(p, then) = [Fetch EXCEPT !.kind = "cancel", !.id = p.id, !.then = then, !.row = row]
      BY DEF Cancel
    <3> HIDE DEF row
    <3> QED BY <3>1 DEF Fetch
  <2>3. then = "restore" => row = p.row
    OBVIOUS
  <2> HIDE DEF row
  <2>4. p.id \in Orders
    BY <1>6
  <2> QED BY <1>4, <1>6, <2>1, <2>2, <2>3, <2>4 DEF GoodRequests, RequestOf, RequestOK, IsCancel
<1> QED BY <1>1, <1>2, <1>3, <1>4, <1>5, <1>6 DEF ListTypes, GoodRequests

\* A message goes away, and is missed.
LEMMA GoneFeed ==
    ASSUME ListInv, NEW k \in Unsent, UNCHANGED <<server, emitted>>, feed' = RemoveAt(feed, k),
           crossed' = crossed \cup {feed[k].id}
    PROVE  FeedStep
<1>1. k \in DOMAIN feed /\ k \in 1..Len(feed) /\ k > emitted /\ feed[k].id \in Orders
  BY FeedFacts DEF Unsent
<1>2. feed' \in Seq(OrderMessage) /\ Len(feed') = Len(feed) - 1
  BY <1>1, FeedFacts, RemovedFrom
<1>3. emitted' \in 0..Len(feed')
  BY <1>1, <1>2, FeedFacts
<1>4. ASSUME NEW o \in Orders \ crossed'
      PROVE  o \notin crossed /\ Carries(feed, feed', o, server[o], server'[o])
  BY <1>1, <1>4, FeedFacts, OtherGone
<1> QED BY <1>1, <1>2, <1>3, <1>4, FeedFacts DEF FeedStep

\* The row of a new order is read again.
LEMMA ReadAgainFeed ==
    ASSUME ListInv, NEW k \in Unsent, emitCreated(k), server' = server
    PROVE  FeedStep
<1> DEFINE id == feed[k].id
<1>1. /\ k \in DOMAIN feed /\ k \in 1..Len(feed) /\ k > emitted /\ id \in Orders
      /\ feed[k] \in OrderMessage /\ feed[k].type = "created" /\ UNCHANGED <<emitted, crossed>>
      /\ server[id] \in OrderRow
  BY FeedFacts DEF Unsent, emitCreated
<1>2. CASE Exists(id)
  <2> DEFINE e == [feed[k] EXCEPT !.row = server[id]]
  <2>1. feed' = [feed EXCEPT ![k] = e]
    BY <1>2 DEF emitCreated
  <2>2. e \in OrderMessage /\ e.id = id /\ e.type = "created" /\ e.row = server[id]
    BY <1>1 DEF OrderMessage
  <2> HIDE DEF e
  <2>3. /\ feed' \in Seq(OrderMessage) /\ Len(feed') = Len(feed) /\ DOMAIN feed' = DOMAIN feed
        /\ feed'[k] = e /\ \A j \in DOMAIN feed \ {k} : feed'[j] = feed[j]
    BY <1>1, <2>1, <2>2, FeedFacts, ExceptSeq
  <2>4. \A j \in DOMAIN feed : /\ feed'[j].id = feed[j].id /\ feed'[j].type = feed[j].type
                               /\ feed'[j].row = feed[j].row \/ feed'[j].row = server[feed[j].id]
    BY <1>1, <2>2, <2>3
  <2> HIDE DEF id
  <2>5. ASSUME NEW o \in Orders \ crossed
        PROVE  Carries(feed, feed', o, server[o], server[o])
    <3>1. Tells(feed, o, server[o])
      BY <2>5, FeedFacts
    <3>2. Tells(feed', o, server[o])
      BY <2>3, <2>4, <3>1 DEF Tells
    <3>3. /\ Heard(feed, o) <=> Heard(feed', o)
          /\ HeardOf(feed, o, "created") <=> HeardOf(feed', o, "created")
      BY <2>3, <2>4 DEF Heard, HeardOf
    <3> QED BY <3>2, <3>3 DEF Carries, Replays, Latest
  <2> QED BY <1>1, <2>3, <2>5, FeedFacts DEF FeedStep
<1>3. CASE ~Exists(id)
  <2>1. feed' = RemoveAt(feed, k)
    BY <1>3 DEF emitCreated
  <2>2. feed' \in Seq(OrderMessage) /\ Len(feed') = Len(feed) - 1
    BY <1>1, <2>1, FeedFacts, RemovedFrom
  <2>3. emitted' \in 0..Len(feed')
    BY <1>1, <2>2, FeedFacts
  <2>4. ASSUME NEW o \in Orders \ crossed, o = id
        PROVE  Carries(feed, feed', o, server[o], server[o])
    <3>1. Tells(feed, o, server[o]) /\ Heard(feed, o)
      BY <1>1, <2>4, FeedFacts DEF Heard
    <3>2. server[o].status = "GONE"
      <4>1. server[o].status \notin {"PENDING"} \cup Taken
        BY <1>3, <2>4, StatusSet DEF Exists
      <4>2. server[o].status # "UNPLACED"
        BY <1>1, <2>4, <3>1 DEF Tells
      <4> QED BY <1>1, <2>4, <4>1, <4>2 DEF OrderRow
    <3>3. /\ \A i \in DOMAIN feed' :
                LET j == IF i < k THEN i ELSE i + 1
                IN  j \in DOMAIN feed \ {k} /\ feed'[i] = feed[j]
          /\ \A j \in DOMAIN feed \ {k} :
                LET i == IF j < k THEN j ELSE j - 1
                IN  i \in DOMAIN feed' /\ feed'[i] = feed[j]
          /\ DOMAIN feed \subseteq Nat /\ DOMAIN feed' \subseteq Nat /\ k \in Nat
      <4>1. feed \in Seq(OrderMessage) /\ k \in DOMAIN feed
        BY <1>1, FeedFacts
      <4> QED BY <2>1, <4>1, OneLess
    <3>4. PICK n \in DOMAIN feed : feed[n].id = o /\ ~(n <= k)
      BY <1>1, <2>4, <3>1, <3>2 DEF Tells
    <3>5. Heard(feed', o)
      <4>1. n \in DOMAIN feed \ {k} /\ ~(n < k)
        BY <1>1, <3>3, <3>4
      <4>2. n - 1 \in DOMAIN feed' /\ feed'[n - 1].id = o
        BY <3>3, <3>4, <4>1
      <4> QED BY <4>2 DEF Heard
    <3>6. Tells(feed', o, server[o])
      <4> SUFFICES ASSUME NEW i \in DOMAIN feed', feed'[i].id = o
                   PROVE  /\ (\A j \in DOMAIN feed' : feed'[j].id = o => j <= i) =>
                                feed'[i].row = server[o] /\ feed'[i].type # "created"
                          /\ feed'[i].type = "updated" => server[o].status \in Taken
                          /\ \A j \in DOMAIN feed' : feed'[j].id = o /\ j < i =>
                                feed'[i].type # "created" /\ feed'[j].type # "removed"
        BY <3>2 DEF Tells
      <4> DEFINE old(j) == IF j < k THEN j ELSE j + 1
      <4>1. old(i) \in DOMAIN feed \ {k} /\ feed'[i] = feed[old(i)] /\ feed[old(i)].id = o
        BY <3>3
      <4>2. \A j \in DOMAIN feed' : /\ old(j) \in DOMAIN feed \ {k} /\ feed'[j] = feed[old(j)]
                                    /\ j < i => old(j) < old(i)
        BY <3>3
      <4>3. ASSUME \A j \in DOMAIN feed' : feed'[j].id = o => j <= i, NEW n2 \in DOMAIN feed, feed[n2].id = o
            PROVE  n2 <= old(i)
        <5> DEFINE low == IF n2 < k THEN n2 ELSE n2 - 1
        <5>1. CASE n2 # k
          <6>1. low \in DOMAIN feed' /\ feed'[low].id = o
            BY <3>3, <4>3, <5>1
          <6>2. low <= i
            BY <4>3, <6>1
          <6> QED BY <3>3, <4>3, <5>1, <6>1, <6>2
        <5>2. CASE n2 = k
          <6>1. n \in DOMAIN feed \ {k} /\ ~(n < k) /\ n - 1 \in DOMAIN feed' /\ feed'[n - 1].id = o
            BY <1>1, <3>3, <3>4
          <6>2. n - 1 <= i
            BY <4>3, <6>1
          <6> QED BY <3>3, <3>4, <5>2, <6>1, <6>2
        <5> QED BY <5>1, <5>2
      <4> HIDE DEF old
      <4>4. (\A j \in DOMAIN feed' : feed'[j].id = o => j <= i) =>
               feed[old(i)].row = server[o] /\ feed[old(i)].type # "created"
        BY <3>1, <3>2, <4>1, <4>3 DEF Tells
      <4>5. /\ feed[old(i)].type = "updated" => server[o].status \in Taken
            /\ \A j \in DOMAIN feed : feed[j].id = o /\ j < old(i) =>
                  feed[old(i)].type # "created" /\ feed[j].type # "removed"
        BY <3>1, <4>1 DEF Tells
      <4> QED BY <4>1, <4>2, <4>4, <4>5
    <3> QED BY <3>1, <3>2, <3>5, <3>6 DEF Carries, Replays, Latest, Taken
  <2>5. ASSUME NEW o \in Orders \ crossed, o # id
        PROVE  Carries(feed, feed', o, server[o], server[o])
    BY <1>1, <2>1, <2>5, FeedFacts, OtherGone
  <2> HIDE DEF id
  <2> QED BY <1>1, <2>2, <2>3, <2>4, <2>5, FeedFacts DEF FeedStep
<1> QED BY <1>2, <1>3

\* A message is sent: it comes after the others that are in the socket.
LEMMA SentFeed ==
    ASSUME ListInv, NEW k \in Unsent, Emit(k), server' = server
    PROVE  FeedStep /\ \A o \in Orders \ crossed' : o = feed[k].id => Heard(feed', o)
<1>1. /\ k \in DOMAIN feed /\ k \in 1..Len(feed) /\ k > emitted /\ feed[k].id \in Orders
      /\ feed[k] \in OrderMessage
  BY FeedFacts DEF Unsent
<1>2. CASE ~connected
  <2>1. /\ feed' = RemoveAt(feed, k) /\ emitted' = emitted
        /\ crossed' = crossed \cup {feed[k].id}
    BY <1>2 DEF Emit
  <2> QED BY <2>1, GoneFeed
<1>3. CASE connected
  <2> DEFINE n == emitted + 1
             old == [j \in DOMAIN feed |-> IF j >= n /\ j <= k THEN IF j = n THEN k ELSE j - 1 ELSE j]
  <2>1. /\ emitted' = n /\ n \in 1..k /\ n \in Nat
        /\ crossed' = IF ~Overtakes(k) THEN crossed ELSE crossed \cup {feed[k].id}
    BY <1>1, <1>3, FeedFacts DEF Emit
  <2>2. \A j \in DOMAIN feed : old[j] \in DOMAIN feed
    BY <1>1, <2>1, FeedFacts
  <2>3. DOMAIN feed' = DOMAIN feed /\ \A j \in DOMAIN feed : feed'[j] = feed[old[j]]
    <3>1. feed' = [j \in DOMAIN feed |-> IF j \in Unsent /\ j <= k
                                         THEN IF j = emitted + 1 THEN feed[k] ELSE feed[j - 1]
                                         ELSE feed[j]]
      BY <1>3 DEF Emit
    <3>2. \A j \in DOMAIN feed : j \in Unsent <=> j >= n
      BY FeedFacts DEF Unsent
    <3> QED BY <3>1, <3>2
  <2>4. feed' \in Seq(OrderMessage) /\ Len(feed') = Len(feed)
    <3>1. \A j \in 1..Len(feed) : feed[old[j]] \in OrderMessage
      BY <2>2, FeedFacts
    <3>2. feed' = [j \in 1..Len(feed) |-> feed[old[j]]]
      <4>1. feed' = [j \in DOMAIN feed |-> feed'[j]]
        BY <1>3 DEF Emit
      <4> QED BY <2>3, <4>1, FeedFacts
    <3> HIDE DEF old
    <3> QED BY <3>1, <3>2, FeedFacts, IsASeq, LenProperties
  <2>5. ASSUME NEW o \in Orders \ crossed', o # feed[k].id \/ ~Overtakes(k)
        PROVE  Carries(feed, feed', o, server[o], server[o])
    <3>1. \A j \in DOMAIN feed : j >= n /\ j < k /\ feed[j].id = o => feed[k].id # o
      BY <1>1, <2>5, FeedFacts DEF Overtakes, Unsent
    <3>2. ASSUME NEW i \in DOMAIN feed', NEW j \in DOMAIN feed',
                 feed'[i].id = o, feed'[j].id = o, i < j
          PROVE  old[i] < old[j]
      <4>1. i \in 1..Len(feed) /\ j \in 1..Len(feed)
        BY <2>3, <3>2, FeedFacts
      <4>2. CASE i = n
        <5>1. feed[k].id = o /\ old[i] = k
          BY <1>1, <2>1, <2>3, <3>2, <4>1, <4>2
        <5>2. CASE j <= k
          <6>1. old[j] = j - 1 /\ feed[j - 1].id = o /\ j - 1 \in DOMAIN feed /\ j - 1 >= n /\ j - 1 < k
            BY <1>1, <2>1, <2>3, <3>2, <4>1, <4>2, <5>2, FeedFacts
          <6> QED BY <3>1, <5>1, <6>1
        <5>3. CASE j > k
          BY <1>1, <4>1, <5>1, <5>3, FeedFacts
        <5> QED BY <1>1, <4>1, <5>2, <5>3
      <4>3. CASE j = n
        BY <1>1, <2>1, <3>2, <4>1, <4>3, FeedFacts
      <4>4. CASE i # n /\ j # n
        BY <1>1, <2>1, <3>2, <4>1, <4>4, FeedFacts
      <4> QED BY <4>2, <4>3, <4>4
    <3>3. \A i \in DOMAIN feed : \E j \in DOMAIN feed' : old[j] = i
      <4> SUFFICES ASSUME NEW i \in DOMAIN feed
                   PROVE  \E j \in DOMAIN feed : old[j] = i
        BY <2>3
      <4>0. i \in 1..Len(feed) /\ n \in DOMAIN feed
        BY <1>1, <2>1, FeedFacts
      <4>1. CASE i = k
        <5>1. old[n] = i
          BY <1>1, <2>1, <4>0, <4>1
        <5> QED BY <4>0, <5>1
      <4>2. CASE i >= n /\ i < k
        <5>1. i + 1 \in DOMAIN feed /\ i + 1 >= n /\ i + 1 <= k /\ i + 1 # n /\ (i + 1) - 1 = i
          BY <1>1, <2>1, <4>0, <4>2, FeedFacts
        <5>2. old[i + 1] = i
          BY <5>1
        <5> QED BY <5>1, <5>2
      <4>3. CASE i < n \/ i > k
        <5>1. old[i] = i
          BY <1>1, <2>1, <4>0, <4>3
        <5> QED BY <5>1
      <4> QED BY <1>1, <2>1, <4>0, <4>1, <4>2, <4>3
    <3>4. DOMAIN feed \subseteq Int /\ DOMAIN feed' \subseteq Int /\ Tells(feed, o, server[o])
      BY <2>1, <2>3, <2>5, FeedFacts
    <3> HIDE DEF old
    <3>5. \A i \in DOMAIN feed : feed[i].id = o => \E j \in DOMAIN feed' : old[j] = i /\ feed'[j].id = o
      BY <2>3, <3>3
    <3>6. \A j \in DOMAIN feed' : feed'[j].id = o => old[j] \in DOMAIN feed /\ feed[old[j]] = feed'[j]
      BY <2>2, <2>3
    <3> QED BY <3>2, <3>4, <3>5, <3>6, Rearranged
  <2>6. ASSUME NEW o \in Orders \ crossed'
        PROVE  o \notin crossed /\ Carries(feed, feed', o, server[o], server'[o])
    BY <2>1, <2>5, <2>6
  <2>7. emitted' \in 0..Len(feed') /\ crossed' \subseteq Orders
    BY <1>1, <2>1, <2>4, FeedFacts
  <2>8. feed'[n] = feed[k] /\ n \in DOMAIN feed'
    BY <1>1, <2>1, <2>3, FeedFacts
  <2> HIDE DEF old, n
  <2>9. Heard(feed', feed[k].id)
    BY <2>8 DEF Heard
  <2> QED BY <2>4, <2>6, <2>7, <2>9, FeedFacts DEF FeedStep
<1>4. feed[k].id \in crossed' \/ connected
  BY DEF Emit
<1> QED BY <1>2, <1>3, <1>4

\* The request whose message is sent is answered.
LEMMA EmitRequests ==
    ASSUME ListInv, NEW k \in Unsent, Emit(k), server' = server
    PROVE  /\ requests' \in Seq(GoodRequests) /\ (FetchIn(requests') <=> FetchIn(requests))
           /\ \A o \in Orders \ crossed' : \A j \in DOMAIN requests' :
                 Brings(requests'[j], feed', o, server'[o])
           /\ \A f, o, s, rows, p : Kept(requests, f, o, s, rows, p) => Kept(requests', f, o, s, rows, p)
<1> DEFINE answered(r) == r.state = "written" /\ Own(r, feed[k])
           next(r) == IF answered(r) THEN [r EXCEPT !.state = "ok"] ELSE r
<1>1. requests' = [i \in DOMAIN requests |-> next(requests[i])]
  BY DEF Emit
<1>2. /\ requests \in Seq(GoodRequests) /\ Len(requests) \in Nat
      /\ DOMAIN requests = 1..Len(requests)
      /\ \A i \in DOMAIN requests : requests[i] \in GoodRequests /\ requests[i] \in RequestOf
  BY RequestsOK, LenProperties DEF ListInv
<1>3. ASSUME NEW r \in GoodRequests
      PROVE  /\ next(r) \in GoodRequests /\ next(r).kind = r.kind
             /\ answered(r) => /\ next(r).state = "ok" /\ next(r).id = r.id /\ next(r).row = r.row
                               /\ r.kind # "fetch"
             /\ ~answered(r) => next(r) = r
  <2>1. CASE ~answered(r)
    BY <2>1
  <2>2. CASE answered(r)
    <3>1. r \in RequestOf /\ RequestOK(r) /\ r.state = "written" /\ Own(r, feed[k])
      BY <2>2 DEF GoodRequests
    <3>2. next(r) = [r EXCEPT !.state = "ok"]
      BY <2>2
    <3>3. /\ next(r) \in RequestOf /\ next(r).kind = r.kind /\ next(r).state = "ok"
          /\ next(r).id = r.id /\ next(r).row = r.row /\ next(r).then = r.then
      BY <3>1, <3>2 DEF RequestOf
    <3> HIDE DEF next, answered
    <3>4. RequestOK(next(r))
      BY <3>1, <3>3 DEF RequestOK
    <3>5. next(r) \in GoodRequests /\ r.kind # "fetch"
      BY <3>1, <3>3, <3>4 DEF GoodRequests, Own
    <3> QED BY <2>2, <3>3, <3>5
  <2> QED BY <2>1, <2>2
<1> HIDE DEF next
<1>4. /\ DOMAIN requests' = DOMAIN requests
      /\ \A i \in DOMAIN requests : requests'[i] = next(requests[i])
  BY <1>1
<1>5. requests' \in Seq(GoodRequests)
  BY <1>1, <1>2, <1>3, IsASeq
<1>6. FetchIn(requests') <=> FetchIn(requests)
  BY <1>2, <1>3, <1>4 DEF FetchIn
<1>7. \A i \in DOMAIN requests : \A o : /\ IsCancel(requests'[i], o) <=> IsCancel(requests[i], o)
                                        /\ IsCancel(requests[i], o) => requests'[i] = requests[i]
  BY <1>2, <1>3, <1>4 DEF IsCancel
<1> HIDE DEF answered
<1>8. ASSUME NEW f, NEW o, NEW s, NEW rows, NEW p, Kept(requests, f, o, s, rows, p)
      PROVE  Kept(requests', f, o, s, rows, p)
  <2>1. CancelIn(requests', o) <=> CancelIn(requests, o)
    BY <1>4, <1>7 DEF CancelIn
  <2> QED BY <1>4, <1>7, <1>8, <2>1 DEF Kept
<1>9. ASSUME NEW o \in Orders \ crossed', NEW j \in DOMAIN requests'
      PROVE  Brings(requests'[j], feed', o, server'[o])
  <2>1. FeedStep /\ (o = feed[k].id => Heard(feed', o))
    BY <1>9, SentFeed
  <2>2. CASE ~answered(requests[j])
    <3>1. requests'[j] = requests[j] /\ j \in DOMAIN requests
      BY <1>2, <1>3, <1>4, <1>9, <2>2
    <3> QED BY <1>9, <2>1, <3>1, BringsOn
  <2>3. CASE answered(requests[j])
    <3> DEFINE r == requests[j]
    <3>1. /\ j \in DOMAIN requests /\ r \in GoodRequests /\ requests'[j] = next(r)
          /\ r.state = "written" /\ Own(r, feed[k])
      BY <1>2, <1>4, <1>9, <2>3 DEF answered
    <3> HIDE DEF r
    <3>2. next(r).kind = r.kind /\ r.kind # "fetch" /\ next(r).id = r.id /\ next(r).row = r.row
      BY <1>3, <2>3, <3>1 DEF r
    <3>3. ASSUME r.kind \in {"status", "assign"}, r.id = o
          PROVE  Latest(r.row, feed', o, server'[o])
      <4>1. r.row.status \in Taken
        BY <3>1, <3>3 DEF GoodRequests, RequestOK
      <4>2. feed[k].id = o /\ feed[k].type = "updated" /\ k \in DOMAIN feed
        BY <3>1, <3>3 DEF Own, Unsent
      <4>3. Tells(feed, o, server[o])
        BY <1>9, <2>1, FeedFacts DEF FeedStep
      <4>4. server'[o].status # "PENDING"
        BY <4>2, <4>3 DEF Tells, Taken
      <4> QED BY <2>1, <4>1, <4>2, <4>4 DEF Latest
    <3> QED BY <3>1, <3>2, <3>3 DEF Brings
  <2> QED BY <2>2, <2>3
<1> QED BY <1>5, <1>6, <1>8, <1>9

\* A request goes on after its write.
LEMMA ProceedStep == ListInv /\ Proceed => ListInv'
<1> SUFFICES ASSUME ListInv, Proceed
             PROVE  ListInv'
  OBVIOUS
<1>1. UNCHANGED <<server, connected, mounted, list, loading, error, moves, pending, role>>
  BY DEF Proceed
<1>2. PICK k \in Unsent : emitCreated(k) \/ Emit(k) \/ Lose(k)
  BY DEF Proceed
<1>3. CASE emitCreated(k)
  <2>1. FeedStep
    BY <1>1, <1>3, ReadAgainFeed
  <2> QED BY <1>1, <1>3, <2>1, FeedOnly DEF emitCreated, OnScreen
<1>4. CASE Lose(k)
  <2>1. FeedStep
    BY <1>1, <1>4, GoneFeed DEF Lose
  <2> QED BY <1>1, <1>4, <2>1, FeedOnly DEF Lose, OnScreen
<1>5. CASE Emit(k)
  <2>1. FeedStep
    BY <1>1, <1>5, SentFeed
  <2>2. /\ requests' \in Seq(GoodRequests) /\ (FetchIn(requests') <=> FetchIn(requests))
        /\ \A o \in Orders \ crossed' : \A j \in DOMAIN requests' :
              Brings(requests'[j], feed', o, server'[o])
        /\ \A f, o, s, rows, p : Kept(requests, f, o, s, rows, p) => Kept(requests', f, o, s, rows, p)
    BY <1>1, <1>5, EmitRequests
  <2>3. ListTypes'
    BY <1>1, <2>1, <2>2 DEF ListInv, ListTypes, FeedStep
  <2>4. OnScreen' => \A o \in Orders \ crossed' :
           Kept(requests', feed', o, server'[o], list'[o], pending')
    BY <1>1, <2>1, <2>2, KeptOn DEF OnScreen
  <2> QED BY <2>1, <2>2, <2>3, <2>4 DEF ListInv, FeedStep, Carries
<1> QED BY <1>2, <1>3, <1>4, <1>5

LEMMA SocketSteps ==
    ASSUME ListInv, Connect \/ Drop
    PROVE  ListInv'
<1>1. CASE Connect
  <2>1. FeedStep
    <3>1. UNCHANGED <<server, feed, emitted, crossed>>
      BY <1>1 DEF Connect
    <3> QED BY <3>1, QuietFeed, FeedFacts
  <2> QED BY <1>1, <2>1, FeedOnly DEF Connect, OnScreen
<1>2. CASE Drop
  <2>1. FeedStep
    BY <1>2, LostFeed DEF Drop
  <2> QED BY <1>2, <2>1, FeedOnly DEF Drop, OnScreen
<1> QED BY <1>1, <1>2

\* A message is taken in.
LEMMA ReceiveStep == ListInv /\ Receive => ListInv'
<1> SUFFICES ASSUME ListInv, Receive
             PROVE  ListInv'
  OBVIOUS
<1> DEFINE m == Head(feed)
           o == m.id
<1>1. /\ emitted > 0 /\ emitted' = emitted - 1 /\ feed' = Tail(feed)
      /\ crossed' = IF Crosses(o) THEN crossed \cup {o} ELSE crossed
      /\ UNCHANGED <<server, connected, mounted, loading, error, requests, moves, pending, role>>
  BY DEF Receive
<1>2. /\ server \in [Orders -> OrderRow] /\ feed \in Seq(OrderMessage) /\ crossed \subseteq Orders
      /\ list \in [Orders -> Seq(OrderRow)] /\ feed # <<>>
      /\ \A x \in Orders : server[x] \in OrderRow
      /\ \A x \in Orders \ crossed : Tells(feed, x, server[x])
  <2>1. Len(feed) # 0
    BY <1>1, FeedFacts
  <2> QED BY <2>1, FeedFacts, EmptySeq DEF ListInv, ListTypes
<1>3. m \in OrderMessage /\ Tail(feed) \in Seq(OrderMessage)
  BY <1>2, OneTaken
<1>4. /\ o \in Orders /\ m.row \in OrderRow /\ list[o] \in Seq(OrderRow)
      /\ m.type \in {"created", "updated", "removed"}
  BY <1>2, <1>3 DEF OrderMessage
<1>5. list' = [list EXCEPT ![o] = TakenIn(m, list[o])]
  <2>1. CASE m.type = "created"
    <3>1. list' = prependOrder(o, m.row)
      BY <2>1 DEF Receive
    <3> QED BY <1>2, <1>4, <2>1, <3>1 DEF prependOrder, Shows, TakenIn
  <2>2. CASE m.type = "updated"
    <3>1. list' = upsertOrderPartial(o, m.row)
      BY <2>2 DEF Receive
    <3>2. CASE list[o] = <<>>
      BY <1>2, <1>4, <2>2, <3>1, <3>2 DEF upsertOrderPartial, Replaced, Shows, TakenIn
    <3>3. CASE list[o] # <<>>
      <4>1. list' = [list EXCEPT ![o][1] = m.row]
        BY <3>1, <3>3 DEF upsertOrderPartial, Replaced, Shows
      <4>2. TakenIn(m, list[o]) = [list[o] EXCEPT ![1] = m.row]
        BY <2>2, <3>3 DEF TakenIn
      <4> QED BY <4>1, <4>2
    <3> QED BY <3>2, <3>3
  <2>3. CASE m.type = "removed"
    <3>1. list' = removeOrderById(o)
      BY <2>3 DEF Receive
    <3> QED BY <2>3, <3>1 DEF removeOrderById, TakenIn
  <2> QED BY <1>4, <2>1, <2>2, <2>3
<1>6. TakenIn(m, list[o]) \in Seq(OrderRow)
  BY <1>3, <1>4, TakenInRows
<1>7. ListTypes'
  <2>1. list' \in [Orders -> Seq(OrderRow)] /\ crossed' \subseteq Orders
    BY <1>1, <1>2, <1>4, <1>5, <1>6
  <2>2. emitted' \in 0..Len(feed')
    <3>1. Len(Tail(feed)) = Len(feed) - 1
      BY <1>2, HeadTailProperties
    <3> QED BY <1>1, <3>1, FeedFacts
  <2> QED BY <1>1, <1>3, <2>1, <2>2 DEF ListInv, ListTypes
<1>8. crossed \subseteq crossed'
  BY <1>1
<1>9. \A x \in Orders \ crossed' : Tells(feed', x, server'[x])
  BY <1>1, <1>2, <1>8, TakenInOK
<1>10. /\ \A x \in Orders \ (crossed \cup {o}) :
             /\ \A rows : Replays(feed, x, server[x], rows) => Replays(feed', x, server[x], rows)
             /\ \A row : Latest(row, feed, x, server[x]) => Latest(row, feed', x, server[x])
       /\ o \notin crossed =>
             /\ \A rows \in Seq(OrderRow) :
                   Replays(feed, o, server[o], rows) => Replays(feed', o, server[o], TakenIn(m, rows))
             /\ \A row : /\ Latest(row, feed, o, server[o])
                         /\ \E k \in DOMAIN feed : feed[k].id = o /\ feed[k].row = row
                         => Latest(row, feed', o, server[o])
  BY <1>1, <1>2, <1>4, TakenInOK
<1>11. ASSUME NEW x \in Orders \ crossed', NEW i \in DOMAIN requests
       PROVE  Brings(requests[i], feed', x, server[x])
  <2>1. Brings(requests[i], feed, x, server[x])
    BY <1>1, <1>11 DEF ListInv
  <2>2. CASE x = o
    <3>1. ~Crosses(x)
      BY <1>1, <1>11, <2>2
    <3>2. requests[i].state = "ok" => requests[i].kind # "fetch"
      BY <3>1 DEF Crosses
    <3>3. ASSUME requests[i].state = "ok", requests[i].kind \in {"status", "assign"},
                 requests[i].id = x
          PROVE  Latest(requests[i].row, feed', x, server[x])
      <4>1. PICK k \in DOMAIN feed : Own(requests[i], feed[k])
        BY <3>1, <3>3 DEF Crosses
      <4>2. feed[k].id = x /\ feed[k].row = requests[i].row
        BY <3>3, <4>1 DEF Own
      <4>3. Latest(requests[i].row, feed, x, server[x])
        BY <2>1, <3>3 DEF Brings
      <4>4. o \notin crossed
        BY <1>8, <1>11, <2>2
      <4> QED BY <1>10, <2>2, <4>2, <4>3, <4>4
    <3> QED BY <3>2, <3>3 DEF Brings
  <2>3. CASE x # o
    <3>1. x \in Orders \ (crossed \cup {o})
      BY <1>8, <1>11, <2>3
    <3> QED BY <1>10, <2>1, <3>1 DEF Brings
  <2> QED BY <2>2, <2>3
<1>12. ASSUME OnScreen, NEW x \in Orders \ crossed'
       PROVE  Kept(requests, feed', x, server[x], list'[x], pending)
  <2>1. Kept(requests, feed, x, server[x], list[x], pending)
    BY <1>1, <1>12 DEF ListInv
  <2>2. CASE x = o
    <3>1. ~Crosses(x)
      BY <1>1, <1>12, <2>2
    <3>2. pending.id # x /\ ~CancelIn(requests, x)
      BY <3>1 DEF Crosses, CancelIn, IsCancel
    <3>3. Replays(feed', x, server[x], TakenIn(m, list[x]))
      BY <1>4, <1>8, <1>10, <1>12, <2>1, <2>2, <3>2 DEF Kept
    <3>4. list'[x] = TakenIn(m, list[x])
      BY <1>2, <1>4, <1>5, <2>2
    <3> QED BY <3>2, <3>3, <3>4, KeptShown
  <2>3. CASE x # o
    <3>1. list'[x] = list[x]
      BY <1>2, <1>5, <2>3
    <3>2. x \in Orders \ (crossed \cup {o})
      BY <1>8, <1>12, <2>3
    <3> QED BY <1>10, <2>1, <3>1, <3>2, KeptTold
  <2> QED BY <2>2, <2>3
<1>13. OnScreen' => OnScreen
  BY <1>1 DEF OnScreen
<1> QED BY <1>1, <1>7, <1>9, <1>11, <1>12, <1>13 DEF ListInv

\* The server reads the rows.
LEMMA HandleFetchStep ==
    ASSUME ListInv, NEW i \in DOMAIN requests, HandleFetch(i)
    PROVE  ListInv'
<1> DEFINE e == [requests[i] EXCEPT !.state = "ok", !.rows = Rows]
<1>1. /\ requests[i].kind = "fetch" /\ requests[i].state = "sent"
      /\ requests' = [requests EXCEPT ![i].state = "ok", ![i].rows = Rows]
      /\ crossed' = IF Len(requests) = 1 /\ pending = NoPending
                    THEN crossed \cap {feed[k].id : k \in DOMAIN feed} ELSE crossed
      /\ UNCHANGED <<server, feed, emitted, connected, mounted, list, loading, error, moves, pending, role>>
  BY DEF HandleFetch
<1>2. /\ ListTypes /\ requests \in Seq(GoodRequests) /\ requests[i] \in RequestOf
      /\ requests[i] \in GoodRequests
      /\ \A o \in Orders : server[o] \in OrderRow
      /\ \A o \in Orders \ crossed : Tells(feed, o, server[o])
      /\ crossed' \subseteq crossed
  BY <1>1, RequestsOK DEF ListInv
<1>0. \A o \in Orders \ crossed' : Tells(feed, o, server[o])
  <2> SUFFICES ASSUME NEW o \in Orders \ crossed', o \in crossed
               PROVE  Tells(feed, o, server[o])
    BY <1>2
  <2>1. \A k \in DOMAIN feed : feed[k].id # o
    BY <1>1
  <2> QED BY <2>1 DEF Tells
<1>3. Rows \in [Orders -> Seq(OrderRow)] /\ \A o \in Orders : Rows[o] = ShownAs(server[o])
  <2>1. \A o \in Orders : Rows[o] \in Seq(OrderRow) /\ Rows[o] = ShownAs(server[o])
    BY <1>2, RowsShown
  <2> QED BY <2>1 DEF Rows
<1>4. /\ e \in RequestOf /\ e.kind = "fetch" /\ e.rows = Rows /\ e.state = "ok"
      /\ e.id = requests[i].id /\ e.then = requests[i].then
  BY <1>1, <1>2, <1>3 DEF RequestOf
<1>5. e \in GoodRequests
  BY <1>1, <1>2, <1>4 DEF GoodRequests, RequestOK
<1>6. requests' = [requests EXCEPT ![i] = e]
  BY <1>1
<1> HIDE DEF e
<1>7. /\ requests' \in Seq(GoodRequests) /\ DOMAIN requests' = DOMAIN requests
      /\ requests'[i] = e /\ \A j \in DOMAIN requests \ {i} : requests'[j] = requests[j]
      /\ (Len(requests) = 1 => DOMAIN requests = {i})
  <2>1. requests' \in Seq(GoodRequests)
    BY <1>2, <1>5, <1>6, ExceptSeq, LenProperties
  <2>2. DOMAIN requests = 1..Len(requests)
    BY <1>2, LenProperties
  <2> QED BY <1>6, <2>1, <2>2
<1>8. ListTypes'
  BY <1>1, <1>2, <1>7 DEF ListTypes
<1>9. ASSUME NEW o \in Orders \ crossed', NEW j \in DOMAIN requests'
      PROVE  Brings(requests'[j], feed, o, server[o])
  <2>1. CASE j = i
    <3>1. Replays(feed, o, server[o], e.rows[o])
      BY <1>0, <1>2, <1>3, <1>4, <1>9, ReplaysShown
    <3> QED BY <1>4, <1>7, <2>1, <3>1 DEF Brings
  <2>2. CASE j # i
    <3>1. o \in Orders \ crossed
      BY <1>1, <1>7, <1>9, <2>2
    <3> QED BY <1>7, <1>9, <2>2, <3>1 DEF ListInv
  <2> QED BY <2>1, <2>2
<1>10. FetchIn(requests')
  BY <1>4, <1>7 DEF FetchIn
<1> QED BY <1>0, <1>1, <1>8, <1>9, <1>10 DEF ListInv, OnScreen

\* The server does what is asked of it.
LEMMA HandleStep ==
    ASSUME ListInv, NEW i \in DOMAIN requests, Handle(i)
    PROVE  ListInv'
<1> DEFINE r == requests[i]
           row == server[r.id]
           done(type, after, answer) ==
               Change(r.id, type, after)
               /\ requests' = [requests EXCEPT ![i].state = "written", ![i].row = answer]
<1>1. /\ r.kind # "fetch" /\ r.state = "sent"
      /\ \/ r.kind = "cancel" /\ row.status = "PENDING" /\ done("removed", Gone, r.row)
         \/ /\ r.kind = "status" /\ Follows(row.status, r.row.status)
            /\ LET after == [row EXCEPT !.status = r.row.status] IN done("updated", after, after)
         \/ /\ r.kind = "assign" /\ row.status = "READY_FOR_DELIVERY"
            /\ LET after == [row EXCEPT !.courier = TRUE] IN done("updated", after, after)
      /\ UNCHANGED <<emitted, connected, mounted, list, loading, error, moves, pending, role,
                     crossed>>
  BY DEF Handle
<1>2. /\ ListTypes /\ requests \in Seq(GoodRequests) /\ r \in RequestOf /\ r \in GoodRequests
      /\ Gone \in OrderRow
  BY RequestsOK DEF ListInv
<1>3. r.id \in Orders /\ row \in OrderRow /\ r.row \in OrderRow /\ server \in [Orders -> OrderRow]
  BY <1>1, <1>2 DEF GoodRequests, RequestOf, RequestOK, ListTypes
<1>4. PICK type \in {"removed", "updated"}, after \in OrderRow, answer \in OrderRow :
         /\ done(type, after, answer) /\ Becomes(row, type, after)
         /\ type = "removed" <=> r.kind = "cancel"
         /\ r.kind # "cancel" => answer = after
  <2>1. CASE r.kind = "cancel" /\ row.status = "PENDING" /\ done("removed", Gone, r.row)
    <3>1. Becomes(row, "removed", Gone)
      BY <1>2, <2>1 DEF Becomes, Gone
    <3> HIDE DEF done, row, r
    <3> QED BY <1>2, <1>3, <2>1, <3>1
  <2>2. CASE /\ r.kind = "status" /\ Follows(row.status, r.row.status)
             /\ LET new == [row EXCEPT !.status = r.row.status] IN done("updated", new, new)
    <3> DEFINE new == [row EXCEPT !.status = r.row.status]
    <3>1. row.status \in {"PENDING"} \cup Taken /\ r.row.status \in Taken
      BY <2>2, StatusSet
    <3>2. new \in OrderRow /\ Becomes(row, "updated", new)
      BY <1>3, <3>1 DEF Becomes, OrderRow
    <3>3. done("updated", new, new)
      BY <2>2
    <3> HIDE DEF done, row, new, r
    <3> QED BY <1>3, <2>2, <3>2, <3>3
  <2>3. CASE /\ r.kind = "assign" /\ row.status = "READY_FOR_DELIVERY"
             /\ LET new == [row EXCEPT !.courier = TRUE] IN done("updated", new, new)
    <3> DEFINE new == [row EXCEPT !.courier = TRUE]
    <3>1. new \in OrderRow /\ Becomes(row, "updated", new)
      BY <1>3, <2>3 DEF Becomes, OrderRow, Taken
    <3>2. done("updated", new, new)
      BY <2>3
    <3> HIDE DEF done, row, new, r
    <3> QED BY <1>3, <2>3, <3>1, <3>2
  <2> QED BY <1>1, <2>1, <2>2, <2>3
<1>5. FeedStep /\ HeardOf(feed', r.id, type)
  <2>1. Change(r.id, type, after)
    BY <1>4
  <2> QED BY <1>1, <1>3, <1>4, <2>1, ChangedFeed
<1> DEFINE e == [requests[i] EXCEPT !.state = "written", !.row = answer]
<1>6. /\ e \in RequestOf /\ e.kind = r.kind /\ e.state = "written" /\ e.id = r.id
      /\ e.then = r.then /\ e.row = answer
  BY <1>2, <1>4 DEF RequestOf
<1>7. e \in GoodRequests
  <2>1. r.kind \in {"status", "assign"} => answer.status \in Taken
    BY <1>4 DEF Becomes
  <2> QED BY <1>2, <1>6, <2>1 DEF GoodRequests, RequestOK
<1>8. requests' = [requests EXCEPT ![i] = e]
  BY <1>4
<1> HIDE DEF e, done
<1>9. /\ requests' \in Seq(GoodRequests) /\ DOMAIN requests' = DOMAIN requests
      /\ requests'[i] = e /\ \A j \in DOMAIN requests \ {i} : requests'[j] = requests[j]
  <2>1. requests' \in Seq(GoodRequests)
    BY <1>2, <1>7, <1>8, ExceptSeq, LenProperties
  <2>2. DOMAIN requests = 1..Len(requests)
    BY <1>2, LenProperties
  <2> QED BY <1>8, <2>1, <2>2
<1>10. ListTypes'
  BY <1>1, <1>2, <1>5, <1>9 DEF ListTypes, FeedStep
<1>11. ASSUME NEW o \in Orders \ crossed', NEW j \in DOMAIN requests'
       PROVE  Brings(requests'[j], feed', o, server'[o])
  <2>1. CASE j = i
    BY <1>6, <1>9, <2>1 DEF Brings
  <2>2. CASE j # i
    BY <1>5, <1>9, <1>11, <2>2, BringsOn
  <2> QED BY <2>1, <2>2
<1>12. ASSUME OnScreen, NEW o \in Orders \ crossed'
       PROVE  Kept(requests', feed', o, server'[o], list'[o], pending')
  <2>1. Kept(requests, feed', o, server'[o], list[o], pending)
    BY <1>5, <1>12, KeptOn
  <2>2. ~IsCancel(e, o)
    BY <1>6 DEF IsCancel
  <2>3. IsCancel(requests[i], o) => Replays(feed', o, server'[o], <<>>)
    <3>1. SUFFICES ASSUME IsCancel(requests[i], o)
                   PROVE  Replays(feed', o, server'[o], <<>>)
      OBVIOUS
    <3>2. r.id = o /\ type = "removed" /\ HeardOf(feed', o, type)
      BY <1>4, <1>5, <1>12, <3>1 DEF IsCancel
    <3>3. server'[o].status = "GONE"
      BY <1>5, <1>12, <3>2 DEF HeardOf, FeedStep, Carries, Tells
    <3>4. Heard(feed', o)
      BY <3>2 DEF Heard, HeardOf
    <3>5. Len(<<>>) <= 1
      BY EmptySeq
    <3> QED BY <3>3, <3>4, <3>5 DEF Replays, Taken
  <2> QED BY <1>1, <1>2, <1>8, <2>1, <2>2, <2>3, KeptAnswered
<1>13. OnScreen' => OnScreen
  <2>1. FetchIn(requests') <=> FetchIn(requests)
    <3>1. \A j \in DOMAIN requests : requests'[j].kind = requests[j].kind
      BY <1>6, <1>9
    <3> QED BY <1>9, <3>1 DEF FetchIn
  <2> QED BY <1>1, <2>1 DEF OnScreen
<1> QED BY <1>5, <1>10, <1>11, <1>12, <1>13 DEF ListInv, FeedStep, Carries

\* An answer comes.
LEMMA AnswerStep ==
    ASSUME ListInv, NEW k \in DOMAIN requests, Answer(k)
    PROVE  ListInv'
<1> DEFINE r == requests[k]
           rest == RemoveAt(requests, k)
<1>1. /\ r.state = "ok" /\ requests' = rest
      /\ list' = CASE r.kind = "fetch" -> r.rows
                   [] r.kind = "cancel" -> list
                   [] OTHER -> Replaced(r.id, r.row)
      /\ crossed' = crossed \cup Overtaken(k)
      /\ UNCHANGED <<server, feed, emitted, connected, mounted, error, moves, pending, role>>
  BY DEF Answer
<1>2. /\ ListTypes /\ requests \in Seq(GoodRequests) /\ r \in RequestOf /\ r \in GoodRequests
      /\ list \in [Orders -> Seq(OrderRow)] /\ crossed \subseteq Orders
      /\ \A o \in Orders : server[o] \in OrderRow
  BY RequestsOK DEF ListInv
<1>3. FeedStep
  <2>1. Overtaken(k) \subseteq Orders
    BY DEF Overtaken
  <2> QED BY <1>1, <1>2, <2>1, QuietFeed
<1>4. /\ rest \in Seq(GoodRequests)
      /\ \A j \in DOMAIN rest : \E i \in DOMAIN requests \ {k} : rest[j] = requests[i]
  BY <1>2, OneLess
<1>5. ASSUME NEW o \in Orders, r.kind \in {"status", "assign"}
      PROVE  /\ list'[o] = IF o = r.id /\ list[o] # <<>> THEN [list[o] EXCEPT ![1] = r.row] ELSE list[o]
             /\ list' \in [Orders -> Seq(OrderRow)]
  <2>1. list' = Replaced(r.id, r.row)
    BY <1>1, <1>5
  <2>2. r.id \in Orders /\ list[r.id] \in Seq(OrderRow) /\ r.row \in OrderRow
    BY <1>2, <1>5 DEF GoodRequests, RequestOK, RequestOf
  <2>3. CASE list[r.id] = <<>>
    BY <1>2, <2>1, <2>2, <2>3 DEF Replaced, Shows
  <2>4. CASE list[r.id] # <<>>
    <3> DEFINE new == [list[r.id] EXCEPT ![1] = r.row]
    <3>1. list' = [list EXCEPT ![r.id] = new]
      BY <2>1, <2>4 DEF Replaced, Shows
    <3>2. 1 \in 1..Len(list[r.id])
      BY <2>2, <2>4, EmptySeq
    <3>3. new \in Seq(OrderRow)
      BY <2>2, <3>2, ExceptSeq
    <3> HIDE DEF new
    <3>4. list' \in [Orders -> Seq(OrderRow)] /\ list'[r.id] = new
          /\ \A x \in Orders \ {r.id} : list'[x] = list[x]
      BY <1>2, <2>2, <3>1, <3>3
    <3> QED BY <2>4, <3>4 DEF new
  <2> QED BY <2>3, <2>4
<1>6. r.kind \in {"fetch", "cancel", "status", "assign"} /\ r.rows \in [Orders -> Seq(OrderRow)]
  BY <1>2 DEF RequestOf
<1>7. (r.kind = "fetch" => list' = r.rows) /\ (r.kind = "cancel" => list' = list)
  BY <1>1
<1> HIDE DEF r, rest
<1>8. ListTypes'
  <2>1. list' \in [Orders -> Seq(OrderRow)]
    <3>1. CASE r.kind \in {"status", "assign"}
      <4>1. ASSUME NEW o \in Orders
            PROVE  list' \in [Orders -> Seq(OrderRow)]
        BY <1>5, <3>1
      <4>2. r.id \in Orders
        BY <1>2, <3>1 DEF GoodRequests, RequestOK
      <4> QED BY <4>1, <4>2
    <3> QED BY <1>2, <1>6, <1>7, <3>1
  <2> QED BY <1>1, <1>2, <1>3, <1>4, <2>1 DEF ListTypes, FeedStep
<1>9. ASSUME NEW o \in Orders \ crossed', NEW j \in DOMAIN requests'
      PROVE  Brings(requests'[j], feed', o, server'[o])
  BY <1>1, <1>3, <1>4, BringsOn
<1>10. ASSUME OnScreen', NEW o \in Orders \ crossed'
       PROVE  Kept(requests', feed', o, server'[o], list'[o], pending')
  <2>1. o \in Orders \ crossed /\ ~IsCancel(r, o) /\ ~FetchIn(rest)
    BY <1>1, <1>10 DEF IsCancel, OnScreen
  <2>2. Brings(r, feed, o, server[o])
    BY <2>1 DEF ListInv, r
  <2>3. CASE r.kind = "fetch"
    <3>1. \A j \in DOMAIN requests \ {k} : requests[j].kind # "fetch"
      BY <1>2, <2>1, KeptByRemoval DEF FetchIn, rest
    <3>2. o \notin {pending.id} \cup {requests[j].id : j \in DOMAIN requests}
      BY <1>1, <1>10, <2>3, <3>1 DEF Overtaken, r
    <3>3. ~CancelIn(rest, o)
      BY <1>4, <3>2 DEF CancelIn, IsCancel
    <3>4. Replays(feed, o, server[o], r.rows[o])
      BY <1>1, <2>2, <2>3 DEF Brings
    <3> QED BY <1>1, <1>7, <2>3, <3>2, <3>3, <3>4, KeptShown
  <2>4. CASE r.kind # "fetch"
    <3>1. OnScreen
      BY <1>1, <1>2, <1>10, <2>1, <2>4, FetchKept DEF OnScreen, r, rest
    <3>2. Kept(requests, feed, o, server[o], list[o], pending)
      BY <2>1, <3>1 DEF ListInv
    <3>3. Kept(rest, feed, o, server[o], list[o], pending)
      BY <1>2, <2>1, <3>2, KeptLess DEF r, rest
    <3>4. CASE list'[o] = list[o]
      BY <1>1, <3>3, <3>4
    <3>5. CASE list'[o] # list[o]
      <4>1. /\ r.kind \in {"status", "assign"} /\ o = r.id /\ list[o] # <<>>
            /\ list'[o] = [list[o] EXCEPT ![1] = r.row]
        BY <1>5, <1>6, <1>7, <2>4, <3>5
      <4>2. ~CancelIn(rest, o) /\ pending.id # o /\ Replays(feed, o, server[o], list[o])
        BY <3>3, <4>1 DEF Kept
      <4>3. Latest(r.row, feed, o, server[o])
        BY <1>1, <2>2, <4>1 DEF Brings
      <4>4. /\ Heard(feed, o) => server[o].status # "PENDING"
            /\ ~Heard(feed, o) => r.row = server[o] /\ server[o].status \in Taken
        BY <4>3 DEF Latest
      <4>5. list[o] \in Seq(OrderRow) /\ r.row \in OrderRow
        BY <1>2 DEF RequestOf
      <4>6. Len(list'[o]) = Len(list[o]) /\ list'[o] # <<>>
        <5>1. 1 \in 1..Len(list[o])
          BY <4>1, <4>5, EmptySeq
        <5>2. Len(list'[o]) = Len(list[o]) /\ Len(list[o]) # 0 /\ Len(<<>>) = 0
          BY <4>1, <4>5, <5>1, ExceptSeq, EmptySeq
        <5> QED BY <5>2
      <4>7. Replays(feed, o, server[o], list'[o])
        <5>1. CASE Heard(feed, o)
          BY <4>2, <4>4, <4>6, <5>1 DEF Replays
        <5>2. CASE ~Heard(feed, o)
          <6>1. ShownAs(server[o]) = <<server[o]>> /\ list[o] = <<server[o]>>
            BY <4>2, <4>4, <5>2 DEF Replays, ShownAs
          <6>2. list'[o] = list[o]
            BY <4>1, <4>4, <4>5, <5>2, <6>1
          <6> QED BY <4>2, <6>2
        <5> QED BY <5>1, <5>2
      <4> QED BY <1>1, <4>2, <4>7, KeptShown
    <3> QED BY <3>4, <3>5
  <2> QED BY <2>3, <2>4
<1> QED BY <1>3, <1>8, <1>9, <1>10 DEF ListInv, FeedStep, Carries

\* A row comes back to the list.
LEMMA RestoredRow ==
    ASSUME ListTypes, NEW o \in Orders, NEW row \in OrderRow, list' \in restoreLocal(o, row)
    PROVE  /\ list' \in [Orders -> Seq(OrderRow)]
           /\ \A x \in Orders \ {o} : list'[x] = list[x]
           /\ list[o] = <<>> => list'[o] = <<row>>
<1>1. /\ list \in [Orders -> Seq(OrderRow)] /\ list[o] \in Seq(OrderRow)
      /\ <<row>> \in Seq(OrderRow)
  BY OneAlone DEF ListTypes
<1>2. <<row>> \o list[o] \in Seq(OrderRow) /\ Append(list[o], row) \in Seq(OrderRow)
  BY <1>1, ConcatProperties, AppendProperties
<1>3. <<row>> \o <<>> = <<row>> /\ Append(<<>>, row) = <<row>>
  BY OneAlone
<1>4. PICK rows \in {<<row>> \o list[o], Append(list[o], row)} : list' = [list EXCEPT ![o] = rows]
  BY DEF restoreLocal
<1>5. rows \in Seq(OrderRow) /\ (list[o] = <<>> => rows = <<row>>)
  BY <1>2, <1>3, <1>4
<1> QED BY <1>1, <1>4, <1>5

\* The server refuses, or the connection breaks.
LEMMA FailStep ==
    ASSUME ListInv, NEW k \in DOMAIN requests, Fail(k)
    PROVE  ListInv'
<1> DEFINE r == requests[k]
           rest == RemoveAt(requests, k)
<1>1. /\ IF r.then = "refetch" THEN Ask(rest, Fetch) ELSE requests' = rest /\ moves' = moves
      /\ list' \in IF r.then = "restore" THEN restoreLocal(r.id, r.row) ELSE {list}
      /\ error' = (r.then # "refetch")
      /\ crossed' = IF r.kind = "fetch" /\ pending # NoPending THEN Orders
                    ELSE IF r.state # "sent" THEN crossed \cup ({r.id} \cap Orders)
                    ELSE crossed
      /\ UNCHANGED <<server, feed, emitted, connected, mounted, pending, role>>
  BY DEF Fail
<1>2. /\ ListTypes /\ requests \in Seq(GoodRequests) /\ r \in RequestOf /\ r \in GoodRequests
      /\ Fetch \in GoodRequests
      /\ list \in [Orders -> Seq(OrderRow)] /\ crossed \subseteq Orders
  BY RequestsOK DEF ListInv
<1>3. FeedStep
  <2>1. crossed \subseteq crossed' /\ crossed' \subseteq Orders
    BY <1>1, <1>2
  <2> QED BY <1>1, <2>1, QuietFeed
<1>4. /\ rest \in Seq(GoodRequests)
      /\ \A j \in DOMAIN rest : \E i \in DOMAIN requests : rest[j] = requests[i]
  BY <1>2, OneLess
<1>5. /\ r.kind = "fetch" => r.then = "none"
      /\ r.kind # "fetch" => r.id \in Orders
      /\ r.row \in OrderRow
  BY <1>2 DEF GoodRequests, RequestOK, RequestOf
<1>6. /\ list' \in [Orders -> Seq(OrderRow)]
      /\ \A o \in Orders : o # r.id \/ r.then # "restore" => list'[o] = list[o]
      /\ r.then = "restore" /\ list[r.id] = <<>> => list'[r.id] = <<r.row>>
  <2>1. CASE r.then = "restore"
    <3>1. r.id \in Orders /\ list' \in restoreLocal(r.id, r.row)
      BY <1>1, <1>5, <2>1
    <3> HIDE DEF r
    <3> QED BY <1>2, <1>5, <2>1, <3>1, RestoredRow
  <2>2. CASE r.then # "restore"
    BY <1>1, <1>2, <2>2
  <2> QED BY <2>1, <2>2
<1>7. CASE r.then = "refetch"
  <2>1. requests' = Append(rest, Fetch)
    BY <1>1, <1>7 DEF Ask
  <2> HIDE DEF r, rest
  <2>2. /\ requests' \in Seq(GoodRequests) /\ FetchIn(requests')
        /\ \A j \in DOMAIN requests' : \/ j \in DOMAIN rest /\ requests'[j] = rest[j]
                                       \/ requests'[j] = Fetch
    <3>1. Fetch.kind = "fetch"
      BY DEF Fetch
    <3> QED BY <1>2, <1>4, <2>1, <3>1, OneMore, FetchMore
  <2>3. ListTypes'
    BY <1>1, <1>2, <1>3, <1>6, <2>2 DEF ListTypes, FeedStep
  <2>4. ASSUME NEW o \in Orders \ crossed', NEW j \in DOMAIN requests'
        PROVE  Brings(requests'[j], feed', o, server'[o])
    <3>1. requests'[j].state = "sent" \/ \E i \in DOMAIN requests : requests'[j] = requests[i]
      BY <1>4, <2>2, <2>4 DEF Fetch
    <3> QED BY <1>3, <2>4, <3>1, BringsOn
  <2> QED BY <1>3, <2>2, <2>3, <2>4 DEF ListInv, FeedStep, Carries, OnScreen
<1>8. CASE r.then # "refetch"
  <2>1. requests' = rest /\ error'
    BY <1>1, <1>8
  <2>2. ListTypes'
    BY <1>1, <1>2, <1>3, <1>4, <1>6, <2>1 DEF ListTypes, FeedStep
  <2>3. ASSUME NEW o \in Orders \ crossed', NEW j \in DOMAIN requests'
        PROVE  Brings(requests'[j], feed', o, server'[o])
    BY <1>3, <1>4, <2>1, <2>3, BringsOn
  <2>4. ASSUME OnScreen', NEW o \in Orders \ crossed'
        PROVE  Kept(requests', feed', o, server'[o], list'[o], pending')
    <3>1. pending # NoPending /\ ~FetchIn(rest) /\ mounted
      BY <1>1, <2>1, <2>4 DEF OnScreen
    <3>2. r.kind # "fetch" /\ o \in Orders \ crossed /\ (r.state # "sent" => r.id # o)
      BY <1>1, <1>2, <2>4, <3>1
    <3>3. OnScreen
      BY <1>2, <3>1, <3>2, FetchKept DEF OnScreen
    <3>4. Kept(requests, feed, o, server[o], list[o], pending)
      BY <3>2, <3>3 DEF ListInv
    <3>5. CASE IsCancel(r, o)
      <4>1. r.id = o /\ r.then = "restore"
        BY <1>2, <1>8, <3>5 DEF IsCancel, RequestOf, RequestOK, GoodRequests
      <4>2. /\ list[o] = <<>> /\ pending.id # o /\ Replays(feed, o, server[o], <<r.row>>)
            /\ \A i \in DOMAIN requests : IsCancel(requests[i], o) => i = k
        BY <3>4, <3>5, <4>1 DEF Kept, CancelIn
      <4>3. ~CancelIn(rest, o)
        BY <1>2, <4>2, CancelLess
      <4>4. list'[o] = <<r.row>>
        BY <1>6, <4>1, <4>2
      <4> QED BY <1>1, <2>1, <4>2, <4>3, <4>4, KeptShown
    <3>6. CASE ~IsCancel(r, o)
      <4>1. list'[o] = list[o]
        <5>1. o = r.id => r.then # "restore"
          BY <1>2, <3>2, <3>6 DEF IsCancel, RequestOf, RequestOK, GoodRequests
        <5> QED BY <1>6, <5>1
      <4>2. Kept(rest, feed, o, server[o], list[o], pending)
        BY <1>2, <3>4, <3>6, KeptLess
      <4> QED BY <1>1, <2>1, <4>1, <4>2
    <3> QED BY <3>5, <3>6
  <2> QED BY <1>3, <2>2, <2>3, <2>4 DEF ListInv, FeedStep, Carries
<1> QED BY <1>7, <1>8

\* A request more.
LEMMA RequestAdded ==
    ASSUME ListInv, FeedStep, NEW r \in GoodRequests, r.state = "sent",
           requests' = Append(requests, r)
    PROVE  /\ requests' \in Seq(GoodRequests)
           /\ FetchIn(requests') <=> (FetchIn(requests) \/ r.kind = "fetch")
           /\ \A o \in Orders \ crossed' : \A j \in DOMAIN requests' :
                 Brings(requests'[j], feed', o, server'[o])
<1>1. requests \in Seq(GoodRequests)
  BY DEF ListInv, ListTypes
<1>2. /\ requests' \in Seq(GoodRequests)
      /\ \A j \in DOMAIN requests' : \/ j \in DOMAIN requests /\ requests'[j] = requests[j]
                                     \/ requests'[j] = r
  BY <1>1, OneMore
<1>3. FetchIn(requests') <=> (FetchIn(requests) \/ r.kind = "fetch")
  BY <1>1, FetchMore
<1>4. ASSUME NEW o \in Orders \ crossed', NEW j \in DOMAIN requests'
      PROVE  Brings(requests'[j], feed', o, server'[o])
  <2>1. requests'[j].state = "sent" \/ \E i \in DOMAIN requests : requests'[j] = requests[i]
    BY <1>2, <1>4
  <2> QED BY <1>4, <2>1, BringsOn
<1> QED BY <1>2, <1>3, <1>4

\* The list is fetched: nothing depends on what is shown.
LEMMA LoadSteps ==
    ASSUME ListInv, Open \/ TryAgain
    PROVE  ListInv'
<1>1. /\ requests' = Append(requests, Fetch)
      /\ UNCHANGED <<server, feed, emitted, connected, list, pending, role, crossed>>
  BY DEF Open, TryAgain, Load, Ask
<1>2. Fetch \in GoodRequests /\ Fetch.state = "sent" /\ Fetch.kind = "fetch" /\ ListTypes
  BY RequestsOK DEF Fetch, ListInv
<1>3. FeedStep
  BY <1>1, QuietFeed, FeedFacts
<1>4. ListTypes'
  BY <1>1, <1>2, <1>3, RequestAdded DEF ListTypes, FeedStep
<1>5. ~OnScreen'
  BY <1>1, <1>2, <1>3, RequestAdded DEF OnScreen
<1>6. \A o \in Orders \ crossed' : \A j \in DOMAIN requests' :
         Brings(requests'[j], feed', o, server'[o])
  BY <1>1, <1>2, <1>3, RequestAdded
<1> QED BY <1>3, <1>4, <1>5, <1>6 DEF ListInv, FeedStep, Carries

\* The supplier changes a status or assigns a courier.
LEMMA SupplierSteps ==
    ASSUME ListInv, NEW o \in Orders, handleStatusUpdate(o) \/ handleAssignCourier(o)
    PROVE  ListInv'
<1>1. /\ UNCHANGED <<server, feed, emitted, connected, mounted, list, pending, role, crossed>>
      /\ Visible /\ ListTypes
  BY DEF handleStatusUpdate, handleAssignCourier, ListInv
<1>2. PICK r \in GoodRequests : /\ r.state = "sent" /\ r.kind \in {"status", "assign"}
                                /\ Load(r)
  <2>1. ASSUME NEW to \in ToSet(Status)
        PROVE  LET r == [Fetch EXCEPT !.kind = "status", !.id = o, !.row.status = to]
               IN  r \in GoodRequests /\ r.state = "sent" /\ r.kind = "status"
    <3> DEFINE row == [Fetch.row EXCEPT !.status = to]
               r == [Fetch EXCEPT !.kind = "status", !.id = o, !.row.status = to]
    <3>1. Fetch \in RequestOf /\ Fetch.state = "sent" /\ Fetch.then = "none" /\ Fetch.row \in OrderRow
      BY <1>1, RequestsOK DEF Fetch, GoodRequests
    <3>2. row \in OrderRow
      BY <2>1, <3>1, StatusSet DEF OrderRow
    <3>3. r = [Fetch EXCEPT !.kind = "status", !.id = o, !.row = row]
      OBVIOUS
    <3> HIDE DEF row, r
    <3>4. r \in RequestOf /\ r.state = "sent" /\ r.kind = "status" /\ r.then = "none" /\ r.id = o
      BY <3>1, <3>2, <3>3 DEF RequestOf
    <3>5. r \in GoodRequests
      BY <3>4 DEF GoodRequests, RequestOK
    <3> QED BY <3>4, <3>5 DEF r
  <2>2. LET r == [Fetch EXCEPT !.kind = "assign", !.id = o]
        IN  r \in GoodRequests /\ r.state = "sent" /\ r.kind = "assign"
    <3> DEFINE r == [Fetch EXCEPT !.kind = "assign", !.id = o]
    <3>1. Fetch \in RequestOf /\ Fetch.state = "sent" /\ Fetch.then = "none"
      BY <1>1, RequestsOK DEF Fetch, GoodRequests
    <3>2. r \in RequestOf /\ r.state = "sent" /\ r.kind = "assign" /\ r.then = "none" /\ r.id = o
      BY <3>1 DEF RequestOf
    <3> HIDE DEF r
    <3>3. r \in GoodRequests
      BY <3>2 DEF GoodRequests, RequestOK
    <3> QED BY <3>2, <3>3 DEF r
  <2>3. CASE handleStatusUpdate(o)
    <3>1. PICK to \in ToSet(Status) :
             Load([Fetch EXCEPT !.kind = "status", !.id = o, !.row.status = to])
      BY <2>3 DEF handleStatusUpdate
    <3> QED BY <2>1, <3>1
  <2>4. CASE handleAssignCourier(o)
    <3>1. Load([Fetch EXCEPT !.kind = "assign", !.id = o])
      BY <2>4 DEF handleAssignCourier
    <3> QED BY <2>2, <3>1
  <2> QED BY <2>3, <2>4
<1>3. requests' = Append(requests, r)
  BY <1>2 DEF Load, Ask
<1>4. FeedStep
  BY <1>1, QuietFeed, FeedFacts
<1>5. ListTypes'
  BY <1>1, <1>2, <1>3, <1>4, RequestAdded DEF ListTypes, FeedStep
<1>6. \A x \in Orders \ crossed' : \A j \in DOMAIN requests' :
         Brings(requests'[j], feed', x, server'[x])
  BY <1>2, <1>3, <1>4, RequestAdded
<1>7. ASSUME OnScreen', NEW x \in Orders \ crossed'
      PROVE  Kept(requests', feed', x, server'[x], list'[x], pending')
  <2>1. OnScreen
    BY <1>1, <1>2, <1>3, <1>4, <1>7, RequestAdded DEF OnScreen, Visible
  <2>2. Kept(requests, feed', x, server'[x], list[x], pending)
    BY <1>4, <1>7, <2>1, KeptOn
  <2>3. ~IsCancel(r, x) /\ requests \in Seq(GoodRequests)
    BY <1>1, <1>2 DEF IsCancel, ListTypes
  <2> QED BY <1>1, <1>2, <1>3, <2>2, <2>3, KeptMore
<1> QED BY <1>4, <1>5, <1>6, <1>7 DEF ListInv, FeedStep, Carries

\* A cancel that waits is sent, and another one waits or none.
LEMMA CancelSent ==
    ASSUME ListInv, FeedStep, pending # NoPending, NEW then \in {"refetch", "restore"},
           Ask(requests, Cancel(pending, then))
    PROVE  /\ requests' \in Seq(GoodRequests) /\ (FetchIn(requests') <=> FetchIn(requests))
           /\ \A o \in Orders \ crossed' : \A j \in DOMAIN requests' :
                 Brings(requests'[j], feed', o, server'[o])
           /\ \A o, e, rows : /\ Kept(requests, feed, o, server[o], rows, pending)
                              /\ e.id # o
                              => Kept(requests', feed, o, server[o], rows, e)
<1> DEFINE r == Cancel(pending, then)
<1>1. /\ r \in GoodRequests /\ IsCancel(r, pending.id) /\ r.id = pending.id /\ r.then = then
      /\ then = "restore" => r.row = pending.row
      /\ requests \in Seq(GoodRequests)
  <2>1. ListTypes /\ pending \in [id : Orders, row : OrderRow]
    BY DEF ListInv, ListTypes
  <2> QED BY <2>1, RequestsOK
<1>2. requests' = Append(requests, r)
  BY DEF Ask
<1>3. r.state = "sent" /\ r.kind # "fetch"
  BY <1>1 DEF IsCancel
<1> HIDE DEF r
<1>4. ASSUME NEW o, NEW e, NEW rows, Kept(requests, feed, o, server[o], rows, pending), e.id # o
      PROVE  Kept(requests', feed, o, server[o], rows, e)
  BY <1>1, <1>2, <1>4, KeptSent
<1> QED BY <1>1, <1>2, <1>3, <1>4, RequestAdded

LEMMA FlushedCancel ==
    ASSUME ListInv, FeedStep, flushPendingCancel
    PROVE  /\ requests' \in Seq(GoodRequests) /\ (FetchIn(requests') <=> FetchIn(requests))
           /\ \A o \in Orders \ crossed' : \A j \in DOMAIN requests' :
                 Brings(requests'[j], feed', o, server'[o])
           /\ \A o \in Orders : \A e, rows :
                 Kept(requests, feed, o, server[o], rows, pending) /\ e.id # o =>
                    Kept(requests', feed, o, server[o], rows, e)
<1>1. CASE pending = NoPending
  <2>1. requests' = requests /\ requests \in Seq(GoodRequests)
    BY <1>1 DEF flushPendingCancel, ListInv, ListTypes
  <2>2. \A o \in Orders \ crossed' : \A j \in DOMAIN requests' :
           Brings(requests'[j], feed', o, server'[o])
    BY <2>1, BringsOn
  <2>3. \A o \in Orders : pending.id # o
    BY <1>1, ListAssumption
  <2> QED BY <2>1, <2>2, <2>3 DEF Kept
<1>2. CASE pending # NoPending
  <2>1. Ask(requests, Cancel(pending, "refetch"))
    BY <1>2 DEF flushPendingCancel
  <2> QED BY <1>2, <2>1, CancelSent
<1> QED BY <1>1, <1>2

LEMMA HandleCancelStep ==
    ASSUME ListInv, NEW o \in Orders, handleCancel(o)
    PROVE  ListInv'
<1>1. /\ Visible /\ list[o] # <<>> /\ flushPendingCancel
      /\ list' = [list EXCEPT ![o] = Tail(@)]
      /\ pending' = [id |-> o, row |-> list[o][1]]
      /\ UNCHANGED <<server, feed, emitted, connected, mounted, loading, role, crossed>>
  BY DEF handleCancel, Shows, removeLocal
<1>2. /\ ListTypes /\ list \in [Orders -> Seq(OrderRow)] /\ list[o] \in Seq(OrderRow)
  BY DEF ListInv, ListTypes
<1>3. /\ list[o][1] \in OrderRow /\ Tail(list[o]) \in Seq(OrderRow)
      /\ Len(list[o]) <= 1 => list[o] = <<list[o][1]>> /\ Tail(list[o]) = <<>>
  BY <1>1, <1>2, OneTaken, OneRow
<1>4. FeedStep
  BY <1>1, QuietFeed, FeedFacts
<1>5. ListTypes'
  <2>1. list' \in [Orders -> Seq(OrderRow)] /\ pending' \in [id : Orders, row : OrderRow]
    BY <1>1, <1>2, <1>3
  <2> QED BY <1>1, <1>4, <2>1, FlushedCancel DEF ListTypes, FeedStep
<1>6. ASSUME OnScreen', NEW x \in Orders \ crossed'
      PROVE  Kept(requests', feed', x, server'[x], list'[x], pending')
  <2>1. OnScreen
    BY <1>1, <1>4, <1>6, FlushedCancel DEF OnScreen, Visible
  <2>2. Kept(requests, feed, x, server[x], list[x], pending)
    BY <1>1, <1>6, <2>1 DEF ListInv
  <2>3. CASE x # o
    <3>1. list'[x] = list[x] /\ pending'.id # x
      BY <1>1, <1>2, <2>3
    <3>2. Kept(requests', feed, x, server[x], list[x], pending')
      BY <1>1, <1>4, <2>2, <3>1, FlushedCancel
    <3> QED BY <1>1, <3>1, <3>2
  <2>4. CASE x = o
    <3>1. ~CancelIn(requests, o) /\ pending.id # o /\ Replays(feed, o, server[o], list[o])
      BY <1>1, <2>2, <2>4 DEF Kept
    <3>2. list[o] = <<list[o][1]>> /\ list'[o] = <<>>
      BY <1>1, <1>2, <1>3, <3>1 DEF Replays
    <3>3. NoPending.id # o
      BY ListAssumption
    <3>4. Kept(requests', feed, o, server[o], list[o], NoPending)
      BY <1>1, <1>4, <2>2, <2>4, <3>3, FlushedCancel
    <3>5. ~CancelIn(requests', o)
      BY <1>1, <3>4 DEF Kept
    <3>6. pending'.id = o /\ pending'.row = list[o][1]
      BY <1>1
    <3>7. Kept(requests', feed, o, server[o], <<>>, pending')
      BY <3>1, <3>2, <3>5, <3>6 DEF Kept, CancelIn
    <3> QED BY <1>1, <2>4, <3>2, <3>7
  <2> QED BY <2>3, <2>4
<1>7. \A x \in Orders \ crossed' : \A j \in DOMAIN requests' :
         Brings(requests'[j], feed', x, server'[x])
  BY <1>1, <1>4, FlushedCancel
<1> QED BY <1>4, <1>5, <1>6, <1>7 DEF ListInv, FeedStep, Carries

LEMMA UndoStep == ListInv /\ undo => ListInv'
<1> SUFFICES ASSUME ListInv, undo
             PROVE  ListInv'
  OBVIOUS
<1>1. /\ pending # NoPending /\ list' \in restoreLocal(pending.id, pending.row)
      /\ pending' = NoPending
      /\ UNCHANGED <<server, feed, emitted, connected, mounted, loading, error, requests, moves, role, crossed>>
  BY DEF undo
<1>2. ListTypes /\ pending.id \in Orders /\ pending.row \in OrderRow
  BY <1>1 DEF ListInv, ListTypes
<1>3. /\ list' \in [Orders -> Seq(OrderRow)]
      /\ \A x \in Orders \ {pending.id} : list'[x] = list[x]
      /\ list[pending.id] = <<>> => list'[pending.id] = <<pending.row>>
  BY <1>1, <1>2, RestoredRow
<1>4. FeedStep
  BY <1>1, QuietFeed, FeedFacts
<1>5. ListTypes'
  BY <1>1, <1>2, <1>3, <1>4 DEF ListTypes, FeedStep
<1>6. \A o \in Orders \ crossed' : \A j \in DOMAIN requests' :
         Brings(requests'[j], feed', o, server'[o])
  BY <1>1, <1>4, BringsOn
<1>7. ASSUME OnScreen', NEW o \in Orders \ crossed'
      PROVE  Kept(requests', feed', o, server'[o], list'[o], pending')
  <2>1. OnScreen /\ NoPending.id # o
    BY <1>1, <1>7, ListAssumption DEF OnScreen
  <2>2. Kept(requests, feed, o, server[o], list[o], pending)
    BY <1>1, <1>7, <2>1 DEF ListInv
  <2>3. CASE pending.id = o
    <3>1. list'[o] = <<pending.row>> /\ ~CancelIn(requests, o)
          /\ Replays(feed, o, server[o], <<pending.row>>)
      BY <1>3, <2>2, <2>3 DEF Kept
    <3> QED BY <1>1, <2>1, <3>1, KeptShown
  <2>4. CASE pending.id # o
    <3>1. list'[o] = list[o]
      BY <1>3, <2>4
    <3>2. Kept(requests, feed, o, server[o], list[o], NoPending)
      BY <2>1, <2>2, <2>4 DEF Kept
    <3> QED BY <1>1, <3>1, <3>2
  <2> QED BY <2>3, <2>4
<1> QED BY <1>4, <1>5, <1>6, <1>7 DEF ListInv, FeedStep, Carries

LEMMA TimeoutStep == ListInv /\ Timeout => ListInv'
<1> SUFFICES ASSUME ListInv, Timeout
             PROVE  ListInv'
  OBVIOUS
<1>1. /\ pending # NoPending /\ Ask(requests, Cancel(pending, "restore"))
      /\ pending' = NoPending
      /\ UNCHANGED <<server, feed, emitted, connected, mounted, list, loading, role, crossed>>
  BY DEF Timeout
<1>2. FeedStep
  BY <1>1, QuietFeed, FeedFacts
<1>3. ListTypes'
  BY <1>1, <1>2, CancelSent DEF ListInv, ListTypes, FeedStep
<1>4. \A o \in Orders \ crossed' : \A j \in DOMAIN requests' :
         Brings(requests'[j], feed', o, server'[o])
  BY <1>1, <1>2, CancelSent
<1>5. ASSUME OnScreen', NEW o \in Orders \ crossed'
      PROVE  Kept(requests', feed', o, server'[o], list'[o], pending')
  <2>1. OnScreen /\ NoPending.id # o
    BY <1>1, <1>2, <1>5, CancelSent, ListAssumption DEF OnScreen
  <2>2. Kept(requests, feed, o, server[o], list[o], pending)
    BY <1>1, <1>5, <2>1 DEF ListInv
  <2>3. Kept(requests', feed, o, server[o], list[o], NoPending)
    BY <1>1, <1>2, <2>1, <2>2, CancelSent
  <2> QED BY <1>1, <2>3
<1> QED BY <1>2, <1>3, <1>4, <1>5 DEF ListInv, FeedStep, Carries

LEMMA CloseListStep == ListInv /\ Close => ListInv'
<1> SUFFICES ASSUME ListInv, Close
             PROVE  ListInv'
  OBVIOUS
<1>1. /\ mounted' = FALSE /\ Disconnected /\ flushPendingCancel /\ pending' = NoPending
      /\ UNCHANGED <<server, list, loading, role>>
  BY DEF Close
<1>2. FeedStep
  BY <1>1, LostFeed
<1>3. ListTypes'
  BY <1>1, <1>2, FlushedCancel DEF ListInv, ListTypes, FeedStep
<1>4. \A o \in Orders \ crossed' : \A j \in DOMAIN requests' :
         Brings(requests'[j], feed', o, server'[o])
  BY <1>1, <1>2, FlushedCancel
<1>5. ~OnScreen'
  BY <1>1 DEF OnScreen
<1> QED BY <1>2, <1>3, <1>4, <1>5 DEF ListInv, FeedStep, Carries

LEMMA StepListInv == ListInv /\ [ListNext]_listVars => ListInv'
<1> SUFFICES ASSUME ListInv, [ListNext]_listVars
             PROVE  ListInv'
  OBVIOUS
<1>1. CASE UNCHANGED listVars
  <2>1. FeedStep
    BY <1>1, QuietFeed, FeedFacts DEF listVars
  <2> QED BY <1>1, <2>1, FeedOnly DEF listVars, OnScreen
<1>2. CASE Others \/ Proceed
  BY <1>2, OthersStep, ProceedStep
<1>3. CASE Open \/ TryAgain
  BY <1>3, LoadSteps
<1>4. CASE Connect \/ Drop
  BY <1>4, SocketSteps
<1>5. CASE Receive
  BY <1>5, ReceiveStep
<1>6. CASE Close
  BY <1>6, CloseListStep
<1>7. ASSUME NEW i \in DOMAIN requests, HandleFetch(i) \/ Handle(i) \/ Answer(i) \/ Fail(i)
      PROVE  ListInv'
  BY <1>7, HandleFetchStep, HandleStep, AnswerStep, FailStep
<1>8. CASE undo
  BY <1>8, UndoStep
<1>9. CASE Timeout
  BY <1>9, TimeoutStep
<1>10. ASSUME NEW o \in Orders, handleCancel(o) \/ handleStatusUpdate(o) \/ handleAssignCourier(o)
       PROVE  ListInv'
  BY <1>10, HandleCancelStep, SupplierSteps
<1> QED
  BY <1>1, <1>2, <1>3, <1>4, <1>5, <1>6, <1>7, <1>8, <1>9, <1>10 DEF ListNext

\* The list of a client or a supplier.  Once nothing is under way any more, every order of
\* which no message was lost, or crossed an answer, is shown once and as it is stored,
\* whatever was cancelled, undone, refused or reconnected before: orders.store.ts and
\* useOrderRealtime.ts lose no change of an order by themselves.
THEOREM ListTheorem == ListSpec => []ListSettles
<1>1. ListInv => ListSettles
  <2> SUFFICES ASSUME ListInv, Settled, NEW o \in Orders \ crossed
               PROVE  list[o] = Rows[o]
    BY DEF ListSettles
  <2>1. /\ mounted /\ ~error /\ requests = <<>> /\ feed = <<>> /\ pending = NoPending
        /\ ListTypes
    BY DEF Settled, Visible, ListInv
  <2>2. DOMAIN <<>> = {} /\ pending.id # o
    BY <2>1, EmptySeq, ListAssumption
  <2>3. OnScreen
    BY <2>1, <2>2 DEF OnScreen, FetchIn
  <2>4. Kept(requests, feed, o, server[o], list[o], pending)
    BY <2>3 DEF ListInv
  <2>5. ~CancelIn(requests, o) /\ ~Heard(feed, o)
    BY <2>1, <2>2 DEF CancelIn, Heard
  <2>6. list[o] = ShownAs(server[o])
    BY <2>2, <2>4, <2>5 DEF Kept, Replays
  <2> QED BY <2>1, <2>6, RowsShown
<1> QED BY <1>1, InitListInv, StepListInv, PTL DEF ListSpec

-----------------------------------------------------------------------------
\* The deliveries of a courier

Jobs == {"none", "ready", "picked", "delivered"}

AskedOf ==
    [kind : {"fetch", "pickup", "deliver"}, id : Parcels \cup {NoParcel},
     state : {"sent", "ok"}, rows : {<<>>} \cup [Parcels -> {"none", "ready", "picked"}],
     own : BOOLEAN]

IsFetch(r)     == r.kind = "fetch" /\ r.state = "sent"
IsRead(r)      == r.kind = "fetch" /\ r.state = "ok"
IsMoved(r, o)  == r.kind # "fetch" /\ r.state = "ok" /\ r.id = o
IsDeliver(r, o) == r.kind = "deliver" /\ r.own /\ r.id = o

\* What a request may be, and what it has done to the row of its order.
AskedOK ==
    /\ asked \in Seq(AskedOf)
    /\ \A i \in DOMAIN asked :
          /\ asked[i].kind # "fetch" => asked[i].id \in Parcels
          /\ asked[i].kind = "deliver" /\ asked[i].state = "ok" => job[asked[i].id] = "delivered"

\* The gateway tells this connection, unless an older one can still end.
EntryHolds == online /\ ~overlapped => entry = "current" /\ closing = 0

\* Something is on its way that fetches the list again, or makes the courier do so.
Awaited(o) ==
    \/ failed
    \/ notices > 0
    \/ \E i \in DOMAIN asked : IsFetch(asked[i]) \/ IsMoved(asked[i], o)

\* The row that is shown, or will be when the last fetch that was read is answered.
ReadLast(o) ==
    \A i \in DOMAIN asked :
        IsRead(asked[i]) /\ (\A j \in DOMAIN asked : j > i => ~IsRead(asked[j])) =>
            asked[i].rows[o] = ActiveRows[o]

ShownLast(o) == (\A i \in DOMAIN asked : ~IsRead(asked[i])) => shown[o] = ActiveRows[o]

RowsFollow == \A o \in Parcels \ unseen : Awaited(o) \/ (ReadLast(o) /\ ShownLast(o))

\* An order is shown as being delivered while something will, or may no longer, do it.
BeingDelivered(o) ==
    \/ o = pendingDeliver
    \/ job[o] = "delivered"
    \/ \E i \in DOMAIN asked : IsDeliver(asked[i], o)

DeliveryTypes ==
    /\ job \in [Parcels -> Jobs] /\ notices \in Nat /\ closing \in Nat
    /\ unseen \subseteq Parcels /\ delivering \subseteq Parcels
    /\ pendingDeliver \in Parcels \cup {NoParcel}
    /\ ~opened => pendingDeliver = NoParcel

DeliveringFollows == opened => \A o \in delivering : BeingDelivered(o)

DeliveriesInv ==
    /\ DeliveryTypes /\ AskedOK /\ EntryHolds /\ RowsFollow /\ DeliveringFollows

LEMMA InitDeliveriesInv == DeliveriesInit => DeliveriesInv
BY EmptySeq DEF DeliveriesInit, DeliveriesInv, DeliveryTypes, Jobs, AskedOK, EntryHolds,
   RowsFollow, DeliveringFollows


\* The gateway and the connection.
LEMMA ConnectionStep ==
    ASSUME DeliveriesInv,
           UNCHANGED deliveryVars \/ handleConnection \/ LoseConnection \/ handleDisconnect
    PROVE  DeliveriesInv'
<1>1. UNCHANGED <<job, shown, failed, asked, opened, delivering, pendingDeliver>>
  BY DEF deliveryVars, handleConnection, LoseConnection, handleDisconnect
<1>2. /\ notices' \in Nat /\ closing' \in Nat
      /\ unseen' = Parcels \/ UNCHANGED <<unseen, notices>>
  BY DEF deliveryVars, handleConnection, LoseConnection, handleDisconnect, DeliveriesInv,
     DeliveryTypes
<1>3. unseen' \subseteq Parcels
  BY <1>2 DEF DeliveriesInv, DeliveryTypes
<1>4. EntryHolds'
  <2>1. CASE UNCHANGED deliveryVars
    BY <2>1 DEF deliveryVars, DeliveriesInv, EntryHolds
  <2>2. CASE handleConnection
    <3>1. ~overlapped' => ~(closing > 0)
      BY <2>2 DEF handleConnection
    <3> QED BY <2>2, <3>1 DEF handleConnection, EntryHolds, DeliveriesInv, DeliveryTypes
  <2>3. CASE LoseConnection
    BY <2>3 DEF LoseConnection, EntryHolds
  <2>4. CASE handleDisconnect
    <3>1. closing # 0 /\ UNCHANGED <<online, overlapped>>
      BY <2>4 DEF handleDisconnect
    <3> QED BY <3>1 DEF EntryHolds, DeliveriesInv
  <2> QED BY <2>1, <2>2, <2>3, <2>4
<1>5. RowsFollow'
  BY <1>1, <1>2 DEF DeliveriesInv, RowsFollow, Awaited, ReadLast, ShownLast, ActiveRows
<1>6. AskedOK' /\ DeliveringFollows'
  BY <1>1 DEF DeliveriesInv, AskedOK, DeliveringFollows, BeingDelivered
<1> QED BY <1>1, <1>2, <1>3, <1>4, <1>5, <1>6 DEF DeliveriesInv, DeliveryTypes

LEMMA ReassignStep ==
    ASSUME DeliveriesInv, NEW p \in Parcels, Reassign(p)
    PROVE  DeliveriesInv'
<1>1. /\ UNCHANGED <<online, closing, entry, opened, shown, failed, asked, delivering,
                     pendingDeliver, overlapped>>
      /\ job[p] \in {"none", "ready"}
      /\ job' = [job EXCEPT ![p] = IF @ = "none" THEN "ready" ELSE "none"]
  BY DEF Reassign
<1>2. /\ job' \in [Parcels -> Jobs]
      /\ \A o \in Parcels : o # p => job'[o] = job[o]
      /\ \A o \in Parcels : job[o] = "delivered" => job'[o] = "delivered"
  BY <1>1 DEF DeliveriesInv, DeliveryTypes, Jobs
<1>3. /\ unseen' \in SUBSET Parcels /\ unseen \subseteq unseen' /\ notices' \in Nat
      /\ notices' = notices \/ notices' > 0
      /\ p \in unseen' \/ notices' > 0
  BY DEF Reassign, Notify, DeliveriesInv, DeliveryTypes, EntryHolds
<1>4. AskedOK'
  BY <1>1, <1>2 DEF DeliveriesInv, AskedOK
<1>5. RowsFollow'
  <2> SUFFICES ASSUME NEW o \in Parcels \ unseen', ~Awaited(o)'
               PROVE  ReadLast(o)' /\ ShownLast(o)'
    BY DEF RowsFollow
  <2>1. notices' = notices /\ o # p /\ o \notin unseen
    BY <1>3 DEF Awaited
  <2>2. ~Awaited(o)
    BY <1>1, <2>1 DEF Awaited
  <2>3. ActiveRows'[o] = ActiveRows[o]
    BY <1>2, <2>1 DEF ActiveRows
  <2> QED BY <1>1, <2>1, <2>2, <2>3 DEF DeliveriesInv, RowsFollow, ReadLast, ShownLast
<1>6. DeliveringFollows'
  BY <1>1, <1>2 DEF DeliveriesInv, DeliveryTypes, DeliveringFollows, BeingDelivered
<1> QED BY <1>1, <1>2, <1>3, <1>4, <1>5, <1>6 DEF DeliveriesInv, DeliveryTypes, EntryHolds

\* A request more, or as many as there were; a fetch takes the place of what was told.
LEMMA SendStep ==
    ASSUME DeliveriesInv, UNCHANGED <<job, shown, online, closing, entry, overlapped, unseen>>,
           NEW r \in AskedOf, r.state = "sent", r.kind # "fetch" => r.id \in Parcels,
           asked' \in {asked, Append(asked, r)},
           \/ UNCHANGED <<failed, notices>>
           \/ r.kind = "fetch" /\ asked' = Append(asked, r),
           notices' \in Nat, delivering' \subseteq Parcels,
           pendingDeliver' \in Parcels \cup {NoParcel},
           ~opened' => pendingDeliver' = NoParcel,
           ASSUME opened', NEW o \in delivering'
           PROVE  \/ o = pendingDeliver'
                  \/ asked' = Append(asked, r) /\ IsDeliver(r, o)
                  \/ opened /\ o \in delivering /\ o # pendingDeliver
                  \/ UNCHANGED pendingDeliver /\ opened /\ o \in delivering
    PROVE  DeliveriesInv'
<1>1. /\ asked' \in Seq(AskedOf)
      /\ \A i \in DOMAIN asked : i \in Nat /\ i \in DOMAIN asked' /\ asked'[i] = asked[i]
      /\ \A i \in DOMAIN asked' \ DOMAIN asked : asked'[i] = r
      /\ asked' = Append(asked, r) => \E i \in DOMAIN asked' : asked'[i] = r
  <2>1. asked \in Seq(AskedOf) /\ \A i \in DOMAIN asked : i \in Nat
    BY LenProperties DEF DeliveriesInv, AskedOK
  <2>2. CASE asked' = asked /\ asked' # Append(asked, r)
    BY <2>1, <2>2
  <2>3. CASE asked' = Append(asked, r)
    BY <2>1, <2>3, OneMore
  <2> QED BY <2>2, <2>3
<1>2. AskedOK'
  BY <1>1 DEF DeliveriesInv, AskedOK
<1>3. RowsFollow'
  <2> SUFFICES ASSUME NEW o \in Parcels \ unseen, ~Awaited(o)'
               PROVE  ReadLast(o)' /\ ShownLast(o)'
    BY DEF RowsFollow
  <2>1. UNCHANGED <<failed, notices>>
    <3>1. ~(r.kind = "fetch" /\ asked' = Append(asked, r))
      BY <1>1 DEF Awaited, IsFetch
    <3> QED BY <3>1
  <2>2. ~Awaited(o)
    BY <1>1, <2>1 DEF Awaited
  <2>3. ReadLast(o) /\ ShownLast(o) /\ ActiveRows' = ActiveRows
    BY <2>2 DEF DeliveriesInv, RowsFollow, ActiveRows
  <2>4. \A i \in DOMAIN asked' : IsRead(asked'[i]) => i \in DOMAIN asked
    BY <1>1 DEF IsRead
  <2>5. ReadLast(o)'
    BY <1>1, <2>3, <2>4 DEF ReadLast
  <2>6. ShownLast(o)'
    BY <1>1, <2>3 DEF ShownLast
  <2> QED BY <2>5, <2>6
<1>4. DeliveringFollows'
  <2> SUFFICES ASSUME opened', NEW o \in delivering'
               PROVE  BeingDelivered(o)'
    BY DEF DeliveringFollows
  <2>1. CASE o = pendingDeliver'
    BY <2>1 DEF BeingDelivered
  <2>2. CASE asked' = Append(asked, r) /\ IsDeliver(r, o)
    BY <1>1, <2>2 DEF BeingDelivered
  <2>3. CASE opened /\ o \in delivering /\ (o # pendingDeliver \/ UNCHANGED pendingDeliver)
    <3>1. BeingDelivered(o)
      BY <2>3 DEF DeliveriesInv, DeliveringFollows
    <3> QED BY <1>1, <2>3, <3>1 DEF BeingDelivered
  <2> QED BY <2>1, <2>2, <2>3
<1> QED BY <1>2, <1>3, <1>4 DEF DeliveriesInv, DeliveryTypes, EntryHolds

LEMMA UserStep ==
    ASSUME DeliveriesInv,
           \/ OrderNotice \/ OpenDeliveries \/ FetchAgain \/ UndoDeliver \/ DeliverTimer
           \/ \E o \in Parcels : handlePickup(o) \/ handleDeliver(o)
    PROVE  DeliveriesInv'
<1>1. \A kind \in {"fetch", "pickup", "deliver"}, o \in Parcels \cup {NoParcel} :
         /\ Req(kind, o) \in AskedOf
         /\ Req(kind, o).kind = kind /\ Req(kind, o).id = o
         /\ Req(kind, o).state = "sent" /\ Req(kind, o).own = TRUE
  BY DEF Req, AskedOf
<1>2. /\ notices \in Nat /\ delivering \subseteq Parcels
      /\ pendingDeliver \in Parcels \cup {NoParcel}
      /\ ~opened => pendingDeliver = NoParcel
  BY DEF DeliveriesInv, DeliveryTypes
<1>3. CASE OrderNotice \/ OpenDeliveries \/ FetchAgain
  <2> DEFINE r == Req("fetch", NoParcel)
  <2>1. /\ UNCHANGED <<job, shown, online, closing, entry, overlapped, unseen, pendingDeliver>>
        /\ r \in AskedOf /\ r.state = "sent" /\ r.kind = "fetch"
        /\ asked' = Append(asked, r)
    BY <1>1, <1>3 DEF OrderNotice, OpenDeliveries, FetchAgain, fetchCourier
  <2>2. /\ notices' \in Nat
        /\ delivering' = {} \/ UNCHANGED <<delivering, opened>>
        /\ opened => opened'
    BY <1>2, <1>3 DEF OrderNotice, OpenDeliveries, FetchAgain
  <2>3. /\ delivering' \subseteq Parcels /\ pendingDeliver' \in Parcels \cup {NoParcel}
        /\ ~opened' => pendingDeliver' = NoParcel
    BY <1>2, <2>1, <2>2
  <2>4. ASSUME opened', NEW o \in delivering'
        PROVE  UNCHANGED pendingDeliver /\ opened /\ o \in delivering
    BY <2>1, <2>2, <2>4
  <2> HIDE DEF r
  <2> QED BY <2>1, <2>2, <2>3, <2>4, SendStep
<1>4. CASE UndoDeliver
  <2>1. /\ UNCHANGED <<job, shown, online, closing, entry, overlapped, unseen, failed, notices,
                       asked, opened>>
        /\ delivering' = delivering \ {pendingDeliver} /\ pendingDeliver' = NoParcel
    BY <1>4 DEF UndoDeliver
  <2>2. Req("fetch", NoParcel) \in AskedOf /\ Req("fetch", NoParcel).state = "sent"
        /\ Req("fetch", NoParcel).kind = "fetch"
    BY <1>1
  <2> QED BY <1>2, <2>1, <2>2, SendStep
<1>5. CASE DeliverTimer
  <2>1. /\ UNCHANGED <<job, shown, online, closing, entry, overlapped, unseen, failed, notices,
                       opened, delivering>>
        /\ pendingDeliver \in Parcels /\ pendingDeliver' = NoParcel
        /\ asked' = Append(asked, Req("deliver", pendingDeliver))
    BY <1>2, <1>5 DEF DeliverTimer, Sends
  <2>2. /\ Req("deliver", pendingDeliver) \in AskedOf
        /\ Req("deliver", pendingDeliver).state = "sent"
        /\ IsDeliver(Req("deliver", pendingDeliver), pendingDeliver)
        /\ Req("deliver", pendingDeliver).id \in Parcels
    BY <1>1, <2>1 DEF IsDeliver
  <2> QED BY <1>2, <2>1, <2>2, SendStep
<1>6. ASSUME NEW o \in Parcels, handlePickup(o)
      PROVE  DeliveriesInv'
  <2>1. /\ UNCHANGED <<job, shown, online, closing, entry, overlapped, unseen, failed, notices,
                       opened, delivering, pendingDeliver>>
        /\ asked' = Append(asked, Req("pickup", o))
    BY <1>6 DEF handlePickup
  <2>2. /\ Req("pickup", o) \in AskedOf /\ Req("pickup", o).state = "sent"
        /\ Req("pickup", o).id \in Parcels
    BY <1>1
  <2> QED BY <1>2, <2>1, <2>2, SendStep
<1>7. ASSUME NEW o \in Parcels, handleDeliver(o)
      PROVE  DeliveriesInv'
  <2>1. /\ UNCHANGED <<job, shown, online, closing, entry, overlapped, unseen, failed, notices,
                       opened>>
        /\ opened /\ delivering' = delivering \cup {o} /\ pendingDeliver' = o
    BY <1>7 DEF handleDeliver, Listed
  <2>2. CASE pendingDeliver = NoParcel
    <3>1. asked' = asked /\ \A q \in Parcels : q # pendingDeliver
      BY <1>7, <2>2, ParcelsAssumption DEF handleDeliver, flushPendingDeliver
    <3>2. /\ Req("fetch", NoParcel) \in AskedOf /\ Req("fetch", NoParcel).state = "sent"
          /\ Req("fetch", NoParcel).kind = "fetch"
      BY <1>1
    <3> QED BY <1>2, <2>1, <3>1, <3>2, SendStep
  <2>3. CASE pendingDeliver \in Parcels
    <3>1. asked' = Append(asked, Req("deliver", pendingDeliver))
      BY <1>7, <2>3, ParcelsAssumption DEF handleDeliver, flushPendingDeliver, Sends
    <3>2. /\ Req("deliver", pendingDeliver) \in AskedOf
          /\ Req("deliver", pendingDeliver).state = "sent"
          /\ IsDeliver(Req("deliver", pendingDeliver), pendingDeliver)
          /\ Req("deliver", pendingDeliver).id \in Parcels
      BY <1>1, <2>3 DEF IsDeliver
    <3> QED BY <1>2, <2>1, <3>1, <3>2, SendStep
  <2> QED BY <1>2, <2>2, <2>3
<1> QED BY <1>3, <1>4, <1>5, <1>6, <1>7

\* The server reads the rows, or changes one.
LEMMA ReadRowsStep ==
    ASSUME DeliveriesInv, NEW k \in DOMAIN asked, ReadRows(k)
    PROVE  DeliveriesInv'
<1> DEFINE r == [asked[k] EXCEPT !.state = "ok", !.rows = ActiveRows]
           rest == RemoveAt(asked, k)
<1>1. /\ UNCHANGED <<job, online, closing, entry, notices, opened, shown, failed, delivering,
                     pendingDeliver, overlapped>>
      /\ asked[k].kind = "fetch" /\ asked[k].state = "sent" /\ asked' = Append(rest, r)
      /\ unseen' \in {unseen, {}}
  BY DEF ReadRows, Fetches
<1>2. /\ asked \in Seq(AskedOf) /\ asked[k] \in AskedOf
      /\ unseen' \subseteq Parcels
  BY <1>1, ElementOfSeq, LenProperties DEF DeliveriesInv, AskedOK, DeliveryTypes
<1>3. /\ r \in AskedOf /\ r.kind = "fetch" /\ r.state = "ok" /\ r.rows = ActiveRows
  <2>1. ActiveRows \in [Parcels -> {"none", "ready", "picked"}]
    BY DEF ActiveRows
  <2> QED BY <1>1, <1>2, <2>1 DEF AskedOf
<1> DEFINE old(j) == IF j < k THEN j ELSE j + 1
<1>4. /\ rest \in Seq(AskedOf) /\ DOMAIN rest \subseteq Nat
      /\ \A j \in DOMAIN rest : old(j) \in DOMAIN asked \ {k} /\ rest[j] = asked[old(j)]
      /\ \A i \in DOMAIN asked \ {k} : \E j \in DOMAIN rest : rest[j] = asked[i]
  BY <1>2, OneLess
<1> HIDE DEF rest, r, old
<1>5. /\ asked' \in Seq(AskedOf) /\ Len(rest) + 1 \in DOMAIN asked'
      /\ asked'[Len(rest) + 1] = r
      /\ \A j \in DOMAIN asked' : j = Len(rest) + 1 \/ (j \in DOMAIN rest /\ Len(rest) + 1 > j)
      /\ \A j \in DOMAIN rest : j \in DOMAIN asked' /\ asked'[j] = rest[j]
  BY <1>1, <1>3, <1>4, OneMore
<1>6. AskedOK'
  <2> SUFFICES ASSUME NEW j \in DOMAIN asked'
               PROVE  /\ asked'[j].kind # "fetch" => asked'[j].id \in Parcels
                      /\ asked'[j].kind = "deliver" /\ asked'[j].state = "ok" =>
                            job[asked'[j].id] = "delivered"
    BY <1>1, <1>5 DEF AskedOK
  <2>1. CASE asked'[j] = r
    BY <1>3, <2>1
  <2>2. CASE j \in DOMAIN rest
    BY <1>4, <1>5, <2>2 DEF DeliveriesInv, AskedOK
  <2> QED BY <1>5, <2>1, <2>2
<1>7. RowsFollow'
  <2>1. ActiveRows' = ActiveRows
    BY <1>1 DEF ActiveRows
  <2>2. \A o \in Parcels : ReadLast(o)' /\ ShownLast(o)'
    <3> SUFFICES ASSUME NEW o \in Parcels
                 PROVE  ReadLast(o)' /\ ShownLast(o)'
      OBVIOUS
    <3>1. \A i \in DOMAIN asked' : i # Len(rest) + 1 => Len(rest) + 1 > i
      BY <1>5
    <3>2. IsRead(asked'[Len(rest) + 1]) /\ asked'[Len(rest) + 1].rows[o] = ActiveRows'[o]
      BY <1>3, <1>5, <2>1 DEF IsRead
    <3> QED BY <1>5, <3>1, <3>2 DEF ReadLast, ShownLast
  <2> QED BY <2>2 DEF RowsFollow
<1>8. DeliveringFollows'
  <2>1. \A i \in DOMAIN asked : \A o : IsDeliver(asked[i], o) =>
           \E j \in DOMAIN asked' : IsDeliver(asked'[j], o)
    <3> SUFFICES ASSUME NEW i \in DOMAIN asked, NEW o, IsDeliver(asked[i], o)
                 PROVE  \E j \in DOMAIN asked' : IsDeliver(asked'[j], o)
      OBVIOUS
    <3>1. i # k
      BY <1>1 DEF IsDeliver
    <3> QED BY <1>4, <1>5, <3>1
  <2> QED BY <1>1, <2>1 DEF DeliveriesInv, DeliveringFollows, BeingDelivered
<1> QED BY <1>1, <1>2, <1>6, <1>7, <1>8 DEF DeliveriesInv, DeliveryTypes, EntryHolds

LEMMA TransitionStep ==
    ASSUME DeliveriesInv, NEW k \in DOMAIN asked, Transition(k)
    PROVE  DeliveriesInv'
<1> DEFINE r == asked[k]
<1>1. /\ UNCHANGED <<online, closing, entry, notices, opened, shown, failed, delivering,
                     pendingDeliver, overlapped, unseen>>
      /\ r.kind # "fetch" /\ r.state = "sent"
      /\ job[r.id] = After(r.kind)[1] /\ job' = [job EXCEPT ![r.id] = After(r.kind)[2]]
      /\ asked' = [asked EXCEPT ![k].state = "ok"]
  BY DEF Transition, Fetches
<1>2. /\ asked \in Seq(AskedOf) /\ r \in AskedOf /\ r.id \in Parcels
      /\ r.kind \in {"pickup", "deliver"}
  <2>1. asked \in Seq(AskedOf) /\ r \in AskedOf
    BY ElementOfSeq, LenProperties DEF DeliveriesInv, AskedOK
  <2> QED BY <1>1, <2>1 DEF AskedOf, DeliveriesInv, AskedOK
<1>3. /\ job[r.id] # "delivered" /\ job'[r.id] \in Jobs
      /\ r.kind = "deliver" => job'[r.id] = "delivered"
      /\ \A o \in Parcels \ {r.id} : job'[o] = job[o]
      /\ job' \in [Parcels -> Jobs]
  BY <1>1, <1>2 DEF After, Jobs, DeliveriesInv, DeliveryTypes
<1> DEFINE e == [r EXCEPT !.state = "ok"]
<1>4. /\ e \in AskedOf /\ e.kind = r.kind /\ e.id = r.id /\ e.own = r.own /\ e.state = "ok"
  BY <1>2 DEF AskedOf
<1>5. asked' = [asked EXCEPT ![k] = e]
  BY <1>1
<1> HIDE DEF r, e
<1>6. /\ asked' \in Seq(AskedOf) /\ DOMAIN asked' = DOMAIN asked /\ asked'[k] = e
      /\ \A i \in DOMAIN asked \ {k} : asked'[i] = asked[i]
  BY <1>2, <1>4, <1>5, ExceptSeq, LenProperties
<1>7. AskedOK'
  BY <1>2, <1>3, <1>4, <1>6 DEF DeliveriesInv, AskedOK
<1>8. RowsFollow'
  <2> SUFFICES ASSUME NEW o \in Parcels \ unseen, ~Awaited(o)'
               PROVE  ReadLast(o)' /\ ShownLast(o)'
    BY <1>1 DEF RowsFollow
  <2>1. o # r.id
    BY <1>1, <1>4, <1>6 DEF Awaited, IsMoved
  <2>2. ~Awaited(o)
    BY <1>1, <1>6, <2>1 DEF Awaited, IsMoved, IsFetch, r
  <2>3. ActiveRows'[o] = ActiveRows[o]
    BY <1>3, <2>1 DEF ActiveRows
  <2>4. ReadLast(o) /\ ShownLast(o)
    BY <2>2 DEF DeliveriesInv, RowsFollow
  <2>5. ~IsRead(asked[k]) /\ ~IsRead(asked'[k])
    BY <1>1, <1>4, <1>6 DEF IsRead, r
  <2>6. \A i \in DOMAIN asked : /\ IsRead(asked'[i]) <=> IsRead(asked[i])
                                /\ IsRead(asked[i]) => asked'[i] = asked[i]
    BY <1>6, <2>5
  <2> QED BY <1>1, <1>6, <2>3, <2>4, <2>6 DEF ReadLast, ShownLast
<1>9. DeliveringFollows'
  <2>1. \A i \in DOMAIN asked : \A o : IsDeliver(asked[i], o) => IsDeliver(asked'[i], o)
    BY <1>4, <1>6 DEF IsDeliver, r
  <2>2. \A o \in Parcels : job[o] = "delivered" => job'[o] = "delivered"
    BY <1>2, <1>3
  <2> QED BY <1>1, <1>6, <2>1, <2>2 DEF DeliveriesInv, DeliveryTypes, DeliveringFollows, BeingDelivered
<1> QED BY <1>1, <1>3, <1>7, <1>8, <1>9 DEF DeliveriesInv, DeliveryTypes, EntryHolds

\* The requests that are left when one is over.
LEMMA AskedLess ==
    ASSUME AskedOK, NEW k \in DOMAIN asked
    PROVE  LET rest == RemoveAt(asked, k)
               old(j) == IF j < k THEN j ELSE j + 1
           IN  /\ asked[k] \in AskedOf /\ k \in Nat
               /\ rest \in Seq(AskedOf) /\ DOMAIN rest \subseteq Nat
               /\ \A j \in DOMAIN rest : old(j) \in DOMAIN asked \ {k} /\ rest[j] = asked[old(j)]
               /\ \A i \in DOMAIN asked \ {k} :
                     \E j \in DOMAIN rest : rest[j] = asked[i] /\ old(j) = i
<1>1. asked \in Seq(AskedOf) /\ DOMAIN asked \subseteq Nat /\ k \in Nat /\ asked[k] \in AskedOf
  BY ElementOfSeq, LenProperties DEF AskedOK
<1>2. ASSUME NEW i \in DOMAIN asked \ {k}
      PROVE  \E j \in DOMAIN RemoveAt(asked, k) :
                RemoveAt(asked, k)[j] = asked[i] /\ (IF j < k THEN j ELSE j + 1) = i
  <2> DEFINE j == IF i < k THEN i ELSE i - 1
  <2>1. j \in DOMAIN RemoveAt(asked, k) /\ RemoveAt(asked, k)[j] = asked[i]
    BY <1>1, OneLess
  <2>2. (IF j < k THEN j ELSE j + 1) = i
    BY <1>1
  <2> QED BY <2>1, <2>2
<1>3. /\ RemoveAt(asked, k) \in Seq(AskedOf) /\ DOMAIN RemoveAt(asked, k) \subseteq Nat
      /\ \A j \in DOMAIN RemoveAt(asked, k) :
            LET i == IF j < k THEN j ELSE j + 1
            IN  i \in DOMAIN asked \ {k} /\ RemoveAt(asked, k)[j] = asked[i]
  BY <1>1, OneLess
<1> QED BY <1>1, <1>2, <1>3

LEMMA FetchedStep ==
    ASSUME DeliveriesInv, NEW k \in DOMAIN asked, Fetched(k)
    PROVE  DeliveriesInv'
<1> DEFINE rest == RemoveAt(asked, k)
           old(j) == IF j < k THEN j ELSE j + 1
<1>1. /\ UNCHANGED <<job, online, closing, entry, notices, opened, failed, delivering,
                     pendingDeliver, overlapped>>
      /\ IsRead(asked[k]) /\ asked' = rest /\ shown' = asked[k].rows
      /\ unseen' = IF \E j \in DOMAIN asked : j < k /\ IsRead(asked[j]) THEN Parcels ELSE unseen
  BY DEF Fetched, Fetches, IsRead
<1>2. /\ rest \in Seq(AskedOf) /\ DOMAIN rest \subseteq Nat /\ k \in Nat
      /\ DOMAIN asked \subseteq Nat
      /\ \A j \in DOMAIN rest : old(j) \in DOMAIN asked \ {k} /\ rest[j] = asked[old(j)]
      /\ \A i \in DOMAIN asked \ {k} : \E j \in DOMAIN rest : rest[j] = asked[i] /\ old(j) = i
  BY AskedLess, LenProperties DEF DeliveriesInv, AskedOK
<1>3. \A i, j \in DOMAIN rest : old(i) > old(j) <=> i > j
  BY <1>2
<1> HIDE DEF rest, old
<1>4. AskedOK'
  BY <1>1, <1>2 DEF DeliveriesInv, AskedOK
<1>5. RowsFollow'
  <2> SUFFICES ASSUME NEW o \in Parcels \ unseen', ~Awaited(o)'
               PROVE  ReadLast(o)' /\ ShownLast(o)'
    BY DEF RowsFollow
  <2>1. o \in Parcels \ unseen /\ \A j \in DOMAIN asked : j < k => ~IsRead(asked[j])
    BY <1>1
  <2>2. ~Awaited(o)
    <3>1. ~IsFetch(asked[k]) /\ ~IsMoved(asked[k], o)
      BY <1>1 DEF IsRead, IsFetch, IsMoved
    <3> QED BY <1>1, <1>2, <3>1 DEF Awaited
  <2>3. ReadLast(o) /\ ActiveRows' = ActiveRows
    BY <1>1, <2>1, <2>2 DEF DeliveriesInv, RowsFollow, ActiveRows
  <2>4. ReadLast(o)'
    <3> SUFFICES ASSUME NEW j \in DOMAIN rest, IsRead(rest[j]),
                        \A l \in DOMAIN rest : l > j => ~IsRead(rest[l])
                 PROVE  rest[j].rows[o] = ActiveRows[o]
      BY <1>1, <2>3 DEF ReadLast
    <3>1. old(j) > k
      <4>1. old(j) \in DOMAIN asked /\ IsRead(asked[old(j)]) /\ old(j) # k
        BY <1>2
      <4>2. ~(old(j) < k)
        BY <2>1, <4>1
      <4> QED BY <1>2, <4>1, <4>2
    <3>2. \A i \in DOMAIN asked : i > old(j) => ~IsRead(asked[i])
      <4> SUFFICES ASSUME NEW i \in DOMAIN asked, i > old(j), IsRead(asked[i])
                   PROVE  FALSE
        OBVIOUS
      <4>1. i # k
        BY <1>2, <3>1
      <4>2. PICK l \in DOMAIN rest : rest[l] = asked[i] /\ old(l) = i
        BY <1>2, <4>1
      <4>3. l > j
        BY <1>3, <4>2
      <4> QED BY <4>2, <4>3
    <3> QED BY <1>2, <2>3, <3>2 DEF ReadLast
  <2>5. ShownLast(o)'
    <3> SUFFICES ASSUME \A j \in DOMAIN rest : ~IsRead(rest[j])
                 PROVE  asked[k].rows[o] = ActiveRows[o]
      BY <1>1, <2>3 DEF ShownLast
    <3>1. \A i \in DOMAIN asked : i # k => ~IsRead(asked[i])
      BY <1>2
    <3>2. \A i \in DOMAIN asked : i > k => i # k
      BY <1>2
    <3> QED BY <1>1, <2>3, <3>1, <3>2 DEF ReadLast
  <2> QED BY <2>4, <2>5
<1>6. DeliveringFollows'
  <2>1. \A o : ~IsDeliver(asked[k], o)
    BY <1>1 DEF IsRead, IsDeliver
  <2> QED BY <1>1, <1>2, <2>1 DEF DeliveriesInv, DeliveringFollows, BeingDelivered
<1>7. unseen' \subseteq Parcels
  BY <1>1 DEF DeliveriesInv, DeliveryTypes
<1> QED BY <1>1, <1>4, <1>5, <1>6, <1>7 DEF DeliveriesInv, DeliveryTypes, EntryHolds

LEMMA TransitionedStep ==
    ASSUME DeliveriesInv, NEW k \in DOMAIN asked, Transitioned(k)
    PROVE  DeliveriesInv'
<1> DEFINE rest == RemoveAt(asked, k)
           r == Req("fetch", NoParcel)
<1>1. /\ UNCHANGED <<job, online, closing, entry, notices, opened, shown, delivering,
                     pendingDeliver, overlapped, unseen>>
      /\ asked[k].kind # "fetch" /\ asked[k].state = "ok" /\ asked' = Append(rest, r)
  BY DEF Transitioned, Fetches, fetchCourier
<1>2. /\ asked[k] \in AskedOf /\ rest \in Seq(AskedOf)
      /\ \A j \in DOMAIN rest : \E i \in DOMAIN asked \ {k} : rest[j] = asked[i]
      /\ \A i \in DOMAIN asked \ {k} : \E j \in DOMAIN rest : rest[j] = asked[i]
  BY AskedLess DEF DeliveriesInv
<1>3. r \in AskedOf /\ IsFetch(r) /\ r.kind = "fetch"
  BY DEF AskedOf, Req, IsFetch
<1> HIDE DEF rest, r
<1>4. /\ asked' \in Seq(AskedOf) /\ Len(rest) + 1 \in DOMAIN asked' /\ asked'[Len(rest) + 1] = r
      /\ \A j \in DOMAIN asked' : j = Len(rest) + 1 \/ j \in DOMAIN rest
      /\ \A j \in DOMAIN rest : j \in DOMAIN asked' /\ asked'[j] = rest[j]
  BY <1>1, <1>2, <1>3, OneMore
<1>5. AskedOK'
  <2> SUFFICES ASSUME NEW j \in DOMAIN asked'
               PROVE  /\ asked'[j].kind # "fetch" => asked'[j].id \in Parcels
                      /\ asked'[j].kind = "deliver" /\ asked'[j].state = "ok" =>
                            job[asked'[j].id] = "delivered"
    BY <1>1, <1>4 DEF AskedOK
  <2>1. CASE asked'[j] = r
    BY <1>3, <2>1
  <2>2. CASE j \in DOMAIN rest
    BY <1>2, <1>4, <2>2 DEF DeliveriesInv, AskedOK
  <2> QED BY <1>4, <2>1, <2>2
<1>6. RowsFollow'
  BY <1>3, <1>4 DEF RowsFollow, Awaited
<1>7. DeliveringFollows'
  <2> SUFFICES ASSUME opened, NEW o \in delivering
               PROVE  BeingDelivered(o)'
    BY <1>1 DEF DeliveringFollows
  <2>1. CASE IsDeliver(asked[k], o)
    <3>1. job[o] = "delivered"
      BY <1>1, <2>1 DEF IsDeliver, DeliveriesInv, AskedOK
    <3> QED BY <1>1, <3>1 DEF BeingDelivered
  <2>2. CASE ~IsDeliver(asked[k], o)
    BY <1>1, <1>2, <1>4, <2>2 DEF DeliveriesInv, DeliveringFollows, BeingDelivered
  <2> QED BY <2>1, <2>2
<1> QED BY <1>1, <1>5, <1>6, <1>7 DEF DeliveriesInv, DeliveryTypes, EntryHolds

LEMMA RequestFailsStep ==
    ASSUME DeliveriesInv, NEW k \in DOMAIN asked, RequestFails(k)
    PROVE  DeliveriesInv'
<1> DEFINE rest == RemoveAt(asked, k)
           old(j) == IF j < k THEN j ELSE j + 1
<1>1. /\ UNCHANGED <<job, online, closing, entry, notices, opened, shown, pendingDeliver,
                     overlapped>>
      /\ asked' = rest
      /\ IF asked[k].kind = "fetch" THEN failed' = TRUE ELSE failed' = failed
      /\ delivering' = IF asked[k].kind = "deliver" /\ asked[k].own
                       THEN delivering \ {asked[k].id} ELSE delivering
      /\ unseen' = IF asked[k].state = "ok" /\ asked[k].kind # "fetch"
                   THEN unseen \cup {asked[k].id} ELSE unseen
  BY DEF RequestFails, Fetches
<1>2. /\ rest \in Seq(AskedOf) /\ DOMAIN rest \subseteq Nat /\ k \in Nat
      /\ DOMAIN asked \subseteq Nat /\ asked[k] \in AskedOf
      /\ \A j \in DOMAIN rest : old(j) \in DOMAIN asked \ {k} /\ rest[j] = asked[old(j)]
      /\ \A i \in DOMAIN asked \ {k} : \E j \in DOMAIN rest : rest[j] = asked[i] /\ old(j) = i
  BY AskedLess, LenProperties DEF DeliveriesInv, AskedOK
<1>3. \A i, j \in DOMAIN rest : old(i) > old(j) <=> i > j
  BY <1>2
<1> HIDE DEF rest, old
<1>4. AskedOK'
  BY <1>1, <1>2 DEF DeliveriesInv, AskedOK
<1>5. RowsFollow'
  <2> SUFFICES ASSUME NEW o \in Parcels \ unseen', ~Awaited(o)'
               PROVE  ReadLast(o)' /\ ShownLast(o)'
    BY DEF RowsFollow
  <2>1. asked[k].kind # "fetch" /\ failed' = failed /\ o \in Parcels \ unseen
    BY <1>1 DEF Awaited
  <2>2. ~Awaited(o)
    <3>1. ~IsFetch(asked[k]) /\ ~IsMoved(asked[k], o)
      BY <1>1, <2>1 DEF IsFetch, IsMoved
    <3> QED BY <1>1, <1>2, <2>1, <3>1 DEF Awaited
  <2>3. ReadLast(o) /\ ShownLast(o) /\ ActiveRows' = ActiveRows
    BY <1>1, <2>1, <2>2 DEF DeliveriesInv, RowsFollow, ActiveRows
  <2>4. ~IsRead(asked[k])
    BY <2>1 DEF IsRead
  <2>5. ReadLast(o)'
    <3> SUFFICES ASSUME NEW j \in DOMAIN rest, IsRead(rest[j]),
                        \A l \in DOMAIN rest : l > j => ~IsRead(rest[l])
                 PROVE  rest[j].rows[o] = ActiveRows[o]
      BY <1>1, <2>3 DEF ReadLast
    <3>1. \A i \in DOMAIN asked : i > old(j) => ~IsRead(asked[i])
      <4> SUFFICES ASSUME NEW i \in DOMAIN asked, i > old(j), IsRead(asked[i])
                   PROVE  FALSE
        OBVIOUS
      <4>1. PICK l \in DOMAIN rest : rest[l] = asked[i] /\ old(l) = i
        BY <1>2, <2>4
      <4>2. l > j
        BY <1>3, <4>1
      <4> QED BY <4>1, <4>2
    <3> QED BY <1>2, <2>3, <3>1 DEF ReadLast
  <2>6. ShownLast(o)'
    BY <1>1, <1>2, <2>3, <2>4 DEF ShownLast
  <2> QED BY <2>5, <2>6
<1>6. DeliveringFollows'
  <2> SUFFICES ASSUME opened, NEW o \in delivering'
               PROVE  BeingDelivered(o)'
    BY <1>1 DEF DeliveringFollows
  <2>1. o \in delivering /\ ~IsDeliver(asked[k], o)
    BY <1>1 DEF IsDeliver
  <2> QED BY <1>1, <1>2, <2>1 DEF DeliveriesInv, DeliveringFollows, BeingDelivered
<1>7. unseen' \subseteq Parcels /\ delivering' \subseteq Parcels
  BY <1>1 DEF DeliveriesInv, DeliveryTypes, AskedOK
<1> QED BY <1>1, <1>4, <1>5, <1>6, <1>7 DEF DeliveriesInv, DeliveryTypes, EntryHolds

LEMMA CloseStep == DeliveriesInv /\ CloseDeliveries => DeliveriesInv'
<1> SUFFICES ASSUME DeliveriesInv, CloseDeliveries
             PROVE  DeliveriesInv'
  OBVIOUS
<1> DEFINE r == Req("deliver", pendingDeliver)
           disowned(s) == [i \in DOMAIN s |-> [s[i] EXCEPT !.own = FALSE]]
           s == IF pendingDeliver = NoParcel THEN asked ELSE Append(asked, r)
<1>1. /\ UNCHANGED <<job, online, closing, entry, notices, shown, failed, delivering,
                     overlapped, unseen>>
      /\ ~opened' /\ pendingDeliver' = NoParcel /\ asked' = disowned(s)
  BY DEF CloseDeliveries
<1>2. /\ asked \in Seq(AskedOf) /\ pendingDeliver \in Parcels \cup {NoParcel}
      /\ r \in AskedOf /\ r.state = "sent" /\ r.kind = "deliver" /\ r.id = pendingDeliver
  BY DEF DeliveriesInv, DeliveryTypes, AskedOK, AskedOf, Req
<1> HIDE DEF r
<1>3. /\ s \in Seq(AskedOf)
      /\ \A i \in DOMAIN asked : i \in DOMAIN s /\ s[i] = asked[i]
      /\ \A i \in DOMAIN s \ DOMAIN asked : s[i] = r /\ r.id \in Parcels
  <2>1. CASE pendingDeliver = NoParcel
    BY <1>2, <2>1
  <2>2. CASE pendingDeliver \in Parcels
    BY <1>2, <2>2, OneMore, ParcelsAssumption
  <2> QED BY <1>2, <2>1, <2>2
<1> HIDE DEF s
<1>4. /\ asked' \in Seq(AskedOf) /\ DOMAIN asked' = DOMAIN s
      /\ \A i \in DOMAIN s : /\ asked'[i].kind = s[i].kind /\ asked'[i].id = s[i].id
                             /\ asked'[i].state = s[i].state /\ asked'[i].rows = s[i].rows
  <2>1. Len(s) \in Nat /\ DOMAIN s = 1..Len(s) /\ \A i \in DOMAIN s : s[i] \in AskedOf
    BY <1>3, LenProperties, ElementOfSeq
  <2>2. \A i \in DOMAIN s : /\ [s[i] EXCEPT !.own = FALSE] \in AskedOf
                            /\ [s[i] EXCEPT !.own = FALSE].kind = s[i].kind
                            /\ [s[i] EXCEPT !.own = FALSE].id = s[i].id
                            /\ [s[i] EXCEPT !.own = FALSE].state = s[i].state
                            /\ [s[i] EXCEPT !.own = FALSE].rows = s[i].rows
    BY <2>1 DEF AskedOf
  <2>3. disowned(s) \in [1..Len(s) -> AskedOf]
    BY <2>1, <2>2
  <2>4. disowned(s) \in Seq(AskedOf)
    BY <2>1, <2>3, SeqDef
  <2> QED BY <1>1, <2>1, <2>2, <2>4
<1>5. AskedOK'
  <2>1. \A i \in DOMAIN s : /\ s[i].kind # "fetch" => s[i].id \in Parcels
                            /\ s[i].kind = "deliver" /\ s[i].state = "ok" =>
                                  job[s[i].id] = "delivered"
    BY <1>2, <1>3 DEF DeliveriesInv, AskedOK
  <2> QED BY <1>1, <1>4, <2>1 DEF AskedOK
<1>6. RowsFollow'
  <2> SUFFICES ASSUME NEW o \in Parcels \ unseen, ~Awaited(o)'
               PROVE  ReadLast(o)' /\ ShownLast(o)'
    BY <1>1 DEF RowsFollow
  <2>1. /\ \A i \in DOMAIN asked : /\ IsRead(asked'[i]) <=> IsRead(asked[i])
                                   /\ IsFetch(asked'[i]) <=> IsFetch(asked[i])
                                   /\ IsMoved(asked'[i], o) <=> IsMoved(asked[i], o)
                                   /\ asked'[i].rows = asked[i].rows
        /\ \A i \in DOMAIN asked' \ DOMAIN asked : ~IsRead(asked'[i])
    BY <1>2, <1>3, <1>4 DEF IsRead, IsFetch, IsMoved
  <2>2. DOMAIN asked \subseteq DOMAIN asked' /\ ActiveRows' = ActiveRows
    BY <1>1, <1>3, <1>4 DEF ActiveRows
  <2>3. ~Awaited(o)
    BY <1>1, <2>1, <2>2 DEF Awaited
  <2>4. ReadLast(o) /\ ShownLast(o)
    BY <2>3 DEF DeliveriesInv, RowsFollow
  <2>5. ReadLast(o)'
    BY <2>1, <2>2, <2>4 DEF ReadLast
  <2>6. ShownLast(o)'
    BY <1>1, <2>1, <2>2, <2>4 DEF ShownLast
  <2> QED BY <2>5, <2>6
<1> QED
  BY <1>1, <1>5, <1>6 DEF DeliveriesInv, DeliveryTypes, EntryHolds, DeliveringFollows

LEMMA StepDeliveriesInv == DeliveriesInv /\ [DeliveriesNext]_deliveryVars => DeliveriesInv'
BY ConnectionStep, ReassignStep, UserStep, ReadRowsStep, TransitionStep, FetchedStep,
   TransitionedStep, RequestFailsStep, CloseStep DEF DeliveriesNext

\* DeliveriesSettle: whatever the gateway tells and the courier does and undoes, and in
\* whatever order the fetches of useCourierSocket.ts are read and answered, the list of
\* MyDeliveriesView.vue ends as the rows are, and nothing in it waits for a delivery.
THEOREM DeliveriesTheorem == DeliveriesSpec => []DeliveriesSettle
<1>1. DeliveriesInv => DeliveriesSettle
  <2> SUFFICES ASSUME DeliveriesInv, Listed, online, notices = 0, asked = <<>>,
                      pendingDeliver = NoParcel, NEW o \in Parcels \ unseen
               PROVE  shown[o] = ActiveRows[o] /\ (shown[o] # "none" => o \notin delivering)
    BY DEF DeliveriesSettle
  <2>1. DOMAIN asked = {} /\ ~failed /\ opened
    BY DEF Listed
  <2>2. shown[o] = ActiveRows[o]
    BY <2>1 DEF DeliveriesInv, RowsFollow, Awaited, ShownLast
  <2>3. o \in delivering => job[o] = "delivered"
    BY <2>1, ParcelsAssumption DEF DeliveriesInv, DeliveringFollows, BeingDelivered
  <2> QED BY <2>2, <2>3 DEF ActiveRows
<1> QED BY <1>1, InitDeliveriesInv, StepDeliveriesInv, PTL DEF DeliveriesSpec

=============================================================================
