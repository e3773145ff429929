-------------------------- MODULE SessionStream_proofs --------------------------
(***************************************************************************)
(* Proofs about SessionStream, for any journal, page and number of lives,  *)
(* faults and resyncs: an attached socket is current, the types, and what  *)
(* the reader shows is the journal.                                        *)
(***************************************************************************)
EXTENDS SessionStream, SequenceTheorems, WellFoundedInduction, TLAPS

--------------------------------------------------------------------------------
(* The socket *)

(* A socket has its four fields, and an attached one was handed everything   *)
(* a live host has journaled.                                                *)
IsSocket(s) ==
  s = [since |-> s.since, server |-> s.server, wire |-> s.wire, sent |-> s.sent]
StreamInv ==
  sock # None =>
    IsSocket(sock) /\ (sock.server = "attached" => host = "live" /\ sock.sent = latest)

LEMMA StreamInit == Init => StreamInv
BY DEF Init, StreamInv

LEMMA SocketKept ==
  ASSUME StreamInv, sock' = sock, UNCHANGED <<host, latest>> PROVE StreamInv'
BY DEF StreamInv, IsSocket

LEMMA SocketRead ==
  ASSUME StreamInv, sock # None, NEW w, sock' = [sock EXCEPT !.wire = w],
         UNCHANGED <<host, latest>>
  PROVE  StreamInv'
BY DEF StreamInv, IsSocket

LEMMA SocketGone == ASSUME sock' = None PROVE StreamInv'
BY DEF StreamInv

LEMMA LoadKeeps == ASSUME StreamInv, Load PROVE StreamInv'
BY DEF StreamInv, IsSocket, Load

LEMMA EmitKeeps == ASSUME StreamInv, NEW f \in Frame, Emit(f) PROVE StreamInv'
<1>1. latest' = latest + 1 /\ host' = host /\ host = "live"
  BY DEF Emit, Append1
<1>2. CASE sock = None \/ sock.server # "attached"
  BY <1>1, <1>2 DEF Emit, StreamInv, IsSocket
<1>3. CASE ~(sock = None \/ sock.server # "attached")
  <2>1. CASE sock' = Pushed([seq |-> latest + 1, frame |-> f])
    BY <1>1, <1>3, <2>1 DEF Pushed, StreamInv, IsSocket
  <2>2. CASE sock' = Slow
    BY <1>3, <2>2 DEF Slow, StreamInv, IsSocket
  <2> QED
    BY <1>3, <2>1, <2>2 DEF Emit
<1> QED
  BY <1>2, <1>3

LEMMA AttachKeeps == ASSUME StreamInv, Attach PROVE StreamInv'
<1> DEFINE tail == After(sock.since)
<1>1. sock # None /\ host = "live" /\ host' = host /\ latest' = latest /\ IsSocket(sock)
  BY DEF Attach, hostVars, StreamInv
<1>2. CASE sock' = [sock EXCEPT !.wire = <<Reset>>, !.server = "closed"]
  BY <1>1, <1>2 DEF StreamInv, IsSocket
<1>3. CASE sock' = [sock EXCEPT !.wire = tail, !.server = "attached", !.sent = latest]
  <2> HIDE DEF tail
  <2> QED
    BY <1>1, <1>3 DEF StreamInv, IsSocket
<1>4. ASSUME NEW n \in 1 .. Len(tail) - 1,
             sock' = [sock EXCEPT !.wire = SubSeq(tail, 1, n), !.server = "closed"]
      PROVE  StreamInv'
  <2> HIDE DEF tail
  <2> QED
    BY <1>1, <1>4 DEF StreamInv, IsSocket
<1> QED
  BY <1>2, <1>3, <1>4 DEF Attach

LEMMA ReceiveKeeps == ASSUME StreamInv, Receive PROVE StreamInv'
<1>1. sock # None /\ UNCHANGED <<host, latest>>
  BY DEF Receive, hostVars
<1>2. sock' = None \/ sock' = [sock EXCEPT !.wire = Tail(@)]
  BY DEF Receive, Resync
<1> QED
  BY <1>1, <1>2, SocketGone DEF StreamInv, IsSocket

LEMMA FaultKeeps ==
  ASSUME StreamInv, Break \/ Lose \/ Repeat \/ LoadFails PROVE StreamInv'
<1>1. CASE Break
  BY <1>1, SocketGone DEF Break, Fault
<1>2. CASE Lose
  BY <1>2 DEF Lose, Fault, hostVars, StreamInv, IsSocket
<1>3. CASE Repeat
  BY <1>3 DEF Repeat, Fault, hostVars, StreamInv, IsSocket
<1>4. CASE LoadFails
  BY <1>4 DEF LoadFails, hostVars, StreamInv, IsSocket
<1> QED
  BY <1>1, <1>2, <1>3, <1>4

LEMMA StreamStep == StreamInv /\ [Next]_vars => StreamInv'
<1> SUFFICES ASSUME StreamInv, [Next]_vars PROVE StreamInv'
  OBVIOUS
<1>1. CASE Load
  BY <1>1, LoadKeeps
<1>2. ASSUME NEW f \in Frame, Emit(f) PROVE StreamInv'
  BY <1>2, EmitKeeps
<1>3. CASE Attach
  BY <1>3, AttachKeeps
<1>4. CASE Restart \/ Refresh \/ Closed
  BY <1>4, SocketGone DEF Restart, Refresh, Resync, Closed
<1>5. ASSUME NEW r \in fetches, Get(r) \/ GetMessages(r) \/ Subscribe(r) \/ FetchFails(r)
      PROVE  StreamInv'
  BY <1>5, SocketKept DEF Get, GetMessages, Subscribe, FetchFails, hostVars
<1>6. ASSUME NEW o \in olders, OlderAnswer(o) \/ Prepend(o) \/ OlderFails(o)
      PROVE  StreamInv'
  BY <1>6, SocketKept DEF OlderAnswer, Prepend, OlderFails, hostVars
<1>7. CASE LoadOlder
  BY <1>7, SocketKept DEF LoadOlder, hostVars
<1>8. CASE Connect
  BY <1>8 DEF Connect, StreamInv, IsSocket
<1>9. CASE Receive
  BY <1>9, ReceiveKeeps
<1>10. CASE Break \/ Lose \/ Repeat \/ LoadFails
  BY <1>10, FaultKeeps
<1>11. CASE UNCHANGED vars
  BY <1>11, SocketKept DEF vars, hostVars
<1> QED
  BY <1>1, <1>2, <1>3, <1>4, <1>5, <1>6, <1>7, <1>8, <1>9, <1>10, <1>11 DEF Next

(* Nothing falls between replay and attach, and a socket that is not closed  *)
(* was handed every envelope.                                                *)
THEOREM StreamAttachedIsCurrent == Spec => []AttachedIsCurrent
<1>1. StreamInv => AttachedIsCurrent
  BY DEF StreamInv, AttachedIsCurrent
<1> QED
  BY <1>1, StreamInit, StreamStep, PTL DEF Spec

--------------------------------------------------------------------------------
(* Chosen, for every sequence *)

(* Induction over data is by least counterexample. *)
LEMMA LeastExists ==
  ASSUME NEW T, T \subseteq Nat, T # {}
  PROVE  \E x \in T : \A y \in T : x <= y
<1>1. PICK x \in T : \A y \in T : <<y, x>> \notin OpToRel(<, Nat)
  BY NatLessThanWellFounded, WFMin
<1>2. ASSUME NEW y \in T PROVE x <= y
  <2>1. ~ (y < x)
    BY <1>1 DEF OpToRel
  <2> QED
    BY <2>1
<1> QED
  BY <1>2

(* g lists what is chosen of the first i elements, for each i up to n. *)
Lists(g, s, I, n) ==
  g = [i \in 0 .. n |->
         IF i = 0 THEN << >>
         ELSE IF i \in I THEN Append(g[i - 1], s[i]) ELSE g[i - 1]]

(* A recursive function of this shape exists, so CHOOSE finds it. *)
LEMMA ListsExist ==
  ASSUME NEW s, NEW I, NEW n \in Nat
  PROVE  \E g : Lists(g, s, I, n)
<1> DEFINE T == {m \in Nat : ~ \E g : Lists(g, s, I, m)}
<1> SUFFICES ASSUME T # {} PROVE FALSE
  OBVIOUS
<1>1. PICK m \in T : \A y \in T : m <= y
  BY LeastExists
<1>2. \E g : Lists(g, s, I, 0)
  <2> DEFINE h == [i \in 0 .. 0 |-> << >>]
  <2>1. Lists(h, s, I, 0)
    BY DEF Lists
  <2> QED
    BY <2>1
<1>3. m # 0 /\ m \in Nat /\ m - 1 \in Nat
  BY <1>2
<1>4. PICK g : Lists(g, s, I, m - 1)
  BY <1>1, <1>3
<1> DEFINE last == IF m \in I THEN Append(g[m - 1], s[m]) ELSE g[m - 1]
           h == [i \in 0 .. m |-> IF i = m THEN last ELSE g[i]]
<1> HIDE DEF last
<1>5. \A i \in 0 .. m - 1 : h[i] = g[i]
  BY <1>3
<1>6. ASSUME NEW i \in 0 .. m
      PROVE h[i] = IF i = 0 THEN << >>
                   ELSE IF i \in I THEN Append(h[i - 1], s[i]) ELSE h[i - 1]
  <2>1. CASE i = m
    BY <2>1, <1>3, <1>5 DEF last
  <2>2. CASE i # m
    <3>1. h[i] = g[i] /\ (i # 0 => h[i - 1] = g[i - 1])
      BY <2>2, <1>3, <1>5
    <3>2. g[i] = IF i = 0 THEN << >>
                 ELSE IF i \in I THEN Append(g[i - 1], s[i]) ELSE g[i - 1]
      <4>1. i \in 0 .. m - 1
        BY <2>2, <1>3
      <4> HIDE DEF h
      <4> QED
        BY <4>1, <1>4 DEF Lists
    <3> HIDE DEF h
    <3> QED
      BY <3>1, <3>2
  <2> QED
    BY <2>1, <2>2
<1>7. Lists(h, s, I, m)
  <2>1. h = [i \in 0 .. m |-> h[i]]
    OBVIOUS
  <2> HIDE DEF h
  <2> QED
    BY <2>1, <1>6 DEF Lists
<1> QED
  BY <1>7

(* Chosen(s, I) is the last value of a list. *)
LEMMA ChosenDef ==
  ASSUME NEW S, NEW s \in Seq(S), NEW I
  PROVE  \E g : Lists(g, s, I, Len(s)) /\ Chosen(s, I) = g[Len(s)]
<1> DEFINE c == CHOOSE g : Lists(g, s, I, Len(s))
<1>1. Lists(c, s, I, Len(s))
  BY ListsExist
<1>2. Chosen(s, I) = c[Len(s)]
  BY DEF Chosen, Lists
<1> HIDE DEF c
<1> QED
  BY <1>1, <1>2

(* t is what s has at the positions of I up to i, in the order of s. *)
Selects(t, s, I, i, S) ==
  /\ t \in Seq(S)
  /\ \A k \in DOMAIN t : \E j \in 1 .. i : j \in I /\ t[k] = s[j]
  /\ \A j \in 1 .. i : j \in I => \E k \in DOMAIN t : t[k] = s[j]
  /\ \A k, l \in DOMAIN t : k < l => \E j, m \in 1 .. i : j < m /\ t[k] = s[j] /\ t[l] = s[m]

(* The three steps of the induction over the positions of s. *)
LEMMA SelectsNone ==
  ASSUME NEW s, NEW I, NEW S PROVE Selects(<< >>, s, I, 0, S)
BY DEF Selects

LEMMA SelectsSkip ==
  ASSUME NEW S, NEW s \in Seq(S), NEW I, NEW i \in 1 .. Len(s), i \notin I,
         NEW t, Selects(t, s, I, i - 1, S)
  PROVE  Selects(t, s, I, i, S)
BY DEF Selects

LEMMA SelectsAppend ==
  ASSUME NEW S, NEW s \in Seq(S), NEW I, NEW i \in 1 .. Len(s), i \in I,
         NEW t, Selects(t, s, I, i - 1, S)
  PROVE  Selects(Append(t, s[i]), s, I, i, S)
<1> DEFINE u == Append(t, s[i])
<1>1. t \in Seq(S) /\ s[i] \in S
  BY DEF Selects
<1>2. /\ u \in Seq(S) /\ Len(u) = Len(t) + 1 /\ u[Len(u)] = s[i]
      /\ \A k \in 1 .. Len(t) : u[k] = t[k]
      /\ DOMAIN t = 1 .. Len(t) /\ DOMAIN u = 1 .. Len(u) /\ Len(t) \in Nat
  BY <1>1
<1> HIDE DEF u
<1>3. ASSUME NEW k \in DOMAIN u PROVE \E j \in 1 .. i : j \in I /\ u[k] = s[j]
  <2>1. CASE k = Len(u)
    BY <1>2, <2>1
  <2>2. CASE k # Len(u)
    <3>1. k \in DOMAIN t /\ u[k] = t[k]
      BY <1>2, <2>2
    <3>2. PICK j \in 1 .. i - 1 : j \in I /\ t[k] = s[j]
      BY <3>1 DEF Selects
    <3> QED
      BY <3>1, <3>2
  <2> QED
    BY <2>1, <2>2
<1>4. ASSUME NEW j \in 1 .. i, j \in I PROVE \E k \in DOMAIN u : u[k] = s[j]
  <2>1. CASE j = i
    BY <1>2, <2>1
  <2>2. CASE j # i
    <3>1. PICK k \in DOMAIN t : t[k] = s[j]
      BY <1>4, <2>2 DEF Selects
    <3> QED
      BY <1>2, <3>1
  <2> QED
    BY <2>1, <2>2
<1>5. ASSUME NEW k \in DOMAIN u, NEW l \in DOMAIN u, k < l
      PROVE  \E j, m \in 1 .. i : j < m /\ u[k] = s[j] /\ u[l] = s[m]
  <2>1. k \in DOMAIN t /\ u[k] = t[k]
    BY <1>2, <1>5
  <2>2. CASE l = Len(u)
    <3>1. PICK j \in 1 .. i - 1 : j \in I /\ t[k] = s[j]
      BY <2>1 DEF Selects
    <3>2. j < i /\ j \in 1 .. i /\ i \in 1 .. i
      OBVIOUS
    <3> QED
      BY <1>2, <2>1, <2>2, <3>1, <3>2
  <2>3. CASE l # Len(u)
    <3>1. l \in DOMAIN t /\ u[l] = t[l]
      BY <1>2, <2>3
    <3>2. PICK j \in 1 .. i - 1, m \in 1 .. i - 1 : j < m /\ t[k] = s[j] /\ t[l] = s[m]
      BY <1>5, <2>1, <3>1 DEF Selects
    <3> QED
      BY <2>1, <3>1, <3>2
  <2> QED
    BY <2>2, <2>3
<1> QED
  BY <1>2, <1>3, <1>4, <1>5 DEF Selects, u

(* Chosen(s, I) selects the positions of I, all of them and in order. *)
LEMMA ChosenSelects ==
  ASSUME NEW S, NEW s \in Seq(S), NEW I
  PROVE  Selects(Chosen(s, I), s, I, Len(s), S)
<1>1. PICK g : Lists(g, s, I, Len(s)) /\ Chosen(s, I) = g[Len(s)]
  BY ChosenDef
<1>2. \A i \in 0 .. Len(s) :
        g[i] = IF i = 0 THEN << >>
               ELSE IF i \in I THEN Append(g[i - 1], s[i]) ELSE g[i - 1]
  BY <1>1 DEF Lists
<1> DEFINE T == {i \in 0 .. Len(s) : ~Selects(g[i], s, I, i, S)}
<1>3. T \subseteq Nat
  OBVIOUS
<1>4. ASSUME T = {} PROVE Selects(Chosen(s, I), s, I, Len(s), S)
  <2>1. Len(s) \in 0 .. Len(s)
    OBVIOUS
  <2>2. Selects(g[Len(s)], s, I, Len(s), S)
    BY <1>4, <2>1
  <2> QED
    BY <1>1, <2>2
<1> SUFFICES ASSUME T # {} PROVE FALSE
  BY <1>4
<1>5. PICK i \in T : \A y \in T : i <= y
  <2> HIDE DEF T
  <2> QED
    BY <1>3, LeastExists
<1>6. i # 0
  BY <1>2, SelectsNone
<1>7. i \in 1 .. Len(s) /\ i - 1 \in 0 .. Len(s) /\ i - 1 \notin T
  BY <1>5, <1>6
<1>8. Selects(g[i - 1], s, I, i - 1, S)
  BY <1>7
<1>9. CASE i \in I
  BY <1>2, <1>7, <1>8, <1>9, SelectsAppend
<1>10. CASE i \notin I
  BY <1>2, <1>7, <1>8, <1>10, SelectsSkip
<1> QED
  BY <1>9, <1>10

--------------------------------------------------------------------------------
(* Types: the pages *)

(* The journal keeps the end of what was written, numbered from 1. *)
LogOK ==
  /\ Len(retained) <= latest
  /\ \A i \in DOMAIN retained :
       LET n == latest - Len(retained) + i IN retained[i] = [seq |-> n, frame |-> written[n]]
  /\ host = "offline" => latest = 0

(* The shapes of a page and of the two kinds of request. *)
PageType == [items : Seq(Envelope), next : Nat \cup {None}]
Fetch == [epoch : Nat, at : {"get", "page", "answer"}, seen : Nat, page : PageType]
Older == [epoch : Nat, second : BOOLEAN, before : Nat, answered : BOOLEAN, page : PageType]

(* The inductive strengthening of TypeOK. *)
TypeInv ==
  /\ TypeOK /\ LogOK
  /\ epoch \in Nat \ {0} /\ fetches \subseteq Fetch /\ olders \subseteq Older

LEMMA RetainedIncreases == ASSUME TypeInv PROVE Ascending(retained)
<1>1. retained \in Seq(Envelope) /\ latest \in Nat
  BY StreamAssumption DEF TypeInv, TypeOK
<1>2. ASSUME NEW i \in DOMAIN retained, NEW j \in DOMAIN retained, i < j
      PROVE  retained[i].seq < retained[j].seq
  <2>1. /\ retained[i].seq = latest - Len(retained) + i
        /\ retained[j].seq = latest - Len(retained) + j
    BY DEF TypeInv, LogOK
  <2> QED
    BY <1>1, <1>2, <2>1
<1> QED
  BY <1>2 DEF Ascending

(* What is chosen of increasing envelopes is increasing too. *)
LEMMA ChosenEnvelopes ==
  ASSUME NEW s \in Seq(Envelope), Ascending(s), NEW I
  PROVE  LET c == Chosen(s, I) IN
         /\ c \in Seq(Envelope) /\ Ascending(c)
         /\ \A k \in DOMAIN c : \E j \in DOMAIN s : j \in I /\ c[k] = s[j]
         /\ \A j \in DOMAIN s : j \in I => \E k \in DOMAIN c : c[k] = s[j]
<1> DEFINE c == Chosen(s, I)
<1>1. Selects(c, s, I, Len(s), Envelope) /\ DOMAIN s = 1 .. Len(s)
  BY ChosenSelects
<1> HIDE DEF c
<1>2. ASSUME NEW k \in DOMAIN c, NEW l \in DOMAIN c, k < l PROVE c[k].seq < c[l].seq
  <2>1. PICK j \in 1 .. Len(s), m \in 1 .. Len(s) : j < m /\ c[k] = s[j] /\ c[l] = s[m]
    BY <1>1, <1>2 DEF Selects
  <2> QED
    BY <1>1, <2>1 DEF Ascending
<1> QED
  BY <1>1, <1>2 DEF Selects, Ascending, c

(* Everything a page could hold. *)
Wanted(before) ==
  LET matches == {i \in DOMAIN retained :
                    retained[i].seq < before /\ retained[i].frame \in Message}
  IN Chosen(retained, matches)

(* p is what w has from the position `from` on. *)
EndOf(p, w, from) ==
  /\ p \in PageType /\ Len(p.items) = Len(w) - from
  /\ \A i \in 1 .. Len(p.items) : p.items[i] = w[from + i]
  /\ p.next # None => p.items # << >> /\ p.next = p.items[1].seq

(* A page is an end of what it could hold. *)
LEMMA PageIs ==
  ASSUME TypeInv, NEW before
  PROVE  /\ Wanted(before) \in Seq(Envelope) /\ Ascending(Wanted(before))
         /\ \E from \in 0 .. Len(Wanted(before)) :
              EndOf(Page(before, PageSize, Message), Wanted(before), from)
<1> DEFINE w == Wanted(before)
           p == Page(before, PageSize, Message)
<1>1. w \in Seq(Envelope) /\ Ascending(w)
  BY RetainedIncreases, ChosenEnvelopes DEF TypeInv, TypeOK, Wanted
<1>2. p = [items |-> IF Len(w) <= PageSize THEN w ELSE SubSeq(w, Len(w) - PageSize + 1, Len(w)),
           next |-> IF Len(w) > PageSize
                    THEN (IF Len(w) <= PageSize THEN w
                          ELSE SubSeq(w, Len(w) - PageSize + 1, Len(w)))[1].seq ELSE None]
  BY DEF Page, Wanted
<1> HIDE DEF w, p
<1>3. PageSize \in Nat \ {0} /\ Len(w) \in Nat
  BY <1>1, StreamAssumption
<1>4. CASE Len(w) <= PageSize
  <2>1. p = [items |-> w, next |-> None]
    BY <1>2, <1>3, <1>4
  <2>2. EndOf(p, w, 0)
    BY <1>1, <1>3, <2>1 DEF EndOf, PageType
  <2> QED
    BY <1>1, <1>3, <2>2 DEF w, p
<1>5. CASE Len(w) > PageSize
  <2> DEFINE from == Len(w) - PageSize
             items == SubSeq(w, from + 1, Len(w))
  <2>1. from + 1 \in 1 .. Len(w) /\ from \in 0 .. Len(w) /\ ~(Len(w) <= PageSize)
    BY <1>3, <1>5
  <2>2. p = [items |-> items, next |-> items[1].seq]
    BY <1>2, <1>5, <2>1
  <2> HIDE DEF from
  <2>3. /\ items \in Seq(Envelope) /\ Len(items) = Len(w) - from
        /\ \A i \in 1 .. Len(items) : items[i] = w[from + i]
    BY <1>1, <2>1
  <2> HIDE DEF items
  <2>4. Len(items) \in Nat \ {0} /\ items[1] \in Envelope
    BY <1>3, <2>1, <2>3
  <2>5. items # << >> /\ items[1].seq \in Nat
    BY <2>4 DEF Envelope
  <2>6. EndOf(p, w, from)
    BY <2>2, <2>3, <2>5 DEF EndOf, PageType
  <2> QED
    BY <1>1, <2>1, <2>6 DEF w, p
<1> QED
  BY <1>3, <1>4, <1>5

LEMMA PageTypes == ASSUME TypeInv, NEW before PROVE Page(before, PageSize, Message) \in PageType
BY PageIs DEF EndOf

(* A replay consists of envelopes that are retained. *)
LEMMA AfterIs ==
  ASSUME TypeInv, NEW since \in Nat, After(since) # None
  PROVE  /\ After(since) \in Seq(Envelope)
         /\ \A i \in DOMAIN After(since) : \E j \in DOMAIN retained : After(since)[i] = retained[j]
<1>1. retained \in Seq(Envelope) /\ latest \in Nat /\ Len(retained) <= latest
  BY StreamAssumption DEF TypeInv, TypeOK, LogOK
<1>2. CASE since = latest
  BY <1>2 DEF After
<1>3. CASE since # latest
  <2> DEFINE from == since - Oldest + 2
  <2>1. After(since) = SubSeq(retained, from, Len(retained))
    BY <1>3 DEF After
  <2>2. since + 1 >= Oldest /\ Oldest \in Nat
    <3>1. ~(since > latest \/ since + 1 < Oldest)
      BY <1>3 DEF After
    <3> QED
      BY <1>1, <3>1 DEF Oldest
  <2>3. from \in Nat \ {0}
    BY <2>2
  <2> HIDE DEF from
  <2>4. After(since) \in Seq(Envelope)
    BY <1>1, <2>1, <2>3
  <2>5. ASSUME NEW i \in DOMAIN After(since)
        PROVE  from + i - 1 \in DOMAIN retained /\ After(since)[i] = retained[from + i - 1]
    BY <1>1, <2>1, <2>3
  <2> QED
    BY <2>4, <2>5
<1> QED
  BY <1>2, <1>3

--------------------------------------------------------------------------------
(* Types: the initial state and the host *)

Socket == [since : Nat, server : {"opening", "attached", "closed"},
           wire : Seq(Envelope \cup {Reset}), sent : Nat]

LEMMA NoPageType == NoPage \in PageType
BY DEF NoPage, PageType

LEMMA FreshType == ASSUME NEW e \in Nat PROVE Fresh(e) \in Fetch
BY NoPageType DEF Fresh, Fetch

LEMMA TypeInit == Init => TypeInv
<1> SUFFICES ASSUME Init PROVE TypeInv
  OBVIOUS
<1>1. fetches \subseteq Fetch /\ olders \subseteq Older /\ epoch \in Nat \ {0}
  BY FreshType DEF Init
<1>2. LogOK
  BY DEF Init, LogInit, LogOK
<1>3. latest = 0 /\ latest \in 0 .. MaxSeq /\ 1 \in 1 .. MaxLives /\ 0 <= Capacity
  BY StreamAssumption, CapacityAssumption DEF Init, LogInit
<1>4. retained = << >> /\ written = << >> /\ lines = << >>
  BY DEF Init, LogInit
<1>5. fetches = {Fresh(1)} /\ epoch = 1 /\ olders = {}
  BY DEF Init
<1>6. \A r \in fetches : r.epoch \in 1 .. epoch /\ r.at \in {"get", "page", "answer"}
  BY <1>5 DEF Fresh
<1>7. TypeOK
  <2>1. /\ latest \in 0 .. MaxSeq /\ retained \in Seq(Envelope) /\ written \in Seq(Frame)
        /\ Len(written) = latest /\ Len(retained) <= Capacity
    BY <1>3, <1>4
  <2>2. /\ life \in 1 .. MaxLives /\ host \in {"offline", "live"} /\ sock = None
        /\ olderCursor = None /\ lastSeq = None
    BY <1>3 DEF Init
  <2>3. lines \in Seq(Envelope)
    BY <1>4
  <2>4. {loadingOlder, error, lossy, overtaken} \subseteq BOOLEAN
    BY DEF Init
  <2> QED
    BY <1>5, <1>6, <2>1, <2>2, <2>3, <2>4 DEF TypeOK
<1> QED
  BY <1>1, <1>2, <1>7 DEF TypeInv

(* What an action that leaves the host alone has to keep. *)
ReaderTypes ==
  /\ sock \in Socket \cup {None}
  /\ epoch \in Nat \ {0} /\ fetches \subseteq Fetch /\ olders \subseteq Older
  /\ \A r \in fetches : r.epoch \in 1 .. epoch
  /\ \A o \in olders : o.epoch \in 1 .. epoch
  /\ lines \in Seq(Envelope) /\ olderCursor \in Nat \cup {None}
  /\ lastSeq \in Nat \cup {None} /\ {loadingOlder, error, lossy, overtaken} \subseteq BOOLEAN
HostTypes ==
  /\ latest \in 0 .. MaxSeq /\ retained \in Seq(Envelope) /\ written \in Seq(Frame)
  /\ Len(written) = latest /\ Len(retained) <= Capacity
  /\ life \in 1 .. MaxLives /\ host \in {"offline", "live"}
  /\ LogOK

(* TypeInv is a part about the host and a part about the reader. *)
LEMMA TypeParts == TypeInv <=> HostTypes /\ ReaderTypes
BY DEF TypeInv, HostTypes, ReaderTypes, TypeOK, Socket, Fetch, Older

LEMMA HostUnchanged == ASSUME HostTypes, UNCHANGED hostVars PROVE HostTypes'
BY DEF HostTypes, LogOK, hostVars

LEMMA SubSeqOf ==
  ASSUME NEW S, NEW s \in Seq(S), NEW a \in Nat \ {0}, NEW b \in Nat, a <= b, b <= Len(s)
  PROVE  /\ SubSeq(s, a, b) \in Seq(S) /\ Len(SubSeq(s, a, b)) = b - a + 1
         /\ \A i \in 1 .. b - a + 1 : SubSeq(s, a, b)[i] = s[a + i - 1]
OBVIOUS

LEMMA LoadTypes == ASSUME TypeInv, Load PROVE HostTypes'
<1> PICK n \in 0 .. MaxReplay :
       /\ n <= Capacity
       /\ written' = [i \in 1 .. n + 1 |-> IF i <= n THEN "message" ELSE "state"]
       /\ latest' = n + 1
       /\ retained' = LET all == Numbered(written')
                      IN SubSeq(all, IF n + 1 > Capacity THEN 2 ELSE 1, n + 1)
  BY DEF Load
<1>1. n \in Nat /\ n + 1 \in 0 .. MaxSeq /\ Capacity \in Nat \ {0}
  BY StreamAssumption, CapacityAssumption
<1>2. written' \in Seq(Frame) /\ Len(written') = n + 1
  BY <1>1, StreamAssumption
<1> DEFINE all == Numbered(written')
           from == IF n + 1 > Capacity THEN 2 ELSE 1
<1>3. all \in Seq(Envelope) /\ Len(all) = n + 1
      /\ \A i \in 1 .. n + 1 : all[i] = [seq |-> i, frame |-> written'[i]]
  BY <1>1, <1>2 DEF Numbered, Envelope
<1>4. retained' = SubSeq(all, from, n + 1)
  OBVIOUS
<1>5. from \in 1 .. 2 /\ (from = 2 => n = Capacity) /\ (from = 1 => n + 1 <= Capacity)
  BY <1>1
<1> HIDE DEF all, from
<1>6. /\ retained' \in Seq(Envelope) /\ Len(retained') = n + 2 - from
      /\ \A i \in 1 .. Len(retained') : retained'[i] = all[from + i - 1]
  <2>1. from \in 1 .. n + 1 /\ n + 1 \in 1 .. Len(all)
    BY <1>1, <1>3, <1>5
  <2>2. /\ SubSeq(all, from, n + 1) \in Seq(Envelope)
        /\ Len(SubSeq(all, from, n + 1)) = (n + 1) - from + 1
        /\ \A i \in 1 .. (n + 1) - from + 1 : SubSeq(all, from, n + 1)[i] = all[from + i - 1]
    BY <1>1, <1>3, <2>1, SubSeqOf
  <2>3. (n + 1) - from + 1 = n + 2 - from
    BY <1>1, <2>1
  <2> QED
    BY <1>4, <2>2, <2>3
<1>7. /\ Len(retained') <= latest' /\ Len(retained') <= Capacity
      /\ DOMAIN retained' = 1 .. Len(retained')
  BY <1>1, <1>5, <1>6
<1>8. ASSUME NEW i \in DOMAIN retained'
      PROVE  retained'[i] = [seq |-> latest' - Len(retained') + i,
                             frame |-> written'[latest' - Len(retained') + i]]
  <2>1. latest' - Len(retained') + i = from + i - 1 /\ from + i - 1 \in 1 .. n + 1
    BY <1>1, <1>5, <1>6, <1>7
  <2> QED
    BY <1>3, <1>6, <1>7, <2>1
<1>9. LogOK'
  BY <1>7, <1>8 DEF LogOK, Load
<1> QED
  BY <1>1, <1>2, <1>6, <1>7, <1>9 DEF HostTypes, TypeInv, TypeOK, Load

LEMMA Shift ==
  ASSUME NEW a \in Nat, NEW b \in Nat, NEW d \in Nat, NEW k \in Nat, k = b - d, b <= a
  PROVE  /\ (a + 1) - (k + 1) = a - k
         /\ \A i \in 1 .. k : a - k + i = a - b + (d + i) /\ a - b + (d + i) \in 1 .. a
OBVIOUS

LEMMA EmitTypes == ASSUME TypeInv, NEW f \in Frame, Emit(f) PROVE HostTypes'
<1> DEFINE e == [seq |-> latest + 1, frame |-> f]
           kept == IF Room THEN retained ELSE Tail(retained)
<1>1. /\ latest \in Nat /\ latest + 1 \in 0 .. MaxSeq /\ Len(written) = latest
      /\ written \in Seq(Frame) /\ retained \in Seq(Envelope) /\ Len(retained) <= latest
      /\ Len(retained) <= Capacity /\ Capacity \in Nat \ {0}
  BY StreamAssumption, CapacityAssumption DEF TypeInv, TypeOK, LogOK, Emit
<1>2. latest' = latest + 1 /\ written' = Append(written, f) /\ retained' = Append(kept, e)
  BY DEF Emit, Append1
<1>3. /\ written' \in Seq(Frame) /\ Len(written') = latest'
      /\ written'[latest + 1] = f /\ \A i \in 1 .. latest : written'[i] = written[i]
  BY <1>1, <1>2
<1> DEFINE drop == IF Room THEN 0 ELSE 1
<1>4. /\ kept \in Seq(Envelope) /\ Len(kept) = Len(retained) - drop /\ Len(kept) < Capacity
      /\ \A i \in 1 .. Len(kept) : kept[i] = retained[drop + i]
      /\ drop \in 0 .. 1 /\ drop <= Len(retained)
  <2>1. CASE Room
    BY <1>1, <2>1 DEF Room
  <2>2. CASE ~Room
    <3>1. Len(retained) = Capacity /\ retained # << >>
      BY <1>1, <2>2 DEF Room
    <3>2. Tail(retained) \in Seq(Envelope) /\ Len(Tail(retained)) = Len(retained) - 1
          /\ \A i \in 1 .. Len(Tail(retained)) : Tail(retained)[i] = retained[i + 1]
      BY <1>1, <3>1
    <3> QED
      BY <1>1, <2>2, <3>1, <3>2
  <2> QED
    BY <2>1, <2>2
<1> HIDE DEF kept, drop
<1>5. e \in Envelope
  BY <1>1 DEF Envelope
<1>6. /\ retained' \in Seq(Envelope) /\ Len(retained') = Len(kept) + 1
      /\ retained'[Len(kept) + 1] = e
      /\ \A i \in 1 .. Len(kept) : retained'[i] = kept[i]
      /\ DOMAIN retained' = 1 .. Len(kept) + 1
  BY <1>2, <1>4, <1>5
<1>7. Len(retained') <= latest' /\ Len(retained') <= Capacity
  BY <1>1, <1>2, <1>4, <1>6
<1>8. Len(kept) \in Nat /\ Len(retained) \in Nat /\ drop \in Nat
  BY <1>1, <1>4
<1>9. /\ latest' - Len(retained') = latest - Len(kept)
      /\ \A i \in 1 .. Len(kept) :
           /\ latest - Len(kept) + i = latest - Len(retained) + (drop + i)
           /\ latest - Len(retained) + (drop + i) \in 1 .. latest
  <2>1. Len(kept) = Len(retained) - drop /\ Len(retained) <= latest /\ latest \in Nat
    BY <1>1, <1>4
  <2>2. latest' = latest + 1 /\ Len(retained') = Len(kept) + 1
    BY <1>2, <1>6
  <2>3. latest' - Len(retained') = (latest + 1) - (Len(kept) + 1)
    BY <2>2
  <2> QED
    BY <1>8, <2>1, <2>3, Shift
<1>10. ASSUME NEW i \in DOMAIN retained'
      PROVE  retained'[i] = [seq |-> latest' - Len(retained') + i,
                             frame |-> written'[latest' - Len(retained') + i]]
  <2>1. CASE i = Len(kept) + 1
    <3>1. latest - Len(kept) + (Len(kept) + 1) = latest + 1
      BY <1>1, <1>8
    <3> QED
      BY <1>3, <1>6, <1>9, <2>1, <3>1
  <2>2. CASE i # Len(kept) + 1
    <3>1. i \in 1 .. Len(kept) /\ drop + i \in DOMAIN retained
      BY <1>1, <1>4, <1>6, <2>2
    <3> DEFINE n == latest - Len(retained) + (drop + i)
    <3>2. retained[drop + i] = [seq |-> n, frame |-> written[n]]
      BY <3>1 DEF TypeInv, LogOK
    <3>3. latest' - Len(retained') + i = n /\ n \in 1 .. latest
      BY <1>9, <3>1
    <3> HIDE DEF n
    <3> QED
      BY <1>3, <1>4, <1>6, <3>1, <3>2, <3>3
  <2> QED
    BY <2>1, <2>2
<1>11. LogOK'
  BY <1>7, <1>10 DEF LogOK, Emit
<1> QED
  BY <1>1, <1>2, <1>3, <1>6, <1>7, <1>11 DEF HostTypes, TypeInv, TypeOK, Emit

LEMMA RestartTypes == ASSUME TypeInv, Restart PROVE HostTypes'
<1>1. life' \in 1 .. MaxLives /\ host' = "offline"
  BY StreamAssumption DEF TypeInv, TypeOK, Restart
<1>2. LogOK'
  BY DEF LogOK, Restart
<1> QED
  BY <1>1, <1>2, StreamAssumption, CapacityAssumption DEF HostTypes, Restart

LEMMA HostStep == ASSUME TypeInv, [Next]_vars PROVE HostTypes'
<1>1. HostTypes
  BY TypeParts
<1>2. CASE Load
  BY <1>2, LoadTypes
<1>3. ASSUME NEW f \in Frame, Emit(f) PROVE HostTypes'
  BY <1>3, EmitTypes
<1>4. CASE Restart
  BY <1>4, RestartTypes
<1>5. CASE UNCHANGED hostVars
  BY <1>1, <1>5, HostUnchanged
<1> QED
  BY <1>2, <1>3, <1>4, <1>5 DEF Next, vars, Attach, Refresh, Get, GetMessages, Subscribe,
     FetchFails, LoadOlder, OlderAnswer, Prepend, OlderFails, Connect, Receive, Closed, Break,
     Lose, Repeat, LoadFails, Fault

--------------------------------------------------------------------------------
(* Types: the reader *)

(* What ReaderTypes asks of the two sets of requests. *)
FetchesTyped == fetches \subseteq Fetch /\ \A r \in fetches : r.epoch \in 1 .. epoch
OldersTyped == olders \subseteq Older /\ \A o \in olders : o.epoch \in 1 .. epoch

LEMMA ResyncTypes == ASSUME TypeInv, Resync, lossy' = lossy PROVE ReaderTypes'
<1>1. epoch \in Nat \ {0} /\ epoch' = epoch + 1 /\ ReaderTypes
  BY TypeParts DEF Resync, TypeInv
<1>2. FetchesTyped'
  <2>1. Fresh(epoch + 1) \in Fetch /\ Fresh(epoch + 1).epoch = epoch + 1
    BY <1>1, FreshType DEF Fresh
  <2> QED
    BY <1>1, <2>1 DEF Resync, FetchesTyped, ReaderTypes
<1>3. OldersTyped'
  BY <1>1 DEF Resync, OldersTyped, ReaderTypes
<1>4. sock' = None /\ lastSeq' = None /\ error' = FALSE /\ loadingOlder' = FALSE
      /\ UNCHANGED <<lines, olderCursor, lossy, overtaken>> /\ epoch' \in Nat \ {0}
  BY <1>1 DEF Resync
<1> QED
  BY <1>1, <1>2, <1>3, <1>4 DEF ReaderTypes, FetchesTyped, OldersTyped

LEMMA FetchTypes ==
  ASSUME TypeInv, NEW r \in fetches, Get(r) \/ GetMessages(r) \/ Subscribe(r) \/ FetchFails(r)
  PROVE  ReaderTypes'
<1>1. ReaderTypes /\ r \in Fetch /\ r.epoch \in 1 .. epoch /\ latest \in Nat
  BY TypeParts, StreamAssumption DEF ReaderTypes, TypeInv, TypeOK
<1>2. CASE Get(r)
  <2>1. [r EXCEPT !.at = "page", !.seen = latest] \in Fetch
        /\ [r EXCEPT !.at = "page", !.seen = latest].epoch = r.epoch
    BY <1>1 DEF Fetch
  <2>2. UNCHANGED <<sock, epoch, olders, lines, olderCursor, loadingOlder, lastSeq, error, lossy,
                    overtaken>>
    BY <1>2 DEF Get
  <2>3. fetches' \subseteq fetches \cup {[r EXCEPT !.at = "page", !.seen = latest]}
    BY <1>2 DEF Get, Replace
  <2> QED
    BY <1>1, <2>1, <2>2, <2>3 DEF ReaderTypes
<1>3. CASE GetMessages(r)
  <2> DEFINE p == Page(latest + 1, PageSize, Message)
  <2>1. p \in PageType
    BY PageTypes
  <2>2. UNCHANGED <<sock, epoch, olders, lines, olderCursor, loadingOlder, lastSeq, error, lossy,
                    overtaken>>
    BY <1>3 DEF GetMessages
  <2>3. fetches' \subseteq fetches \cup {[r EXCEPT !.at = "answer", !.page = p]}
    BY <1>3 DEF GetMessages, Replace
  <2> HIDE DEF p
  <2>4. [r EXCEPT !.at = "answer", !.page = p] \in Fetch
        /\ [r EXCEPT !.at = "answer", !.page = p].epoch = r.epoch
    BY <1>1, <2>1 DEF Fetch
  <2> QED
    BY <1>1, <2>2, <2>3, <2>4 DEF ReaderTypes
<1>4. CASE Subscribe(r)
  <2>1. UNCHANGED <<sock, epoch, olders, error, lossy>> /\ fetches' \subseteq fetches
    BY <1>4 DEF Subscribe, Replace
  <2>2. r.page \in PageType /\ r.seen \in Nat
    BY <1>1 DEF Fetch
  <2>3. r.page.items \in Seq(Envelope) /\ r.page.next \in Nat \cup {None}
    BY <2>2 DEF PageType
  <2>4. Since(r) \in Nat
    <3>1. CASE r.page.items = << >>
      BY <2>2, <3>1 DEF Since
    <3>2. CASE r.page.items # << >>
      <4> DEFINE s == r.page.items
      <4>1. s \in Seq(Envelope) /\ s # << >>
        BY <2>3, <3>2
      <4> HIDE DEF s
      <4>2. s[Len(s)] \in Envelope
        BY <4>1
      <4>3. s[Len(s)].seq \in Nat
        BY <4>2 DEF Envelope
      <4> QED
        BY <3>2, <4>3 DEF Since, s
    <3> QED
      BY <3>1, <3>2
  <2>5. /\ lines' \in Seq(Envelope) /\ olderCursor' \in Nat \cup {None}
        /\ lastSeq' \in Nat \cup {None} /\ {loadingOlder, overtaken}' \subseteq BOOLEAN
    BY <1>1, <1>4, <2>3, <2>4 DEF Subscribe, ReaderTypes
  <2> QED
    BY <1>1, <2>1, <2>5 DEF ReaderTypes
<1>5. CASE FetchFails(r)
  <2>1. UNCHANGED <<sock, epoch, olders, lines, olderCursor, loadingOlder, lastSeq, lossy,
                    overtaken>>
        /\ fetches' \subseteq fetches /\ error' \in BOOLEAN
    BY <1>1, <1>5 DEF FetchFails, Replace
  <2> QED
    BY <1>1, <2>1 DEF ReaderTypes
<1> QED
  BY <1>2, <1>3, <1>4, <1>5

LEMMA OlderTypes ==
  ASSUME TypeInv, NEW o \in olders, OlderAnswer(o) \/ Prepend(o) \/ OlderFails(o)
  PROVE  ReaderTypes'
<1>1. ReaderTypes /\ o \in Older /\ o.epoch \in 1 .. epoch
  BY TypeParts DEF ReaderTypes
<1>2. CASE OlderAnswer(o)
  <2> DEFINE p == Page(o.before, PageSize, Message)
  <2>1. p \in PageType
    BY PageTypes
  <2>2. UNCHANGED <<sock, epoch, fetches, lines, olderCursor, loadingOlder, lastSeq, error, lossy,
                    overtaken>>
    BY <1>2 DEF OlderAnswer
  <2>3. olders' \subseteq olders \cup {[o EXCEPT !.answered = TRUE, !.page = p]}
    BY <1>2 DEF OlderAnswer
  <2> HIDE DEF p
  <2>4. [o EXCEPT !.answered = TRUE, !.page = p] \in Older
        /\ [o EXCEPT !.answered = TRUE, !.page = p].epoch = o.epoch
    BY <1>1, <2>1 DEF Older
  <2> QED
    BY <1>1, <2>2, <2>3, <2>4 DEF ReaderTypes
<1>3. CASE Prepend(o)
  <2>1. UNCHANGED <<sock, epoch, fetches, lastSeq, error, lossy, overtaken>>
        /\ olders' \subseteq olders
    BY <1>3 DEF Prepend
  <2>2. o.page.items \in Seq(Envelope) /\ o.page.next \in Nat \cup {None}
    BY <1>1 DEF Older, PageType
  <2>3. lines \in Seq(Envelope) /\ o.page.items \o lines \in Seq(Envelope)
    BY <1>1, <2>2 DEF ReaderTypes
  <2>4. /\ lines' \in Seq(Envelope) /\ olderCursor' \in Nat \cup {None}
        /\ loadingOlder' \in BOOLEAN
    BY <1>1, <1>3, <2>2, <2>3 DEF Prepend, ReaderTypes
  <2> QED
    BY <1>1, <2>1, <2>4 DEF ReaderTypes
<1>4. CASE OlderFails(o)
  <2>1. UNCHANGED <<sock, epoch, fetches, lines, olderCursor, lastSeq, error, lossy, overtaken>>
        /\ olders' \subseteq olders /\ loadingOlder' \in BOOLEAN
    BY <1>1, <1>4 DEF OlderFails
  <2> QED
    BY <1>1, <2>1 DEF ReaderTypes
<1> QED
  BY <1>2, <1>3, <1>4

LEMMA LoadOlderTypes == ASSUME TypeInv, LoadOlder PROVE ReaderTypes'
<1> DEFINE o == [epoch |-> epoch, second |-> \E q \in olders : Current(q) /\ ~q.second,
                before |-> olderCursor, answered |-> FALSE, page |-> NoPage]
<1>1. ReaderTypes /\ olderCursor \in Nat /\ epoch \in Nat \ {0}
  BY TypeParts DEF LoadOlder, ReaderTypes
<1>2. o \in Older /\ o.epoch = epoch
  BY <1>1, NoPageType DEF Older
<1>3. UNCHANGED <<sock, epoch, fetches, lines, olderCursor, lastSeq, error, lossy, overtaken>>
      /\ olders' = olders \cup {o} /\ loadingOlder' \in BOOLEAN
  BY DEF LoadOlder
<1> HIDE DEF o
<1> QED
  BY <1>1, <1>2, <1>3 DEF ReaderTypes

(* An action that moves only the socket. *)
LEMMA SocketMoves ==
  ASSUME TypeInv, sock' \in Socket \cup {None}, UNCHANGED <<readerVars, lossy>>
  PROVE  ReaderTypes'
<1>1. ReaderTypes
  BY TypeParts
<1> QED
  BY <1>1 DEF ReaderTypes, readerVars

(* A socket whose fields are replaced by others of their types is a socket. *)
LEMMA SocketFields ==
  ASSUME NEW s \in Socket
  PROVE  /\ s.wire \in Seq(Envelope \cup {Reset})
         /\ \A w \in Seq(Envelope \cup {Reset}), n \in Nat,
               v \in {"opening", "attached", "closed"} :
              /\ [s EXCEPT !.wire = w] \in Socket
              /\ [s EXCEPT !.wire = w, !.server = v] \in Socket
              /\ [s EXCEPT !.wire = w, !.sent = n] \in Socket
              /\ [s EXCEPT !.wire = w, !.server = v, !.sent = n] \in Socket
              /\ [s EXCEPT !.server = v] \in Socket
BY DEF Socket

LEMMA AttachTypes == ASSUME TypeInv, Attach PROVE sock' \in Socket \cup {None}
<1> DEFINE tail == After(sock.since)
           Wire == Seq(Envelope \cup {Reset})
<1>1. sock \in Socket /\ sock.since \in Nat /\ latest \in Nat
  <2>1. sock \in Socket
    BY TypeParts DEF ReaderTypes, Attach
  <2>2. latest \in Nat
    BY StreamAssumption DEF TypeInv, TypeOK
  <2> QED
    BY <2>1, <2>2 DEF Socket
<1>2. CASE sock' = [sock EXCEPT !.wire = <<Reset>>, !.server = "closed"]
  <2>1. <<Reset>> \in Wire
    OBVIOUS
  <2> QED
    BY <1>1, <1>2, <2>1, SocketFields
<1>3. CASE /\ tail # None
          /\ sock' = [sock EXCEPT !.wire = tail, !.server = "attached", !.sent = latest]
  <2>1. tail \in Wire
    <3>1. tail \in Seq(Envelope)
      BY <1>1, <1>3, AfterIs
    <3> HIDE DEF tail
    <3> QED
      BY <3>1
  <2> HIDE DEF tail
  <2> QED
    BY <1>1, <1>3, <2>1, SocketFields
<1>4. ASSUME tail # None, NEW n \in 1 .. Len(tail) - 1,
             sock' = [sock EXCEPT !.wire = SubSeq(tail, 1, n), !.server = "closed"]
      PROVE  sock' \in Socket
  <2>1. tail \in Seq(Envelope)
    BY <1>1, <1>4, AfterIs
  <2> HIDE DEF tail
  <2>2. SubSeq(tail, 1, n) \in Wire
    BY <2>1
  <2> QED
    BY <1>1, <1>4, <2>2, SocketFields
<1> QED
  BY <1>2, <1>3, <1>4 DEF Attach

LEMMA EmitSocket == ASSUME TypeInv, NEW f \in Frame, Emit(f) PROVE sock' \in Socket \cup {None}
<1> DEFINE e == [seq |-> latest + 1, frame |-> f]
<1>1. sock \in Socket \cup {None} /\ latest \in Nat /\ e \in Envelope /\ e.seq \in Nat
  BY TypeParts, StreamAssumption DEF ReaderTypes, TypeInv, TypeOK, Envelope
<1> HIDE DEF e
<1>2. CASE sock # None /\ sock' = Pushed(e)
  <2> DEFINE w == sock.wire
  <2>1. w \in Seq(Envelope \cup {Reset})
    BY <1>1, <1>2, SocketFields
  <2> HIDE DEF w
  <2>2. Append(w, e) \in Seq(Envelope \cup {Reset})
    BY <1>1, <2>1
  <2>3. Append(sock.wire, e) \in Seq(Envelope \cup {Reset})
    BY <2>2 DEF w
  <2> QED
    BY <1>1, <1>2, <2>3, SocketFields DEF Pushed
<1>3. CASE sock # None /\ sock' = Slow
  BY <1>1, <1>3, SocketFields DEF Slow
<1> QED
  BY <1>1, <1>2, <1>3 DEF Emit, e

LEMMA ConnectTypes == ASSUME TypeInv, Connect PROVE sock' \in Socket \cup {None}
<1>1. lastSeq \in Nat
  BY DEF TypeInv, TypeOK, Connect
<1>2. << >> \in Seq(Envelope \cup {Reset})
  OBVIOUS
<1> QED
  BY <1>1, <1>2 DEF Connect, Socket

LEMMA FaultTypes == ASSUME TypeInv, Break \/ Lose \/ Repeat PROVE sock' \in Socket \cup {None}
<1>1. CASE Break
  BY <1>1 DEF Break, Fault
<1>2. CASE Lose \/ Repeat
  <2>1. sock \in Socket /\ sock.wire # << >>
    BY <1>2, TypeParts DEF Lose, Repeat, ReaderTypes
  <2> DEFINE w == sock.wire
  <2>2. w \in Seq(Envelope \cup {Reset}) /\ w # << >>
    BY <2>1, SocketFields
  <2> HIDE DEF w
  <2>3. Tail(w) \in Seq(Envelope \cup {Reset}) /\ <<Head(w)>> \o w \in Seq(Envelope \cup {Reset})
    BY <2>2
  <2>4. sock' = [sock EXCEPT !.wire = Tail(w)] \/ sock' = [sock EXCEPT !.wire = <<Head(w)>> \o w]
    BY <1>2 DEF Lose, Repeat, Fault, w
  <2> QED
    BY <2>1, <2>3, <2>4, SocketFields
<1> QED
  BY <1>1, <1>2

LEMMA LoadFailsTypes == ASSUME TypeInv, LoadFails PROVE ReaderTypes'
<1>1. ReaderTypes
  BY TypeParts
<1>2. sock' \in Socket \cup {None}
  <2>1. <<Reset>> \in Seq(Envelope \cup {Reset})
    OBVIOUS
  <2> QED
    BY <1>1, <2>1, SocketFields DEF LoadFails, ReaderTypes
<1>3. /\ UNCHANGED <<epoch, lines, olderCursor, lastSeq, lossy, overtaken>>
      /\ fetches' \subseteq fetches /\ olders' \subseteq olders
      /\ error' \in BOOLEAN /\ loadingOlder' \in BOOLEAN
  BY <1>1 DEF LoadFails, ReaderTypes
<1> QED
  BY <1>1, <1>2, <1>3 DEF ReaderTypes

LEMMA FoldedType == ASSUME TypeInv, NEW e \in Envelope PROVE Folded(e) \in Seq(Envelope)
<1> DEFINE others == {i \in DOMAIN lines : lines[i].frame # "state"}
<1>1. lines \in Seq(Envelope)
  BY DEF TypeInv, TypeOK
<1>2. Chosen(lines, others) \in Seq(Envelope)
  BY <1>1, ChosenSelects DEF Selects
<1> HIDE DEF others
<1> QED
  BY <1>1, <1>2 DEF Folded, others

LEMMA ReceiveTypes == ASSUME TypeInv, Receive PROVE ReaderTypes'
<1> DEFINE e == Head(sock.wire)
           w == sock.wire
<1>1. ReaderTypes /\ sock \in Socket /\ lastSeq \in Nat /\ lossy' = lossy
  BY TypeParts DEF Receive, ReaderTypes
<1>2. w \in Seq(Envelope \cup {Reset}) /\ w # << >>
  BY <1>1, SocketFields DEF Receive
<1>3. e \in Envelope \cup {Reset} /\ Tail(w) \in Seq(Envelope \cup {Reset})
  <2> HIDE DEF w
  <2>1. Head(w) \in Envelope \cup {Reset} /\ Tail(w) \in Seq(Envelope \cup {Reset})
    BY <1>2
  <2> QED
    BY <2>1 DEF w
<1>4. CASE e = Reset
  BY <1>1, <1>4, ResyncTypes DEF Receive
<1>5. CASE e # Reset
  <2>1. e \in Envelope /\ e.seq \in Nat
    BY <1>3, <1>5 DEF Envelope
  <2>2. [sock EXCEPT !.wire = Tail(@)] \in Socket
    BY <1>1, <1>3, SocketFields
  <2>3. UNCHANGED <<epoch, fetches, olders, olderCursor, loadingOlder, error, overtaken>>
    BY <1>5, <1>1, <2>1 DEF Receive
  <2>4. sock' \in Socket \cup {None}
    BY <1>5, <2>2 DEF Receive
  <2>5. \/ UNCHANGED <<lines, lastSeq>>
        \/ lines' = Folded(e) /\ lastSeq' = e.seq
    BY <1>5 DEF Receive
  <2>6. lines' \in Seq(Envelope) /\ lastSeq' \in Nat \cup {None}
    BY <1>1, <2>1, <2>5, FoldedType DEF ReaderTypes
  <2> QED
    BY <1>1, <2>3, <2>4, <2>6 DEF ReaderTypes
<1> QED
  BY <1>4, <1>5

LEMMA ReaderStep == ASSUME TypeInv, [Next]_vars PROVE ReaderTypes'
<1>1. sock \in Socket \cup {None}
  BY TypeParts DEF ReaderTypes
<1>2. CASE Load \/ Restart \/ Closed \/ UNCHANGED vars
  <2>1. sock' \in {sock, None} /\ UNCHANGED <<readerVars, lossy>>
    BY <1>2 DEF Load, Restart, Closed, vars
  <2> QED
    BY <1>1, <2>1, SocketMoves
<1>3. ASSUME NEW f \in Frame, Emit(f) PROVE ReaderTypes'
  <2>1. UNCHANGED <<readerVars, lossy>>
    BY <1>3 DEF Emit
  <2> QED
    BY <1>3, <2>1, EmitSocket, SocketMoves
<1>4. CASE Attach \/ Connect
  <2>1. UNCHANGED <<readerVars, lossy>>
    BY <1>4 DEF Attach, Connect
  <2> QED
    BY <1>4, <2>1, AttachTypes, ConnectTypes, SocketMoves
<1>5. CASE Refresh
  BY <1>5, ResyncTypes DEF Refresh
<1>6. ASSUME NEW r \in fetches, Get(r) \/ GetMessages(r) \/ Subscribe(r) \/ FetchFails(r)
      PROVE  ReaderTypes'
  BY <1>6, FetchTypes
<1>7. CASE LoadOlder
  BY <1>7, LoadOlderTypes
<1>8. ASSUME NEW o \in olders, OlderAnswer(o) \/ Prepend(o) \/ OlderFails(o)
      PROVE  ReaderTypes'
  BY <1>8, OlderTypes
<1>9. CASE Receive
  BY <1>9, ReceiveTypes
<1>10. CASE Break \/ Lose \/ Repeat
  <2>1. UNCHANGED <<readerVars, lossy>>
    BY <1>10 DEF Break, Lose, Repeat, Fault
  <2> QED
    BY <1>10, <2>1, FaultTypes, SocketMoves
<1>11. CASE LoadFails
  BY <1>11, LoadFailsTypes
<1> QED
  BY <1>2, <1>3, <1>4, <1>5, <1>6, <1>7, <1>8, <1>9, <1>10, <1>11 DEF Next

LEMMA TypeStep == TypeInv /\ [Next]_vars => TypeInv'
<1> SUFFICES ASSUME TypeInv, [Next]_vars PROVE TypeInv'
  OBVIOUS
<1>1. HostTypes' /\ ReaderTypes'
  BY HostStep, ReaderStep
<1> QED
  BY <1>1 DEF TypeInv, HostTypes, ReaderTypes, TypeOK, Socket, Fetch, Older

(* The stream has its types in every reachable state: in particular the
   journal is as long as its newest number and keeps at most Capacity of it. *)
THEOREM StreamTypeCorrect == Spec => []TypeOK
<1>1. TypeInv => TypeOK
  BY DEF TypeInv
<1> QED
  BY <1>1, TypeInit, TypeStep, PTL DEF Spec

--------------------------------------------------------------------------------
(* The timeline: the invariant *)

(* Envelope e is number e.seq of the frames w. *)
InLog(e, w) == e \in Envelope /\ e.seq <= Len(w) /\ e.frame = w[e.seq]

(* No message of w is missing in s from its first envelope to number n. *)
Complete(s, n, w) ==
  n <= Len(w) /\ \A m \in s[1].seq .. n : w[m] \in Message => \E i \in DOMAIN s : s[i].seq = m

(* s is a stretch of w up to n: of w, in order and complete in messages. *)
Stretch(s, n, w) ==
  /\ \A i \in DOMAIN s : InLog(s[i], w)
  /\ Ascending(s)
  /\ s # << >> => Complete(s, n, w)

(* A cursor for older pages is the number of the first envelope, a message. *)
StartsAt(s, n) == s # << >> /\ n = s[1].seq /\ s[1].frame \in Message

(* What an answered page is worth, when asked before number n. *)
PageOK(p, n, w) ==
  /\ Stretch(p.items, n - 1, w)
  /\ \A i \in DOMAIN p.items : p.items[i].seq < n
  /\ p.next # None => StartsAt(p.items, p.next)

(* A resync under way: its page was right when it was answered. *)
FetchOK(r, w) ==
  r.seen <= Len(w) /\ (r.at = "answer" => \E n \in 1 .. Len(w) + 1 : PageOK(r.page, n, w))

FetchesOK == \A r \in fetches : FetchOK(r, written)

(* At most one request for older pages concerns the lines on the screen, and
   its page ends where the lines begin.  A timeline that was overtaken loses
   this, and with it LinesOK, until the next resync replaces it. *)
OldersOK ==
  \/ overtaken
  \/ /\ \A o, q \in olders : Current(o) /\ Current(q) => o = q
     /\ \A o \in olders : Current(o) =>
          /\ loadingOlder /\ olderCursor # None /\ o.before = olderCursor
          /\ o.answered => PageOK(o.page, o.before, written)

(* What is on the screen is a stretch that reaches the cursor. *)
LinesOK == overtaken \/
  /\ Stretch(lines, Newest, written)
  /\ lastSeq # None =>
       lastSeq <= Len(written) /\ \A i \in DOMAIN lines : lines[i].seq <= lastSeq
  /\ olderCursor # None => StartsAt(lines, olderCursor)

(* Whatever is on its way to the reader was journaled. *)
WireOK ==
  sock # None =>
    \A i \in DOMAIN sock.wire : sock.wire[i] = Reset \/ InLog(sock.wire[i], written)

(* What holds in the first life of the host, beyond the types. *)
Facts == FetchesOK /\ OldersOK /\ LinesOK /\ WireOK
TimelineInv == TypeInv /\ (life = 1 => Facts)

(* The journal keeps what it has: w extends v. *)
Grows(v, w) ==
  v \in Seq(Frame) /\ w \in Seq(Frame) /\ Len(v) <= Len(w) /\ \A m \in 1 .. Len(v) : w[m] = v[m]

--------------------------------------------------------------------------------
(* The timeline: the journal grows *)

LEMMA InLogGrows ==
  ASSUME NEW v, NEW w, Grows(v, w), NEW e, InLog(e, v) PROVE InLog(e, w)
BY DEF Grows, InLog, Envelope

(* Every fact survives the growth of the journal. *)
LEMMA StretchGrows ==
  ASSUME NEW v, NEW w, Grows(v, w), NEW s \in Seq(Envelope), NEW n \in Int, Stretch(s, n, v)
  PROVE  Stretch(s, n, w)
<1>1. \A i \in DOMAIN s : InLog(s[i], w)
  BY InLogGrows DEF Stretch
<1>2. ASSUME s # << >> PROVE Complete(s, n, w)
  <2>1. Complete(s, n, v) /\ s[1] \in Envelope
    BY <1>2 DEF Stretch
  <2>2. n <= Len(w) /\ s[1].seq \in Nat \ {0} /\ Len(v) \in Nat /\ Len(w) \in Nat
    BY <2>1 DEF Complete, Grows, Envelope
  <2>3. ASSUME NEW m \in s[1].seq .. n, w[m] \in Message PROVE \E i \in DOMAIN s : s[i].seq = m
    <3>1. m \in 1 .. Len(v)
      BY <2>1, <2>2 DEF Complete
    <3> QED
      BY <2>1, <2>3, <3>1 DEF Complete, Grows
  <2> QED
    BY <2>2, <2>3 DEF Complete
<1> QED
  BY <1>1, <1>2 DEF Stretch

LEMMA PageGrows ==
  ASSUME NEW v, NEW w, Grows(v, w), NEW p \in PageType, NEW n \in Int, PageOK(p, n, v)
  PROVE  PageOK(p, n, w)
<1>1. Stretch(p.items, n - 1, w)
  <2>1. p.items \in Seq(Envelope) /\ n - 1 \in Int /\ Stretch(p.items, n - 1, v)
    BY DEF PageType, PageOK
  <2> QED
    BY <2>1, StretchGrows
<1> QED
  BY <1>1 DEF PageOK

LEMMA FetchGrows ==
  ASSUME NEW v, NEW w, Grows(v, w), NEW r \in Fetch, FetchOK(r, v) PROVE FetchOK(r, w)
<1>1. r.page \in PageType /\ Len(v) \in Nat /\ Len(w) \in Nat /\ Len(v) <= Len(w) /\ r.seen \in Nat
  BY DEF Fetch, Grows
<1>2. r.seen <= Len(w)
  BY <1>1 DEF FetchOK
<1>3. ASSUME r.at = "answer" PROVE \E n \in 1 .. Len(w) + 1 : PageOK(r.page, n, w)
  <2>1. PICK n \in 1 .. Len(v) + 1 : PageOK(r.page, n, v)
    BY <1>3 DEF FetchOK
  <2>2. n \in 1 .. Len(w) + 1 /\ n \in Int
    BY <1>1
  <2> QED
    BY <1>1, <2>1, <2>2, PageGrows
<1> QED
  BY <1>2, <1>3 DEF FetchOK

--------------------------------------------------------------------------------
(* The timeline: a page *)

(* A page read from the journal is right: what it leaves out is older. *)
LEMMA PageFits ==
  ASSUME TypeInv, NEW before \in Nat \ {0}, before <= latest + 1
  PROVE  PageOK(Page(before, PageSize, Message), before, written)
<1> DEFINE w == Wanted(before)
           p == Page(before, PageSize, Message)
           matches == {i \in DOMAIN retained :
                         retained[i].seq < before /\ retained[i].frame \in Message}
<1>1. /\ retained \in Seq(Envelope) /\ latest \in Nat /\ Len(written) = latest
      /\ Len(retained) <= latest /\ Len(retained) \in Nat /\ written \in Seq(Frame)
  BY StreamAssumption DEF TypeInv, TypeOK, LogOK
<1>2. /\ w \in Seq(Envelope) /\ Ascending(w)
      /\ \A k \in DOMAIN w : \E j \in DOMAIN retained : j \in matches /\ w[k] = retained[j]
      /\ \A j \in DOMAIN retained : j \in matches => \E k \in DOMAIN w : w[k] = retained[j]
  <2>1. Ascending(retained) /\ w = Chosen(retained, matches)
    BY RetainedIncreases DEF Wanted
  <2> HIDE DEF matches, w
  <2> QED
    BY <1>1, <2>1, ChosenEnvelopes
<1> HIDE DEF w
<1>3. PICK from \in 0 .. Len(w) : EndOf(p, w, from)
  BY PageIs DEF w
<1> HIDE DEF p
<1> DEFINE items == p.items
<1>4. /\ items \in Seq(Envelope) /\ Len(items) = Len(w) - from /\ DOMAIN items = 1 .. Len(items)
      /\ \A i \in DOMAIN items : items[i] = w[from + i] /\ from + i \in DOMAIN w
      /\ DOMAIN w = 1 .. Len(w) /\ Len(w) \in Nat
  <2>1. /\ items \in Seq(Envelope) /\ Len(items) = Len(w) - from
        /\ \A i \in 1 .. Len(items) : items[i] = w[from + i]
    BY <1>3 DEF EndOf, PageType
  <2> HIDE DEF items
  <2>2. DOMAIN items = 1 .. Len(items) /\ DOMAIN w = 1 .. Len(w) /\ Len(w) \in Nat
    BY <1>2, <2>1
  <2>3. \A i \in 1 .. Len(items) : from + i \in 1 .. Len(w)
    BY <2>1, <2>2
  <2> QED
    BY <2>1, <2>2, <2>3
<1> HIDE DEF items
<1>5. \A j \in DOMAIN retained :
        /\ retained[j].seq = latest - Len(retained) + j
        /\ retained[j].frame = written[latest - Len(retained) + j]
  BY DEF TypeInv, LogOK
<1>6. ASSUME NEW k \in DOMAIN w
      PROVE  InLog(w[k], written) /\ w[k].seq < before /\ w[k].frame \in Message
             /\ w[k].seq > latest - Len(retained)
  <2>1. PICK j \in DOMAIN retained : j \in matches /\ w[k] = retained[j]
    BY <1>2
  <2> DEFINE n == latest - Len(retained) + j
  <2>2. n <= latest /\ n > latest - Len(retained)
    BY <1>1
  <2>3. w[k].seq = n /\ w[k].frame = written[n]
    BY <1>5, <2>1
  <2>4. w[k] \in Envelope /\ w[k].seq < before /\ w[k].frame \in Message
    BY <1>2, <2>1
  <2> HIDE DEF n
  <2> QED
    BY <1>1, <2>2, <2>3, <2>4 DEF InLog
<1>7. ASSUME NEW i \in DOMAIN items
      PROVE  InLog(items[i], written) /\ items[i].seq < before /\ items[i].frame \in Message
  BY <1>4, <1>6
<1>8. ASSUME NEW i \in DOMAIN items, NEW j \in DOMAIN items, i < j
      PROVE  items[i].seq < items[j].seq
  <2>1. from + i < from + j /\ from + i \in DOMAIN w /\ from + j \in DOMAIN w
    <3>1. from \in Int /\ i \in Int /\ j \in Int
      BY <1>4
    <3> QED
      BY <1>4, <1>8, <3>1
  <2>2. w[from + i].seq < w[from + j].seq
    BY <1>2, <2>1 DEF Ascending
  <2> QED
    BY <1>4, <2>2
<1>9. ASSUME items # << >> PROVE Complete(items, before - 1, written)
  <2>1. before - 1 <= Len(written)
    BY <1>1
  <2>2. 1 \in DOMAIN items /\ from + 1 \in DOMAIN w /\ items[1] = w[from + 1]
    BY <1>4, <1>9
  <2>3. items[1].seq \in Nat /\ items[1].seq > latest - Len(retained)
    <3>1. items[1] \in Envelope
      BY <1>4, <2>2
    <3> QED
      BY <1>6, <2>2, <3>1 DEF Envelope
  <2>4. ASSUME NEW m \in items[1].seq .. before - 1, written[m] \in Message
        PROVE  \E i \in DOMAIN items : items[i].seq = m
    <3> DEFINE j == m - (latest - Len(retained))
    <3>1. j \in 1 .. Len(retained) /\ latest - Len(retained) + j = m /\ m < before
      BY <1>1, <2>3
    <3> HIDE DEF j
    <3>2. j \in DOMAIN retained /\ retained[j].seq = m /\ retained[j].frame = written[m]
      BY <1>1, <1>5, <3>1
    <3>3. PICK k \in DOMAIN w : w[k] = retained[j]
      BY <1>2, <2>4, <3>1, <3>2
    <3>4. ~ (k < from + 1)
      <4>1. ASSUME k < from + 1 PROVE FALSE
        <5>1. w[k].seq < w[from + 1].seq
          BY <1>2, <2>2, <4>1 DEF Ascending
        <5> QED
          BY <2>2, <2>3, <3>2, <3>3, <5>1
      <4> QED
        BY <4>1
    <3>5. k - from \in DOMAIN items /\ from + (k - from) = k
      BY <1>4, <3>4
    <3>6. items[k - from] = w[k]
      BY <1>4, <3>5
    <3> QED
      BY <3>2, <3>3, <3>5, <3>6
  <2> QED
    BY <2>1, <2>4 DEF Complete
<1>10. Stretch(items, before - 1, written)
  BY <1>7, <1>8, <1>9 DEF Stretch, Ascending
<1>11. p.next # None => StartsAt(items, p.next)
  <2>1. ASSUME p.next # None PROVE StartsAt(items, p.next)
    <3>1. items # << >> /\ p.next = items[1].seq
      BY <1>3, <2>1 DEF EndOf, items
    <3>2. 1 \in DOMAIN items
      BY <1>4, <3>1
    <3> QED
      BY <1>7, <3>1, <3>2 DEF StartsAt
  <2> QED
    BY <2>1
<1> QED
  BY <1>7, <1>10, <1>11 DEF PageOK, p, items

(* Within one life no step rewrites the journal. *)
LEMMA JournalGrows ==
  ASSUME TypeInv, [Next]_vars, life' = life PROVE Grows(written, written')
<1>1. /\ written \in Seq(Frame) /\ Len(written) = latest /\ latest \in Nat
      /\ life \in Nat /\ (host = "offline" => latest = 0)
  BY StreamAssumption DEF TypeInv, TypeOK, LogOK
<1>2. written' \in Seq(Frame)
  BY TypeStep DEF TypeInv, TypeOK
<1>3. CASE Load
  BY <1>1, <1>2, <1>3 DEF Load, Grows
<1>4. ASSUME NEW f \in Frame, Emit(f) PROVE Grows(written, written')
  BY <1>1, <1>2, <1>4 DEF Emit, Grows
<1>5. CASE Restart
  BY <1>1, <1>5 DEF Restart
<1>6. CASE UNCHANGED written
  BY <1>1, <1>6 DEF Grows
<1> QED
  BY <1>3, <1>4, <1>5, <1>6 DEF Next, vars, hostVars, Attach, Refresh, Get, GetMessages, Subscribe,
     FetchFails, LoadOlder, OlderAnswer, Prepend, OlderFails, Connect, Receive, Closed, Break, Lose,
     Repeat, LoadFails, Fault

(* One lemma per part of Facts, for the steps that add nothing to it. *)
LEMMA FetchesKept ==
  ASSUME TypeInv, FetchesOK, Grows(written, written'), fetches' \subseteq fetches
  PROVE  FetchesOK'
<1>1. fetches \subseteq Fetch
  BY DEF TypeInv
<1>2. ASSUME NEW r \in fetches' PROVE FetchOK(r, written')
  BY <1>1, <1>2, FetchGrows DEF FetchesOK
<1> QED
  BY <1>2 DEF FetchesOK

LEMMA OldersKept ==
  ASSUME TypeInv, OldersOK, Grows(written, written'), olders' \subseteq olders,
         UNCHANGED <<epoch, olderCursor, loadingOlder, overtaken>>
  PROVE  OldersOK'
<1> SUFFICES ASSUME ~overtaken PROVE OldersOK'
  BY DEF OldersOK
<1>1. ASSUME NEW o \in olders', o.epoch = epoch, o.answered
      PROVE  PageOK(o.page, o.before, written')
  <2>1. o \in Older /\ PageOK(o.page, o.before, written)
    BY <1>1 DEF TypeInv, OldersOK, Current
  <2>2. o.page \in PageType /\ o.before \in Int
    BY <2>1 DEF Older
  <2> QED
    BY <2>1, <2>2, PageGrows
<1>2. ASSUME NEW o \in olders', o.epoch = epoch
      PROVE  loadingOlder /\ olderCursor # None /\ o.before = olderCursor
  BY <1>2 DEF OldersOK, Current
<1>3. \A o, q \in olders' : o.epoch = epoch /\ q.epoch = epoch => o = q
  BY DEF OldersOK, Current
<1> QED
  BY <1>1, <1>2, <1>3 DEF OldersOK, Current

LEMMA NewestInt == ASSUME TypeInv, lines # << >> PROVE Newest \in Int
<1>1. lines \in Seq(Envelope) /\ lastSeq \in Nat \cup {None}
  BY DEF TypeInv, TypeOK
<1>2. lines[Len(lines)] \in Envelope
  BY <1>1
<1> QED
  BY <1>1, <1>2 DEF Newest, Envelope

LEMMA LinesKept ==
  ASSUME TypeInv, LinesOK, Grows(written, written'),
         UNCHANGED <<lines, lastSeq, olderCursor, overtaken>>
  PROVE  LinesOK'
<1> SUFFICES ASSUME ~overtaken PROVE LinesOK'
  BY DEF LinesOK
<1>1. lines \in Seq(Envelope) /\ lastSeq \in Nat \cup {None} /\ Newest' = Newest
  BY DEF TypeInv, TypeOK, Newest
<1>2. Stretch(lines, Newest, written')
  <2>1. CASE lines = << >>
    BY <2>1 DEF Stretch, Ascending
  <2>2. CASE lines # << >>
    BY <1>1, <2>2, NewestInt, StretchGrows DEF LinesOK
  <2> QED
    BY <2>1, <2>2
<1>3. lastSeq # None => lastSeq <= Len(written')
  BY <1>1 DEF LinesOK, Grows
<1> QED
  BY <1>1, <1>2, <1>3 DEF LinesOK

(* What WireOK allows on the wire. *)
OnWire(e, w) == e = Reset \/ InLog(e, w)

(* The wire may carry on with what it had, in any order, or with the journal. *)
LEMMA WireKept ==
  ASSUME TypeInv, WireOK, Grows(written, written'),
         sock' # None =>
           \A i \in DOMAIN sock'.wire :
             \/ OnWire(sock'.wire[i], written')
             \/ sock # None /\ \E j \in DOMAIN sock.wire : sock'.wire[i] = sock.wire[j]
  PROVE  WireOK'
<1> SUFFICES ASSUME sock' # None, NEW i \in DOMAIN sock'.wire
             PROVE  OnWire(sock'.wire[i], written')
  BY DEF WireOK, OnWire
<1>1. CASE sock # None /\ \E j \in DOMAIN sock.wire : sock'.wire[i] = sock.wire[j]
  <2>1. PICK j \in DOMAIN sock.wire : sock'.wire[i] = sock.wire[j]
    BY <1>1
  <2>2. OnWire(sock.wire[j], written)
    BY <1>1 DEF WireOK, OnWire
  <2> QED
    BY <2>1, <2>2, InLogGrows DEF OnWire
<1> QED
  BY <1>1

LEMMA SocketSame ==
  ASSUME TypeInv, WireOK, Grows(written, written'), sock' \in {sock, None}
  PROVE  WireOK'
BY WireKept

(* The reader's own parts, when it does nothing. *)
LEMMA ReaderKept ==
  ASSUME TypeInv, FetchesOK, OldersOK, LinesOK, Grows(written, written'), UNCHANGED readerVars
  PROVE  FetchesOK' /\ OldersOK' /\ LinesOK'
<1>1. UNCHANGED <<epoch, fetches, olders, lines, olderCursor, loadingOlder, lastSeq, overtaken>>
  BY DEF readerVars
<1> QED
  BY <1>1, FetchesKept, OldersKept, LinesKept

LEMMA WrittenSame == ASSUME TypeInv PROVE Grows(written, written)
BY DEF Grows, TypeInv, TypeOK

--------------------------------------------------------------------------------
(* The timeline: resync *)

(* A resync keeps the lines and drops the cursor. *)
LEMMA ResyncFacts ==
  ASSUME TypeInv, Facts, Resync, Grows(written, written') PROVE Facts'
<1>1. epoch \in Nat \ {0} /\ lines \in Seq(Envelope) /\ fetches \subseteq Fetch
  BY DEF TypeInv, TypeOK
<1>2. FetchesOK'
  <2>1. FetchOK(Fresh(epoch + 1), written')
    BY DEF Fresh, FetchOK, Grows
  <2>2. ASSUME NEW r \in fetches' PROVE FetchOK(r, written')
    BY <1>1, <2>1, FetchGrows DEF Resync, Facts, FetchesOK
  <2> QED
    BY <2>2 DEF FetchesOK
<1>3. OldersOK'
  <2>1. \A o \in olders' : o.epoch # epoch'
    BY <1>1 DEF Resync, TypeInv, TypeOK
  <2> QED
    BY <2>1 DEF OldersOK, Current
<1>4. LinesOK'
  <2> SUFFICES ASSUME ~overtaken PROVE LinesOK'
    BY DEF LinesOK, Resync
  <2>1. lastSeq' = None /\ lines' = lines /\ olderCursor' = olderCursor
    BY DEF Resync
  <2>2. Stretch(lines, Newest', written')
    <3>1. CASE lines = << >>
      BY <3>1 DEF Stretch, Ascending
    <3>2. CASE lines # << >>
      <4>1. lines[Len(lines)] \in Envelope /\ Len(lines) \in DOMAIN lines
        BY <1>1, <3>2
      <4> DEFINE last == lines[Len(lines)].seq
      <4>2. last \in Int /\ Newest' = last /\ Newest \in Int
        BY <2>1, <3>2, <4>1, NewestInt DEF Newest, Envelope
      <4>3. last <= Newest
        BY <4>1, <4>2 DEF Facts, LinesOK, Newest
      <4>4. Stretch(lines, Newest, written)
        BY DEF Facts, LinesOK
      <4>5. Complete(lines, last, written)
        <5> HIDE DEF last
        <5>1. Complete(lines, Newest, written) /\ lines[1] \in Envelope
          BY <1>1, <3>2, <4>4 DEF Stretch
        <5>2. Len(written) \in Int /\ lines[1].seq \in Int
          BY <5>1 DEF Grows, Envelope
        <5> QED
          BY <4>2, <4>3, <5>1, <5>2 DEF Complete
      <4>6. Stretch(lines, last, written)
        BY <4>4, <4>5 DEF Stretch
      <4> HIDE DEF last
      <4> QED
        BY <1>1, <4>2, <4>6, StretchGrows
    <3> QED
      BY <3>1, <3>2
  <2>3. olderCursor # None => StartsAt(lines, olderCursor)
    BY DEF Facts, LinesOK
  <2> QED
    BY <2>1, <2>2, <2>3 DEF LinesOK
<1>5. WireOK'
  BY DEF Resync, WireOK
<1> QED
  BY <1>2, <1>3, <1>4, <1>5 DEF Facts

LEMMA GetFacts == ASSUME TypeInv, Facts, NEW r \in fetches, Get(r) PROVE Facts'
<1>1. /\ UNCHANGED <<written, sock, epoch, olders, lines, olderCursor, loadingOlder, lastSeq,
                    overtaken>>
      /\ Grows(written, written') /\ r \in Fetch /\ fetches \subseteq Fetch /\ latest = Len(written)
      /\ latest \in Nat
  BY WrittenSame, StreamAssumption DEF Get, hostVars, TypeInv, TypeOK
<1> DEFINE n == [r EXCEPT !.at = "page", !.seen = latest]
<1>2. n.at = "page" /\ n.seen = latest /\ n.epoch = r.epoch
  BY <1>1 DEF Fetch
<1>3. fetches' = (fetches \ {r}) \cup (IF Current(r) THEN {n} ELSE {})
  BY DEF Get, Replace
<1> HIDE DEF n
<1>4. FetchesOK'
  <2>1. FetchOK(n, written')
    BY <1>1, <1>2 DEF FetchOK
  <2>2. ASSUME NEW q \in fetches' PROVE FetchOK(q, written')
    BY <1>1, <1>3, <2>1, FetchGrows DEF Facts, FetchesOK
  <2> QED
    BY <2>2 DEF FetchesOK
<1>5. OldersOK'
  BY <1>1, OldersKept DEF Facts
<1> QED
  BY <1>1, <1>4, <1>5, LinesKept, SocketSame DEF Facts

LEMMA GetMessagesFacts == ASSUME TypeInv, Facts, NEW r \in fetches, GetMessages(r) PROVE Facts'
<1>1. /\ UNCHANGED <<written, sock, epoch, olders, lines, olderCursor, loadingOlder, lastSeq,
                    overtaken>>
      /\ Grows(written, written') /\ r \in Fetch /\ fetches \subseteq Fetch /\ latest = Len(written)
      /\ latest \in Nat
  BY WrittenSame, StreamAssumption DEF GetMessages, hostVars, TypeInv, TypeOK
<1> DEFINE p == Page(latest + 1, PageSize, Message)
           n == [r EXCEPT !.at = "answer", !.page = p]
<1>2. n.at = "answer" /\ n.seen = r.seen /\ n.epoch = r.epoch /\ n.page = p
  BY <1>1 DEF Fetch
<1>3. fetches' = (fetches \ {r}) \cup {n}
  BY DEF GetMessages, Replace
<1>4. PageOK(p, latest + 1, written)
  BY <1>1, PageFits
<1> HIDE DEF n, p
<1>5. FetchesOK'
  <2>1. FetchOK(n, written')
    BY <1>1, <1>2, <1>4 DEF FetchOK, Facts, FetchesOK
  <2>2. ASSUME NEW q \in fetches' PROVE FetchOK(q, written')
    BY <1>1, <1>3, <2>1, FetchGrows DEF Facts, FetchesOK
  <2> QED
    BY <2>2 DEF FetchesOK
<1>6. OldersOK'
  BY <1>1, OldersKept DEF Facts
<1> QED
  BY <1>1, <1>5, <1>6, LinesKept, SocketSame DEF Facts

(* The lines become the page, and its last envelope the cursor. *)
LEMMA SubscribeFacts == ASSUME TypeInv, Facts, NEW r \in fetches, Subscribe(r) PROVE Facts'
<1>1. /\ UNCHANGED <<written, sock, epoch, olders>> /\ fetches' \subseteq fetches
      /\ Grows(written, written') /\ r \in Fetch /\ r.at = "answer"
  BY WrittenSame DEF Subscribe, Replace, hostVars, TypeInv
<1>2. FetchesOK' /\ WireOK'
  BY <1>1, FetchesKept, SocketSame DEF Facts
<1>3. CASE ~Current(r) /\ UNCHANGED <<lines, olderCursor, loadingOlder, lastSeq, overtaken>>
  BY <1>1, <1>2, <1>3, OldersKept, LinesKept DEF Facts
<1>4. CASE /\ Current(r) /\ lines' = r.page.items /\ olderCursor' = r.page.next
           /\ lastSeq' = Since(r) /\ overtaken' = \E o \in olders : Current(o)
  <2>1. OldersOK'
    BY <1>1, <1>4 DEF OldersOK, Current
  <2>2. PICK n \in 1 .. Len(written) + 1 : PageOK(r.page, n, written)
    BY <1>1 DEF Facts, FetchesOK, FetchOK
  <2> DEFINE s == r.page.items
             since == Since(r)
  <2>3. s \in Seq(Envelope) /\ r.page.next \in Nat \cup {None} /\ r.seen \in Nat
    BY <1>1 DEF Fetch, PageType
  <2>4. r.seen <= Len(written) /\ Len(written) \in Nat
    BY <1>1 DEF Facts, FetchesOK, FetchOK, Grows
  <2>5. since # None /\ lastSeq' = since /\ lines' = s /\ Newest' = since
        /\ olderCursor' = r.page.next
    <3>1. CASE s = << >>
      BY <1>4, <2>3, <3>1, StreamAssumption DEF Since, Newest
    <3>2. CASE s # << >>
      <4>1. s[Len(s)] \in Envelope
        <5> HIDE DEF s
        <5> QED
          BY <2>3, <3>2
      <4>2. s[Len(s)].seq \in Nat /\ since = s[Len(s)].seq
        BY <3>2, <4>1 DEF Envelope, Since
      <4>3. since # None
        BY <4>2, StreamAssumption
      <4> HIDE DEF since, s
      <4> QED
        BY <1>4, <4>3 DEF Newest, since, s
    <3> QED
      BY <3>1, <3>2
  <2>6. since = IF s # << >> THEN s[Len(s)].seq ELSE r.seen
    BY DEF Since
  <2>7. /\ Stretch(s, n - 1, written) /\ \A i \in DOMAIN s : s[i].seq < n
        /\ r.page.next # None => StartsAt(s, r.page.next)
    BY <2>2 DEF PageOK
  <2> HIDE DEF s, since
  <2>8. Stretch(s, since, written) /\ since <= Len(written) /\ \A i \in DOMAIN s : s[i].seq <= since
    <3>1. CASE s = << >>
      BY <2>3, <2>6, <2>4, <3>1 DEF Stretch, Ascending
    <3>2. CASE s # << >>
      <4>1. /\ s[1] \in Envelope /\ s[Len(s)] \in Envelope /\ Len(s) \in DOMAIN s
            /\ \A i \in DOMAIN s : s[i] \in Envelope /\ (i # Len(s) => i < Len(s))
        BY <2>3, <3>2
      <4>2. since \in Nat /\ since < n
        BY <2>6, <2>7, <3>2, <4>1 DEF Envelope
      <4>3. \A i \in DOMAIN s : s[i].seq <= since
        <5>1. ASSUME NEW i \in DOMAIN s PROVE s[i].seq <= since
          <6>1. CASE i = Len(s)
            BY <2>6, <3>2, <4>2, <6>1
          <6>2. CASE i # Len(s)
            <7>1. s[i].seq < s[Len(s)].seq /\ s[i].seq \in Nat
              BY <2>7, <4>1, <6>2 DEF Stretch, Ascending, Envelope
            <7> QED
              BY <2>6, <3>2, <4>2, <7>1
          <6> QED
            BY <6>1, <6>2
        <5> QED
          BY <5>1
      <4>4. Complete(s, n - 1, written) /\ s[1].seq \in Nat
        BY <2>7, <3>2, <4>1 DEF Stretch, Envelope
      <4>5. Complete(s, since, written)
        BY <2>4, <4>2, <4>4 DEF Complete
      <4> QED
        BY <2>7, <2>4, <4>2, <4>3, <4>4, <4>5 DEF Stretch, Complete
    <3> QED
      BY <3>1, <3>2
  <2>9. LinesOK'
    BY <1>1, <2>5, <2>7, <2>8 DEF LinesOK
  <2> QED
    BY <1>2, <2>1, <2>9 DEF Facts
<1> QED
  BY <1>3, <1>4 DEF Subscribe

LEMMA FetchFailsFacts == ASSUME TypeInv, Facts, NEW r \in fetches, FetchFails(r) PROVE Facts'
<1>1. /\ UNCHANGED <<written, sock, epoch, olders, lines, olderCursor, loadingOlder, lastSeq,
                    overtaken>>
      /\ fetches' \subseteq fetches /\ Grows(written, written')
  BY WrittenSame DEF FetchFails, Replace, hostVars
<1> QED
  BY <1>1, FetchesKept, OldersKept, LinesKept, SocketSame DEF Facts

--------------------------------------------------------------------------------
(* The timeline: older pages *)

LEMMA LoadOlderFacts == ASSUME TypeInv, Facts, LoadOlder PROVE Facts'
<1> DEFINE o == [epoch |-> epoch, second |-> \E q \in olders : Current(q) /\ ~q.second,
                before |-> olderCursor, answered |-> FALSE, page |-> NoPage]
<1>1. /\ UNCHANGED <<written, sock, epoch, fetches, lines, olderCursor, lastSeq, overtaken>>
      /\ Grows(written, written') /\ ~loadingOlder /\ loadingOlder' /\ olderCursor # None
      /\ olders' = olders \cup {o}
  BY WrittenSame DEF LoadOlder, hostVars, Current
<1>2. overtaken \/ \A q \in olders : q.epoch # epoch
  BY <1>1 DEF Facts, OldersOK, Current
<1>3. o.epoch = epoch /\ o.before = olderCursor /\ o.answered = FALSE
  OBVIOUS
<1> HIDE DEF o
<1>4. overtaken \/ \A q \in olders' : q.epoch = epoch => q = o
  BY <1>1, <1>2
<1>5. OldersOK'
  BY <1>1, <1>3, <1>4 DEF OldersOK, Current
<1> QED
  BY <1>1, <1>5, FetchesKept, LinesKept, SocketSame DEF Facts

LEMMA OlderAnswerFacts == ASSUME TypeInv, Facts, NEW o \in olders, OlderAnswer(o) PROVE Facts'
<1> DEFINE p == Page(o.before, PageSize, Message)
           n == [o EXCEPT !.answered = TRUE, !.page = p]
<1>1. /\ UNCHANGED <<written, sock, epoch, fetches, lines, olderCursor, loadingOlder, lastSeq,
                    overtaken>>
      /\ Grows(written, written') /\ o \in Older /\ olders' = (olders \ {o}) \cup {n}
  BY WrittenSame DEF OlderAnswer, hostVars, TypeInv
<1>2. n.epoch = o.epoch /\ n.before = o.before /\ n.page = p
  BY <1>1 DEF Older
<1>3. ASSUME ~overtaken, o.epoch = epoch PROVE PageOK(p, o.before, written)
  <2>1. o.before = olderCursor /\ StartsAt(lines, olderCursor)
    BY <1>3 DEF Facts, OldersOK, LinesOK, Current
  <2>2. lines \in Seq(Envelope) /\ lines # << >> /\ Len(written) = latest /\ latest \in Nat
    BY <2>1, StreamAssumption DEF TypeInv, TypeOK, StartsAt
  <2>3. 1 \in DOMAIN lines /\ lines[1] \in Envelope
    BY <2>2
  <2>4. lines[1].seq <= latest /\ lines[1].seq \in Nat \ {0}
    BY <1>3, <2>2, <2>3 DEF Facts, LinesOK, Stretch, InLog, Envelope
  <2>5. o.before \in Nat \ {0} /\ o.before <= latest + 1
    BY <2>1, <2>2, <2>4 DEF StartsAt
  <2> QED
    BY <2>5, PageFits
<1> HIDE DEF n, p
<1>4. OldersOK'
  <2> SUFFICES ASSUME ~overtaken PROVE OldersOK'
    BY <1>1 DEF OldersOK
  <2>1. ASSUME NEW q \in olders', q.epoch = epoch
        PROVE  /\ loadingOlder /\ olderCursor # None /\ q.before = olderCursor
               /\ q.answered => PageOK(q.page, q.before, written)
    BY <1>1, <1>2, <1>3, <2>1 DEF Facts, OldersOK, Current
  <2>2. \A q, s \in olders' : q.epoch = epoch /\ s.epoch = epoch => q = s
    BY <1>1, <1>2 DEF Facts, OldersOK, Current
  <2> QED
    BY <1>1, <2>1, <2>2 DEF OldersOK, Current
<1> QED
  BY <1>1, <1>4, FetchesKept, LinesKept, SocketSame DEF Facts

(* A page that ends where the lines begin makes one stretch with them. *)
LEMMA Joined ==
  ASSUME NEW w \in Seq(Frame), NEW s \in Seq(Envelope), NEW t \in Seq(Envelope), NEW n \in Int,
         t # << >>, Stretch(t, n, w), Stretch(s, t[1].seq - 1, w),
         \A i \in DOMAIN s : s[i].seq < t[1].seq
  PROVE  Stretch(s \o t, n, w)
<1> DEFINE u == s \o t
<1>1. /\ u \in Seq(Envelope) /\ Len(u) = Len(s) + Len(t)
      /\ \A i \in 1 .. Len(s) : u[i] = s[i]
      /\ \A i \in 1 .. Len(t) : u[Len(s) + i] = t[i]
  OBVIOUS
<1> HIDE DEF u
<1>2. /\ DOMAIN s = 1 .. Len(s) /\ DOMAIN t = 1 .. Len(t) /\ DOMAIN u = 1 .. Len(s) + Len(t)
      /\ Len(s) \in Nat /\ Len(t) \in Nat \ {0} /\ t[1] \in Envelope
  BY <1>1
<1>3. ASSUME NEW i \in DOMAIN u
      PROVE  \/ i \in DOMAIN s /\ u[i] = s[i]
             \/ i - Len(s) \in DOMAIN t /\ u[i] = t[i - Len(s)]
  <2>1. CASE i <= Len(s)
    BY <1>1, <1>2, <2>1
  <2>2. CASE ~(i <= Len(s))
    <3>1. i - Len(s) \in 1 .. Len(t) /\ Len(s) + (i - Len(s)) = i
      BY <1>2, <2>2
    <3> QED
      BY <1>1, <1>2, <3>1
  <2> QED
    BY <2>1, <2>2
<1>4. \A i \in DOMAIN u : InLog(u[i], w)
  BY <1>3 DEF Stretch
<1>5. ASSUME NEW j \in DOMAIN t PROVE t[1].seq <= t[j].seq /\ t[j].seq \in Nat
  <2>1. CASE j = 1
    BY <1>2, <2>1 DEF Envelope
  <2>2. CASE j # 1
    <3>1. 1 \in DOMAIN t /\ 1 < j /\ t[j] \in Envelope
      BY <1>2, <2>2
    <3>2. t[1].seq < t[j].seq
      BY <3>1 DEF Stretch, Ascending
    <3> QED
      BY <1>2, <3>1, <3>2 DEF Envelope
  <2> QED
    BY <2>1, <2>2
<1>6. ASSUME NEW i \in DOMAIN u, NEW j \in DOMAIN u, i < j PROVE u[i].seq < u[j].seq
  <2>1. CASE i \in DOMAIN s /\ j \in DOMAIN s
    BY <1>1, <1>2, <1>6, <2>1 DEF Stretch, Ascending
  <2>2. CASE i \in DOMAIN s /\ j \notin DOMAIN s
    <3>1. u[i] = s[i] /\ s[i] \in Envelope /\ j - Len(s) \in DOMAIN t /\ u[j] = t[j - Len(s)]
      BY <1>1, <1>2, <1>3, <2>2
    <3>2. s[i].seq < t[1].seq /\ t[1].seq <= u[j].seq /\ u[j].seq \in Nat
      BY <1>5, <2>2, <3>1
    <3> QED
      BY <1>2, <3>1, <3>2 DEF Envelope
  <2>3. CASE i \notin DOMAIN s
    <3>1. j \notin DOMAIN s
      BY <1>2, <1>6, <2>3
    <3>2. /\ i - Len(s) \in DOMAIN t /\ u[i] = t[i - Len(s)]
          /\ j - Len(s) \in DOMAIN t /\ u[j] = t[j - Len(s)]
      BY <1>3, <2>3, <3>1
    <3>3. i - Len(s) < j - Len(s)
      BY <1>2, <1>6
    <3> QED
      BY <3>2, <3>3 DEF Stretch, Ascending
  <2> QED
    BY <2>1, <2>2, <2>3
<1>7. Complete(u, n, w)
  <2>1. Complete(t, n, w) /\ n <= Len(w)
    BY DEF Stretch, Complete
  <2>2. ASSUME NEW m \in u[1].seq .. n, w[m] \in Message PROVE \E i \in DOMAIN u : u[i].seq = m
    <3>1. CASE m >= t[1].seq
      <4>1. PICK i \in DOMAIN t : t[i].seq = m
        <5>1. m \in t[1].seq .. n
          BY <1>2, <3>1, <2>2 DEF Envelope
        <5> QED
          BY <2>1, <2>2, <5>1 DEF Complete
      <4>2. Len(s) + i \in DOMAIN u /\ u[Len(s) + i] = t[i]
        BY <1>1, <1>2
      <4> QED
        BY <4>1, <4>2
    <3>2. CASE ~(m >= t[1].seq)
      <4>1. t[1].seq \in Nat
        BY <1>2 DEF Envelope
      <4>2. s # << >>
        <5>1. ASSUME s = << >> PROVE FALSE
          <6>1. u[1] = t[1]
            BY <1>1, <1>2, <5>1
          <6> QED
            BY <2>2, <3>2, <4>1, <6>1
        <5> QED
          BY <5>1
      <4>3. u[1] = s[1] /\ 1 \in DOMAIN s /\ s[1] \in Envelope
        BY <1>1, <1>2, <4>2
      <4>4. m \in s[1].seq .. t[1].seq - 1
        BY <2>2, <3>2, <4>1, <4>3 DEF Envelope
      <4>5. PICK i \in DOMAIN s : s[i].seq = m
        BY <2>2, <4>2, <4>4 DEF Stretch, Complete
      <4> QED
        BY <1>1, <1>2, <4>5
    <3> QED
      BY <3>1, <3>2
  <2> QED
    BY <2>1, <2>2 DEF Complete
<1> QED
  BY <1>4, <1>6, <1>7 DEF Stretch, Ascending, u

LEMMA PrependFacts == ASSUME TypeInv, Facts, NEW o \in olders, Prepend(o) PROVE Facts'
<1>1. /\ UNCHANGED <<written, sock, epoch, fetches, lastSeq, overtaken>> /\ olders' = olders \ {o}
      /\ Grows(written, written') /\ o \in Older /\ o.answered
  BY WrittenSame DEF Prepend, hostVars, TypeInv
<1>2. FetchesOK' /\ WireOK'
  BY <1>1, FetchesKept, SocketSame DEF Facts
<1>3. CASE ~Current(o) /\ UNCHANGED <<lines, olderCursor, loadingOlder>>
  BY <1>1, <1>2, <1>3, OldersKept, LinesKept DEF Facts
<1>4. CASE Current(o) /\ lines' = o.page.items \o lines /\ olderCursor' = o.page.next
  <2> SUFFICES ASSUME ~overtaken PROVE OldersOK' /\ LinesOK'
    BY <1>1, <1>2 DEF Facts, OldersOK, LinesOK
  <2> DEFINE s == o.page.items
  <2>1. OldersOK'
    <3>1. \A q \in olders' : q.epoch # epoch'
      BY <1>1, <1>4 DEF Facts, OldersOK, Current
    <3> QED
      BY <3>1 DEF OldersOK, Current
  <2>2. PageOK(o.page, lines[1].seq, written) /\ lines # << >>
    BY <1>1, <1>4 DEF Facts, OldersOK, LinesOK, StartsAt
  <2>3. /\ s \in Seq(Envelope) /\ lines \in Seq(Envelope) /\ o.page.next \in Nat \cup {None}
        /\ written \in Seq(Frame) /\ lastSeq \in Nat \cup {None}
    BY <1>1 DEF Older, PageType, TypeInv, TypeOK
  <2>4. Newest \in Int /\ Stretch(lines, Newest, written)
    BY <2>2, NewestInt DEF Facts, LinesOK
  <2>5. /\ Stretch(s, lines[1].seq - 1, written) /\ \A i \in DOMAIN s : s[i].seq < lines[1].seq
        /\ o.page.next # None => StartsAt(s, o.page.next)
    BY <2>2 DEF PageOK
  <2>6. lines' = s \o lines /\ olderCursor' = o.page.next /\ lastSeq' = lastSeq
    BY <1>1, <1>4
  <2> HIDE DEF s
  <2>7. Stretch(s \o lines, Newest, written)
    BY <2>2, <2>3, <2>4, <2>5, Joined
  <2>8. /\ (s \o lines)[Len(s \o lines)] = lines[Len(lines)]
        /\ \A i \in DOMAIN (s \o lines) :
             \/ i \in DOMAIN s /\ (s \o lines)[i] = s[i]
             \/ i - Len(s) \in DOMAIN lines /\ (s \o lines)[i] = lines[i - Len(s)]
        /\ s # << >> => (s \o lines)[1] = s[1] /\ s \o lines # << >> /\ s[1] \in Envelope
    BY <2>2, <2>3
  <2>9. Newest' = Newest
    BY <2>8, <2>6 DEF Newest
  <2>10. ASSUME lastSeq # None, NEW i \in DOMAIN (s \o lines)
        PROVE  (s \o lines)[i].seq <= lastSeq
    <3>1. \A j \in DOMAIN lines : lines[j].seq <= lastSeq
      BY <2>10 DEF Facts, LinesOK
    <3>2. ASSUME NEW j \in DOMAIN s PROVE s[j].seq <= lastSeq
      <4>1. 1 \in DOMAIN lines /\ lines[1] \in Envelope /\ s[j] \in Envelope
        BY <2>2, <2>3
      <4>2. s[j].seq < lines[1].seq /\ lines[1].seq <= lastSeq
        BY <2>5, <3>1, <4>1
      <4> QED
        BY <2>3, <2>10, <4>1, <4>2 DEF Envelope
    <3> QED
      BY <2>8, <3>1, <3>2
  <2>11. o.page.next # None => StartsAt(s \o lines, o.page.next)
    BY <2>5, <2>8 DEF StartsAt
  <2>12. LinesOK'
    <3>1. lastSeq # None => lastSeq <= Len(written)
      BY DEF Facts, LinesOK
    <3> QED
      BY <1>1, <2>7, <2>9, <2>10, <2>6, <2>11, <3>1 DEF LinesOK
  <2> QED
    BY <2>1, <2>12
<1> QED
  BY <1>3, <1>4 DEF Prepend

LEMMA OlderFailsFacts == ASSUME TypeInv, Facts, NEW o \in olders, OlderFails(o) PROVE Facts'
<1>1. /\ UNCHANGED <<written, sock, epoch, fetches, lines, olderCursor, lastSeq, overtaken>>
      /\ olders' = olders \ {o} /\ loadingOlder' = (loadingOlder /\ ~Current(o))
      /\ Grows(written, written')
  BY WrittenSame DEF OlderFails, hostVars
<1>2. CASE Current(o)
  <2>1. overtaken' \/ \A q \in olders' : q.epoch # epoch'
    BY <1>1, <1>2 DEF Facts, OldersOK, Current
  <2>2. OldersOK'
    BY <2>1 DEF OldersOK, Current
  <2> QED
    BY <1>1, <2>2, FetchesKept, LinesKept, SocketSame DEF Facts
<1>3. CASE ~Current(o)
  <2>1. loadingOlder' = loadingOlder
    BY <1>1, <1>3 DEF TypeInv, TypeOK
  <2> QED
    BY <1>1, <2>1, FetchesKept, OldersKept, LinesKept, SocketSame DEF Facts
<1> QED
  BY <1>2, <1>3

LEMMA LoadFailsFacts == ASSUME TypeInv, Facts, LoadFails PROVE Facts'
<1>1. /\ UNCHANGED <<written, epoch, lines, olderCursor, lastSeq, overtaken>>
      /\ fetches' \subseteq fetches
      /\ olders' = {o \in olders : o.answered} /\ Grows(written, written')
      /\ loadingOlder' = (loadingOlder /\ \A o \in olders : o.answered \/ ~Current(o))
  BY WrittenSame DEF LoadFails, hostVars
<1>2. OldersOK'
  <2>1. CASE \E o \in olders : o.epoch = epoch /\ ~o.answered
    <3>1. overtaken' \/ \A q \in olders' : q.epoch # epoch'
      BY <1>1, <2>1 DEF Facts, OldersOK, Current
    <3> QED
      BY <3>1 DEF OldersOK, Current
  <2>2. CASE ~ \E o \in olders : o.epoch = epoch /\ ~o.answered
    <3>1. loadingOlder' = loadingOlder
      BY <1>1, <2>2 DEF TypeInv, TypeOK, Current
    <3> QED
      BY <1>1, <3>1, OldersKept DEF Facts
  <2> QED
    BY <2>1, <2>2
<1>3. WireOK'
  <2>1. sock' = sock \/ sock' = [sock EXCEPT !.wire = <<Reset>>, !.server = "closed"]
    BY DEF LoadFails
  <2>2. CASE sock' = sock
    BY <1>1, <2>2, SocketSame DEF Facts
  <2>3. CASE sock # None /\ sock' = [sock EXCEPT !.wire = <<Reset>>, !.server = "closed"]
    <3>1. sock'.wire = <<Reset>>
      BY <2>3 DEF TypeInv, TypeOK
    <3>2. \A i \in DOMAIN sock'.wire : sock'.wire[i] = Reset
      BY <3>1
    <3> QED
      BY <3>2 DEF WireOK
  <2> QED
    BY <2>1, <2>2, <2>3 DEF LoadFails
<1> QED
  BY <1>1, <1>2, <1>3, FetchesKept, LinesKept DEF Facts

--------------------------------------------------------------------------------
(* The timeline: the stream *)

LEMMA HostFacts ==
  ASSUME TypeInv, Facts, Grows(written, written'), UNCHANGED readerVars, WireOK'
  PROVE  Facts'
BY ReaderKept DEF Facts

LEMMA EmitFacts ==
  ASSUME TypeInv, Facts, NEW f \in Frame, Emit(f), Grows(written, written') PROVE Facts'
<1> DEFINE e == [seq |-> latest + 1, frame |-> f]
<1>1. /\ written \in Seq(Frame) /\ Len(written) = latest /\ latest \in Nat
      /\ written' = Append(written, f) /\ UNCHANGED readerVars
  BY StreamAssumption DEF TypeInv, TypeOK, Emit
<1>2. InLog(e, written')
  BY <1>1 DEF InLog, Envelope
<1> HIDE DEF e
<1>3. WireOK'
  <2>1. CASE sock' = sock
    BY <2>1, SocketSame DEF Facts
  <2>2. CASE sock # None /\ sock' = Pushed(e)
    <3> DEFINE w == sock.wire
    <3>1. w \in Seq(Envelope \cup {Reset}) /\ sock'.wire = Append(w, e)
      BY <2>2 DEF TypeInv, TypeOK, Pushed
    <3> HIDE DEF w
    <3>2. ASSUME NEW i \in DOMAIN sock'.wire
          PROVE  sock'.wire[i] = e \/ \E j \in DOMAIN w : sock'.wire[i] = w[j]
      <4>1. i \in 1 .. Len(w) + 1 /\ DOMAIN w = 1 .. Len(w) /\ Len(w) \in Nat
        BY <3>1, <3>2
      <4>2. CASE i = Len(w) + 1
        BY <3>1, <4>1, <4>2
      <4>3. CASE i # Len(w) + 1
        BY <3>1, <4>1, <4>3
      <4> QED
        BY <4>2, <4>3
    <3> QED
      BY <1>2, <2>2, <3>2, WireKept DEF Facts, OnWire, w
  <2>3. CASE sock # None /\ sock' = Slow
    <3>1. sock'.wire = sock.wire
      BY <2>3 DEF TypeInv, TypeOK, Slow
    <3> QED
      BY <2>3, <3>1, WireKept DEF Facts
  <2> QED
    BY <2>1, <2>2, <2>3 DEF Emit, e
<1> QED
  BY <1>1, <1>3, HostFacts

LEMMA AttachFacts == ASSUME TypeInv, Facts, Attach PROVE Facts'
<1> DEFINE tail == After(sock.since)
<1>1. /\ UNCHANGED <<written, readerVars>> /\ Grows(written, written')
      /\ sock # None /\ sock.since \in Nat
      /\ IsSocket(sock)
  BY WrittenSame DEF Attach, hostVars, TypeInv, TypeOK, IsSocket
<1>2. ASSUME tail # None
      PROVE  tail \in Seq(Envelope) /\ \A i \in DOMAIN tail : InLog(tail[i], written)
  <2>1. /\ tail \in Seq(Envelope)
        /\ \A i \in DOMAIN tail : \E j \in DOMAIN retained : tail[i] = retained[j]
    BY <1>1, <1>2, AfterIs
  <2>2. ASSUME NEW j \in DOMAIN retained PROVE InLog(retained[j], written)
    <3> DEFINE n == latest - Len(retained) + j
    <3>1. /\ retained \in Seq(Envelope) /\ latest \in Nat /\ Len(written) = latest
          /\ Len(retained) \in Nat /\ Len(retained) <= latest
      BY StreamAssumption DEF TypeInv, TypeOK, LogOK
    <3>2. retained[j].seq = n /\ retained[j].frame = written[n]
      BY DEF TypeInv, LogOK
    <3>3. n <= latest
      BY <3>1
    <3> HIDE DEF n
    <3> QED
      BY <3>1, <3>2, <3>3 DEF InLog
  <2> HIDE DEF tail
  <2> QED
    BY <2>1, <2>2
<1> HIDE DEF tail
<1>3. CASE sock' = [sock EXCEPT !.wire = <<Reset>>, !.server = "closed"]
  <2>1. sock'.wire = <<Reset>>
    BY <1>1, <1>3 DEF IsSocket
  <2>2. WireOK'
    BY <2>1 DEF WireOK
  <2> QED
    BY <1>1, <2>2, HostFacts
<1>4. CASE /\ tail # None
          /\ sock' = [sock EXCEPT !.wire = tail, !.server = "attached", !.sent = latest]
  <2>1. sock'.wire = tail
    BY <1>1, <1>4 DEF IsSocket
  <2>2. WireOK'
    BY <1>1, <1>2, <1>4, <2>1 DEF WireOK
  <2> QED
    BY <1>1, <2>2, HostFacts
<1>5. ASSUME tail # None, NEW n \in 1 .. Len(tail) - 1,
             sock' = [sock EXCEPT !.wire = SubSeq(tail, 1, n), !.server = "closed"]
      PROVE  Facts'
  <2>1. sock'.wire = SubSeq(tail, 1, n)
    BY <1>1, <1>5 DEF IsSocket
  <2>2. \A i \in DOMAIN SubSeq(tail, 1, n) :
          i \in DOMAIN tail /\ SubSeq(tail, 1, n)[i] = tail[i]
    BY <1>2, <1>5
  <2>3. WireOK'
    BY <1>1, <1>2, <1>5, <2>1, <2>2 DEF WireOK
  <2> QED
    BY <1>1, <2>3, HostFacts
<1> QED
  BY <1>3, <1>4, <1>5 DEF Attach, tail

(* What the provers need to know of a concatenation. *)
LEMMA Concat ==
  ASSUME NEW S, NEW s \in Seq(S), NEW t \in Seq(S)
  PROVE  /\ s \o t \in Seq(S) /\ Len(s \o t) = Len(s) + Len(t)
         /\ \A i \in 1 .. Len(s) : (s \o t)[i] = s[i]
         /\ \A i \in 1 .. Len(t) : (s \o t)[Len(s) + i] = t[i]
OBVIOUS

LEMMA FaultFacts == ASSUME TypeInv, Facts, Lose \/ Repeat PROVE Facts'
<1> DEFINE w == sock.wire
<1>1. /\ UNCHANGED <<written, readerVars>> /\ Grows(written, written')
      /\ sock # None /\ w \in Seq(Envelope \cup {Reset}) /\ w # << >>
      /\ IsSocket(sock)
  BY WrittenSame DEF Lose, Repeat, Fault, hostVars, TypeInv, TypeOK, IsSocket
<1>2. sock' = [sock EXCEPT !.wire = Tail(w)] \/ sock' = [sock EXCEPT !.wire = <<Head(w)>> \o w]
  BY DEF Lose, Repeat, Fault
<1>3. sock'.wire = Tail(w) \/ sock'.wire = <<Head(w)>> \o w
  <2> HIDE DEF w
  <2> QED
    BY <1>1, <1>2 DEF IsSocket
<1>4. \A i \in DOMAIN sock'.wire : \E j \in DOMAIN w : sock'.wire[i] = w[j]
  <2> HIDE DEF w
  <2>1. CASE sock'.wire = Tail(w)
    <3>1. \A i \in DOMAIN Tail(w) : i + 1 \in DOMAIN w /\ Tail(w)[i] = w[i + 1]
      BY <1>1
    <3> QED
      BY <2>1, <3>1
  <2>2. CASE sock'.wire = <<Head(w)>> \o w
    <3> DEFINE v == <<Head(w)>>
    <3>1. v \in Seq(Envelope \cup {Reset}) /\ Len(v) = 1 /\ v[1] = w[1]
      BY <1>1
    <3> HIDE DEF v
    <3>2. /\ DOMAIN (v \o w) = 1 .. Len(w) + 1 /\ (v \o w)[1] = v[1] /\ Len(w) \in Nat
          /\ \A i \in 1 .. Len(w) : (v \o w)[i + 1] = w[i]
          /\ DOMAIN w = 1 .. Len(w) /\ 1 \in DOMAIN w
      <4> DEFINE S == Envelope \cup {Reset}
      <4>1. v \in Seq(S) /\ w \in Seq(S)
        BY <1>1, <3>1
      <4> HIDE DEF S
      <4>2. /\ v \o w \in Seq(S) /\ Len(v \o w) = Len(v) + Len(w)
            /\ \A i \in 1 .. Len(v) : (v \o w)[i] = v[i]
            /\ \A i \in 1 .. Len(w) : (v \o w)[Len(v) + i] = w[i]
        BY <4>1, Concat
      <4>3. Len(w) \in Nat \ {0} /\ DOMAIN w = 1 .. Len(w)
        BY <1>1
      <4>4. DOMAIN (v \o w) = 1 .. Len(w) + 1
        BY <3>1, <4>2, <4>3
      <4> QED
        BY <3>1, <4>2, <4>3, <4>4
    <3>3. ASSUME NEW i \in DOMAIN (v \o w) PROVE \E j \in DOMAIN w : (v \o w)[i] = w[j]
      <4>1. CASE i = 1
        BY <3>1, <3>2, <4>1
      <4>2. CASE i # 1
        <5>1. i - 1 \in 1 .. Len(w) /\ (i - 1) + 1 = i
          BY <3>2, <4>2
        <5> QED
          BY <3>2, <5>1
      <4> QED
        BY <4>1, <4>2
    <3> QED
      BY <2>2, <3>3 DEF v
  <2> QED
    BY <1>3, <2>1, <2>2
<1>5. WireOK'
  BY <1>1, <1>4, WireKept DEF Facts
<1> QED
  BY <1>1, <1>5, HostFacts

LEMMA ConnectFacts == ASSUME TypeInv, Facts, Connect PROVE Facts'
<1>1. UNCHANGED <<written, readerVars>> /\ Grows(written, written') /\ sock'.wire = << >>
  BY WrittenSame DEF Connect, hostVars
<1>2. WireOK'
  BY <1>1 DEF WireOK
<1> QED
  BY <1>1, <1>2, HostFacts

(* The next envelope lengthens the stretch, and an old state that goes takes no
   message with it. *)
LEMMA FoldedKeeps ==
  ASSUME TypeInv, Facts, ~overtaken, NEW e, InLog(e, written), lastSeq # None,
         e.seq = lastSeq + 1
  PROVE  LET u == Folded(e) IN
         /\ Stretch(u, e.seq, written) /\ u # << >> /\ u[Len(u)] = e
         /\ \A i \in DOMAIN u : u[i].seq <= e.seq
         /\ olderCursor # None => StartsAt(u, olderCursor)
<1> DEFINE others == {i \in DOMAIN lines : lines[i].frame # "state"}
           t == IF e.frame = "state" THEN Chosen(lines, others) ELSE lines
           u == Append(t, e)
<1>1. /\ lines \in Seq(Envelope) /\ e \in Envelope /\ lastSeq \in Nat /\ written \in Seq(Frame)
      /\ e.seq \in Nat \ {0} /\ Stretch(lines, lastSeq, written) /\ e.seq <= Len(written)
  BY DEF TypeInv, TypeOK, Facts, LinesOK, Newest, InLog, Envelope
<1>2. /\ t \in Seq(Envelope) /\ Ascending(t)
      /\ \A k \in DOMAIN t : \E j \in DOMAIN lines : t[k] = lines[j]
      /\ \A j \in DOMAIN lines : lines[j].frame # "state" => \E k \in DOMAIN t : t[k] = lines[j]
  <2>1. CASE e.frame = "state"
    <3>1. Ascending(lines)
      BY <1>1 DEF Stretch
    <3> HIDE DEF others
    <3>2. t = Chosen(lines, others)
      BY <2>1
    <3> HIDE DEF t
    <3>3. /\ t \in Seq(Envelope) /\ Ascending(t)
          /\ \A k \in DOMAIN t : \E j \in DOMAIN lines : j \in others /\ t[k] = lines[j]
          /\ \A j \in DOMAIN lines : j \in others => \E k \in DOMAIN t : t[k] = lines[j]
      BY <1>1, <3>1, <3>2, ChosenEnvelopes
    <3> QED
      BY <3>3 DEF others
  <2>2. CASE e.frame # "state"
    BY <1>1, <2>2 DEF Stretch
  <2> QED
    BY <2>1, <2>2
<1> HIDE DEF t
<1>3. /\ u \in Seq(Envelope) /\ Len(u) = Len(t) + 1 /\ u[Len(u)] = e /\ u # << >>
      /\ \A i \in 1 .. Len(t) : u[i] = t[i]
      /\ DOMAIN t = 1 .. Len(t) /\ DOMAIN u = 1 .. Len(t) + 1 /\ Len(t) \in Nat
  BY <1>1, <1>2
<1> HIDE DEF u
<1>4. \A j \in DOMAIN lines : InLog(lines[j], written) /\ lines[j].seq <= lastSeq
  BY <1>1 DEF Facts, LinesOK, Stretch
<1>5. ASSUME NEW i \in DOMAIN u
      PROVE  IF i \in DOMAIN t THEN u[i] = t[i] /\ InLog(t[i], written) /\ t[i].seq <= lastSeq
                               ELSE u[i] = e /\ i = Len(u)
  <2>1. CASE i \in DOMAIN t
    <3>1. PICK j \in DOMAIN lines : t[i] = lines[j]
      BY <1>2, <2>1
    <3> QED
      BY <1>3, <1>4, <2>1, <3>1
  <2>2. CASE i \notin DOMAIN t
    BY <1>3, <2>2
  <2> QED
    BY <2>1, <2>2
<1>6. ASSUME NEW i \in DOMAIN u PROVE InLog(u[i], written) /\ u[i].seq <= e.seq
  BY <1>1, <1>5 DEF InLog, Envelope
<1>7. ASSUME NEW i \in DOMAIN u, NEW j \in DOMAIN u, i < j PROVE u[i].seq < u[j].seq
  <2>1. i \in DOMAIN t /\ u[i] = t[i]
    BY <1>3, <1>7
  <2>2. CASE j \in DOMAIN t
    BY <1>2, <1>3, <1>7, <2>1, <2>2 DEF Ascending
  <2>3. CASE j \notin DOMAIN t
    <3>1. t[i].seq <= lastSeq /\ t[i] \in Envelope /\ u[j] = e
      BY <1>2, <1>5, <2>1, <2>3
    <3> QED
      BY <1>1, <2>1, <3>1 DEF Envelope
  <2> QED
    BY <2>2, <2>3
<1>8. \A j \in DOMAIN lines : lines[j].frame # "state" => \E i \in DOMAIN u : u[i] = lines[j]
  BY <1>2, <1>3
<1>9. Complete(u, e.seq, written)
  <2>1. ASSUME NEW m \in u[1].seq .. e.seq, written[m] \in Message
        PROVE  \E i \in DOMAIN u : u[i].seq = m
    <3>1. CASE m = e.seq
      BY <1>3, <3>1
    <3>2. CASE m # e.seq
      <4>1. 1 \in DOMAIN u /\ u[1] \in Envelope
        BY <1>3
      <4>2. m <= lastSeq /\ u[1].seq <= m /\ m \in Int /\ u[1].seq \in Nat
        BY <1>1, <3>2, <4>1 DEF Envelope
      <4>3. 1 \in DOMAIN t
        BY <1>1, <1>3, <1>5, <4>1, <4>2
      <4>4. PICK j \in DOMAIN lines : t[1] = lines[j]
        BY <1>2, <4>3
      <4>5. lines # << >> /\ lines[1].seq <= lines[j].seq /\ lines[1] \in Envelope
        <5>1. 1 \in DOMAIN lines /\ lines[1] \in Envelope /\ lines # << >> /\ j \in Nat \ {0}
          BY <1>1
        <5>2. CASE j = 1
          BY <5>1, <5>2 DEF Envelope
        <5>3. CASE j # 1
          <6>1. lines[1].seq < lines[j].seq /\ lines[j] \in Envelope
            BY <1>1, <5>1, <5>3 DEF Stretch, Ascending
          <6> QED
            BY <5>1, <6>1 DEF Envelope
        <5> QED
          BY <5>2, <5>3
      <4>6. m \in lines[1].seq .. lastSeq
        BY <1>1, <1>5, <4>1, <4>2, <4>3, <4>4, <4>5 DEF Envelope
      <4>7. PICK k \in DOMAIN lines : lines[k].seq = m
        BY <1>1, <2>1, <4>5, <4>6 DEF Stretch, Complete
      <4>8. lines[k].frame # "state"
        BY <1>4, <2>1, <4>7 DEF InLog, Message
      <4> QED
        BY <1>8, <4>7, <4>8
    <3> QED
      BY <3>1, <3>2
  <2> QED
    BY <1>1, <2>1 DEF Complete
<1>10. ASSUME olderCursor # None PROVE StartsAt(u, olderCursor)
  <2>1. lines # << >> /\ olderCursor = lines[1].seq /\ lines[1].frame \in Message
    BY <1>10 DEF Facts, LinesOK, StartsAt
  <2>2. 1 \in DOMAIN lines /\ lines[1].frame # "state" /\ lines[1] \in Envelope
    BY <1>1, <2>1 DEF Message
  <2>3. PICK k \in DOMAIN t : t[k] = lines[1]
    BY <1>2, <2>2
  <2>4. 1 \in DOMAIN t /\ k \in Nat \ {0} /\ u[1] = t[1]
    BY <1>3, <2>3
  <2>5. t[1] = lines[1]
    <3>1. PICK j \in DOMAIN lines : t[1] = lines[j]
      BY <1>2, <2>4
    <3>2. CASE k = 1
      BY <2>3, <3>2
    <3>3. CASE k # 1
      <4>1. t[1].seq < t[k].seq
        BY <1>2, <2>3, <2>4, <3>3 DEF Ascending
      <4>2. CASE j = 1
        BY <3>1, <4>2
      <4>3. CASE j # 1
        <5>1. lines[1].seq < lines[j].seq /\ lines[j] \in Envelope
          BY <1>1, <2>2, <4>3 DEF Stretch, Ascending
        <5> QED
          BY <2>2, <2>3, <3>1, <4>1, <5>1 DEF Envelope
      <4> QED
        BY <4>2, <4>3
    <3> QED
      BY <3>2, <3>3
  <2> QED
    BY <1>3, <2>1, <2>4, <2>5 DEF StartsAt
<1>11. Stretch(u, e.seq, written)
  BY <1>6, <1>7, <1>9 DEF Stretch, Ascending
<1>12. u = Folded(e)
  BY DEF Folded, u, t
<1> QED
  BY <1>3, <1>6, <1>10, <1>11, <1>12

LEMMA ReceiveFacts == ASSUME TypeInv, Facts, Receive PROVE Facts'
<1> DEFINE w == sock.wire
           e == Head(sock.wire)
<1>1. /\ written' = written /\ Grows(written, written')
      /\ sock # None /\ w \in Seq(Envelope \cup {Reset}) /\ w # << >> /\ lastSeq \in Nat
      /\ IsSocket(sock)
  BY WrittenSame DEF Receive, hostVars, TypeInv, TypeOK, IsSocket
<1>2. CASE e = Reset
  BY <1>1, <1>2, ResyncFacts DEF Receive
<1>3. CASE e # Reset
  <2>1. /\ 1 \in DOMAIN w /\ e = w[1]
        /\ \A i \in DOMAIN Tail(w) : i + 1 \in DOMAIN w /\ Tail(w)[i] = w[i + 1]
    <3> HIDE DEF w
    <3>1. 1 \in DOMAIN w /\ Head(w) = w[1]
      BY <1>1
    <3>2. \A i \in DOMAIN Tail(w) : i + 1 \in DOMAIN w /\ Tail(w)[i] = w[i + 1]
      BY <1>1
    <3> QED
      BY <3>1, <3>2 DEF w
  <2>2. InLog(e, written)
    BY <1>1, <1>3, <2>1 DEF Facts, WireOK
  <2>3. sock' = None \/ sock' = [sock EXCEPT !.wire = Tail(w)]
    BY <1>1, <1>3, <2>2 DEF Receive
  <2>4. WireOK'
    <3>1. CASE sock' = None
      BY <3>1 DEF WireOK
    <3>2. CASE sock' = [sock EXCEPT !.wire = Tail(w)]
      <4>1. sock'.wire = Tail(w)
        <5> HIDE DEF w
        <5> QED
          BY <1>1, <3>2 DEF IsSocket
      <4> QED
        BY <1>1, <2>1, <4>1, WireKept DEF Facts
    <3> QED
      BY <2>3, <3>1, <3>2
  <2>5. UNCHANGED <<epoch, fetches, olders, olderCursor, loadingOlder, overtaken>>
    BY <1>1, <1>3 DEF Receive
  <2>6. FetchesOK' /\ OldersOK'
    BY <1>1, <2>5, FetchesKept, OldersKept DEF Facts
  <2>7. CASE UNCHANGED <<lines, lastSeq>>
    BY <1>1, <2>4, <2>5, <2>6, <2>7, LinesKept DEF Facts
  <2>8. CASE IsNext(e) /\ lines' = Folded(e) /\ lastSeq' = e.seq
    <3> SUFFICES ASSUME ~overtaken PROVE LinesOK'
      BY <2>4, <2>5, <2>6 DEF Facts, LinesOK
    <3> DEFINE u == Folded(e)
    <3>1. /\ Stretch(u, e.seq, written)
          /\ \A i \in DOMAIN u : u[i].seq <= e.seq
          /\ olderCursor # None => StartsAt(u, olderCursor)
      BY <1>1, <2>2, <2>8, FoldedKeeps, StreamAssumption DEF IsNext
    <3>2. e.seq <= Len(written) /\ e.seq # None
      BY <2>2, StreamAssumption DEF InLog, Envelope
    <3> HIDE DEF u, e
    <3>3. lines' = u /\ lastSeq' = e.seq /\ Newest' = e.seq /\ olderCursor' = olderCursor
      BY <2>5, <2>8, <3>2 DEF Newest, u
    <3>4. LinesOK'
      BY <1>1, <3>1, <3>2, <3>3 DEF LinesOK
    <3> QED
      BY <3>4
  <2> QED
    BY <1>1, <1>3, <2>7, <2>8 DEF Receive
<1> QED
  BY <1>2, <1>3

--------------------------------------------------------------------------------
(* The timeline: the invariant is inductive *)

LEMMA ReaderInit == Init => TimelineInv
<1> SUFFICES ASSUME Init PROVE TimelineInv
  OBVIOUS
<1>1. TypeInv
  BY TypeInit
<1>2. FetchesOK
  BY DEF Init, FetchesOK, FetchOK, Fresh
<1>3. OldersOK /\ WireOK
  BY DEF Init, OldersOK, WireOK
<1>4. LinesOK
  BY DEF Init, LinesOK, Stretch, Ascending
<1> QED
  BY <1>1, <1>2, <1>3, <1>4 DEF TimelineInv, Facts

LEMMA TimelineKept == TimelineInv /\ [Next]_vars => TimelineInv'
<1> SUFFICES ASSUME TimelineInv, [Next]_vars PROVE TimelineInv'
  OBVIOUS
<1>1. TypeInv /\ TypeInv'
  BY TypeStep DEF TimelineInv
<1> SUFFICES ASSUME life' = 1 PROVE Facts'
  BY <1>1 DEF TimelineInv
<1>2. CASE Restart
  BY <1>1, <1>2 DEF TypeInv, TypeOK, Restart
<1>3. CASE ~Restart
  <2>1. life = life'
    BY <1>3 DEF Next, vars, hostVars, Load, Emit, Attach, Refresh, Get, GetMessages, Subscribe,
       FetchFails, LoadOlder, OlderAnswer, Prepend, OlderFails, Connect, Receive, Closed, Break,
       Lose, Repeat, LoadFails, Fault
  <2>2. Facts /\ Grows(written, written')
    BY <1>1, <2>1, JournalGrows DEF TimelineInv
  <2>3. CASE Load \/ Closed \/ Break \/ UNCHANGED vars
    <3>1. sock' \in {sock, None} /\ UNCHANGED readerVars
      BY <2>3 DEF Load, Closed, Break, Fault, vars
    <3> QED
      BY <1>1, <2>2, <3>1, SocketSame, HostFacts DEF Facts
  <2>4. ASSUME NEW f \in Frame, Emit(f) PROVE Facts'
    BY <1>1, <2>2, <2>4, EmitFacts
  <2>5. CASE Attach \/ Connect \/ Lose \/ Repeat
    BY <1>1, <2>2, <2>5, AttachFacts, ConnectFacts, FaultFacts
  <2>6. CASE Refresh
    BY <1>1, <2>2, <2>6, ResyncFacts DEF Refresh
  <2>7. ASSUME NEW r \in fetches, Get(r) \/ GetMessages(r) \/ Subscribe(r) \/ FetchFails(r)
        PROVE  Facts'
    BY <1>1, <2>2, <2>7, GetFacts, GetMessagesFacts, SubscribeFacts, FetchFailsFacts
  <2>8. CASE LoadOlder
    BY <1>1, <2>2, <2>8, LoadOlderFacts
  <2>9. ASSUME NEW o \in olders, OlderAnswer(o) \/ Prepend(o) \/ OlderFails(o) PROVE Facts'
    BY <1>1, <2>2, <2>9, OlderAnswerFacts, PrependFacts, OlderFailsFacts
  <2>10. CASE Receive \/ LoadFails
    BY <1>1, <2>2, <2>10, ReceiveFacts, LoadFailsFacts
  <2> QED
    BY <1>3, <2>3, <2>4, <2>5, <2>6, <2>7, <2>8, <2>9, <2>10 DEF Next
<1> QED
  BY <1>2, <1>3

(* The invariant says what the reader is promised. *)
LEMMA TimelineFollows == TimelineInv => TimelineIsJournal
<1> SUFFICES ASSUME TimelineInv, life = 1, ~overtaken, lines # << >>
             PROVE  /\ Ascending(lines)
                    /\ \A i \in DOMAIN lines : lines[i].frame = written[lines[i].seq]
                    /\ {s \in lines[1].seq .. Newest : written[s] \in Message} =
                       {lines[i].seq : i \in Messages(lines)}
  BY DEF TimelineIsJournal
<1>1. /\ lines \in Seq(Envelope) /\ lastSeq \in Nat \cup {None}
      /\ Stretch(lines, Newest, written) /\ Newest \in Int
  BY NewestInt DEF TimelineInv, Facts, LinesOK, TypeInv, TypeOK
<1>2. /\ Ascending(lines) /\ Complete(lines, Newest, written)
      /\ \A i \in DOMAIN lines : InLog(lines[i], written) /\ lines[i] \in Envelope
  BY <1>1 DEF Stretch
<1>3. /\ 1 \in DOMAIN lines /\ Len(lines) \in DOMAIN lines
      /\ \A i \in DOMAIN lines : i \in Nat /\ 1 <= i /\ i <= Len(lines)
  BY <1>1
<1>4. ASSUME NEW i \in DOMAIN lines, NEW j \in DOMAIN lines, i <= j
      PROVE  lines[i].seq <= lines[j].seq /\ lines[i].seq \in Nat
  <2>1. CASE i = j
    BY <1>2, <2>1 DEF Envelope
  <2>2. CASE i # j
    <3>1. i < j
      BY <1>3, <1>4, <2>2
    <3>2. lines[i].seq < lines[j].seq
      BY <1>2, <3>1 DEF Ascending
    <3> QED
      BY <1>2, <3>2 DEF Envelope
  <2> QED
    BY <2>1, <2>2
<1>5. ASSUME NEW i \in DOMAIN lines PROVE lines[i].seq \in lines[1].seq .. Newest
  <2>1. lines[1].seq <= lines[i].seq /\ lines[i].seq <= lines[Len(lines)].seq
        /\ lines[i].seq \in Nat /\ lines[1].seq \in Nat
    BY <1>3, <1>4
  <2>2. lines[i].seq <= Newest
    BY <2>1 DEF Newest, TimelineInv, Facts, LinesOK
  <2> QED
    BY <1>1, <2>1, <2>2
<1>6. ASSUME NEW s \in lines[1].seq .. Newest, written[s] \in Message
      PROVE  \E i \in Messages(lines) : lines[i].seq = s
  <2>1. PICK i \in DOMAIN lines : lines[i].seq = s
    BY <1>2, <1>6 DEF Complete
  <2> QED
    BY <1>2, <1>6, <2>1 DEF InLog, Messages
<1>7. ASSUME NEW i \in Messages(lines)
      PROVE  lines[i].seq \in lines[1].seq .. Newest /\ written[lines[i].seq] \in Message
  BY <1>2, <1>5 DEF Messages, InLog
<1> QED
  BY <1>2, <1>6, <1>7 DEF Ascending, InLog

(* What the reader shows is the journal, message by message, however resyncs,
   older pages, replays, losses and repeats interleave (useAcpSession.ts and
   subscribeToSession.ts), for every Capacity, PageSize and number of faults,
   unless a page asked for during a resync outlives it. *)
THEOREM StreamTimelineIsJournal == Spec => []TimelineIsJournal
BY ReaderInit, TimelineKept, TimelineFollows, PTL DEF Spec

--------------------------------------------------------------------------------
(* What is shown stays *)

(* A resync under way is the only one of its epoch, and while it runs the    *)
(* reader has no subscription.                                               *)
OneResync ==
  /\ \A r, q \in fetches : Current(r) /\ Current(q) => r = q
  /\ lastSeq # None => \A r \in fetches : ~Current(r)

LEMMA OneResyncInit == Init => OneResync
BY DEF Init, OneResync

LEMMA ResyncAlone ==
  ASSUME TypeInv, Resync PROVE OneResync'
<1>1. epoch \in Nat /\ \A r \in fetches : r.epoch \in 1 .. epoch
  BY DEF TypeInv, TypeOK
<1>2. /\ epoch' = epoch + 1 /\ fetches' = fetches \cup {Fresh(epoch + 1)} /\ lastSeq' = None
      /\ Fresh(epoch + 1).epoch = epoch + 1
  BY DEF Resync, Fresh
<1>3. ASSUME NEW r \in fetches', r.epoch = epoch + 1 PROVE r = Fresh(epoch + 1)
  BY <1>1, <1>2, <1>3
<1> QED
  BY <1>2, <1>3 DEF OneResync, Current

LEMMA OneResyncSame ==
  ASSUME OneResync, fetches' \subseteq fetches, UNCHANGED <<epoch, lastSeq>> PROVE OneResync'
BY DEF OneResync, Current

LEMMA OneResyncFetch ==
  ASSUME TypeInv, OneResync, NEW r \in fetches,
         Get(r) \/ GetMessages(r) \/ Subscribe(r) \/ FetchFails(r)
  PROVE  OneResync'
<1>1. CASE Subscribe(r)
  <2>1. fetches' = fetches \ {r} /\ epoch' = epoch
    BY <1>1 DEF Subscribe, Replace
  <2>2. CASE ~Current(r)
    BY <1>1, <2>1, <2>2, OneResyncSame DEF Subscribe
  <2>3. CASE Current(r)
    BY <2>1, <2>3 DEF OneResync, Current
  <2> QED
    BY <2>2, <2>3
<1>2. CASE FetchFails(r)
  BY <1>2, OneResyncSame DEF FetchFails, Replace
<1>3. CASE Get(r) \/ GetMessages(r)
  <2>1. UNCHANGED <<epoch, lastSeq>>
    BY <1>3 DEF Get, GetMessages
  <2>2. r \in Fetch
    BY DEF TypeInv
  <2>3. PICK q : fetches' \subseteq (fetches \ {r}) \cup {q} /\ q.epoch = r.epoch
    <3>1. CASE Get(r)
      <4>1. [r EXCEPT !.at = "page", !.seen = latest].epoch = r.epoch
        BY <2>2 DEF Fetch
      <4> QED
        BY <3>1, <4>1 DEF Get, Replace
    <3>2. CASE GetMessages(r)
      <4>1. [r EXCEPT !.at = "answer", !.page = Page(latest + 1, PageSize, Message)].epoch = r.epoch
        BY <2>2 DEF Fetch
      <4> QED
        BY <3>2, <4>1 DEF GetMessages, Replace
    <3> QED
      BY <1>3, <3>1, <3>2
  <2> QED
    BY <2>1, <2>3 DEF OneResync, Current
<1> QED
  BY <1>1, <1>2, <1>3

LEMMA OneResyncStep == TypeInv /\ OneResync /\ [Next]_vars => OneResync'
<1> SUFFICES ASSUME TypeInv, OneResync, [Next]_vars PROVE OneResync'
  OBVIOUS
<1>1. CASE Refresh
  BY <1>1, ResyncAlone DEF Refresh
<1>2. CASE Receive
  <2>1. CASE Resync
    BY <2>1, ResyncAlone
  <2>2. CASE ~Resync
    <3> DEFINE e == Head(sock.wire)
    <3>1. lastSeq # None /\ UNCHANGED <<epoch, fetches>>
      BY <1>2, <2>2 DEF Receive
    <3>2. lastSeq' = lastSeq \/ (lastSeq' = e.seq /\ IsNext(e))
      BY <1>2, <2>2 DEF Receive
    <3> HIDE DEF e
    <3>3. lastSeq' # None
      BY <3>1, <3>2, StreamAssumption DEF IsNext, TypeInv, TypeOK
    <3> QED
      BY <3>1, <3>3 DEF OneResync, Current
  <2> QED
    BY <2>1, <2>2
<1>3. ASSUME NEW r \in fetches, Get(r) \/ GetMessages(r) \/ Subscribe(r) \/ FetchFails(r)
      PROVE  OneResync'
  BY <1>3, OneResyncFetch
<1>4. CASE LoadFails
  BY <1>4, OneResyncSame DEF LoadFails
<1>5. CASE UNCHANGED <<epoch, fetches, lastSeq>>
  BY <1>5, OneResyncSame
<1> QED
  BY <1>1, <1>2, <1>3, <1>4, <1>5 DEF Next, vars, hostVars, readerVars, Load, Emit, Attach,
     Restart, LoadOlder, OlderAnswer, Prepend, OlderFails, Connect, Closed, Break, Lose, Repeat,
     Fault

(* Folding an envelope in takes no message away. *)
LEMMA FoldedShows ==
  ASSUME TypeInv, NEW e, NEW i \in DOMAIN lines, lines[i].frame \in Message
  PROVE  \E j \in DOMAIN Folded(e) : Folded(e)[j] = lines[i]
<1> DEFINE others == {k \in DOMAIN lines : lines[k].frame # "state"}
           t == IF e.frame = "state" THEN Chosen(lines, others) ELSE lines
<1>1. lines \in Seq(Envelope) /\ i \in others /\ i \in 1 .. Len(lines)
  BY DEF TypeInv, TypeOK, Message
<1>2. \E k \in DOMAIN t : t[k] = lines[i]
  <2>1. CASE e.frame = "state"
    <3> HIDE DEF others
    <3>1. \E k \in DOMAIN Chosen(lines, others) : Chosen(lines, others)[k] = lines[i]
      BY <1>1, ChosenSelects DEF Selects
    <3> QED
      BY <2>1, <3>1
  <2>2. CASE e.frame # "state"
    BY <2>2
  <2> QED
    BY <2>1, <2>2
<1>3. t \in Seq(Envelope)
  <2> HIDE DEF others
  <2>1. Chosen(lines, others) \in Seq(Envelope)
    BY <1>1, ChosenSelects DEF Selects
  <2> QED
    BY <1>1, <2>1
<1>4. Folded(e) = Append(t, e)
  BY DEF Folded
<1> HIDE DEF t
<1> QED
  BY <1>2, <1>3, <1>4

LEMMA ShownStep ==
  ASSUME TypeInv, OneResync, Next, lastSeq # None, epoch' = epoch
  PROVE  /\ lastSeq' \in {lastSeq, lastSeq + 1}
         /\ \A i \in DOMAIN lines : lines[i].frame \in Message =>
              \E j \in DOMAIN lines' : lines'[j] = lines[i]
<1>1. ~Resync /\ lines \in Seq(Envelope)
  BY DEF Resync, TypeInv, TypeOK
<1>2. CASE Receive
  <2>1. CASE UNCHANGED <<lines, lastSeq>>
    BY <2>1
  <2>2. CASE IsNext(Head(sock.wire)) /\ lines' = Folded(Head(sock.wire))
             /\ lastSeq' = Head(sock.wire).seq
    BY <2>2, FoldedShows DEF IsNext
  <2> QED
    BY <1>1, <1>2, <2>1, <2>2 DEF Receive
<1>3. ASSUME NEW r \in fetches, Subscribe(r) PROVE UNCHANGED <<lines, lastSeq>>
  BY <1>3 DEF Subscribe, OneResync
<1>4. ASSUME NEW o \in olders, Prepend(o)
      PROVE  /\ lastSeq' = lastSeq
             /\ \A i \in DOMAIN lines : \E j \in DOMAIN lines' : lines'[j] = lines[i]
  <2>1. CASE lines' = lines
    BY <1>4, <2>1 DEF Prepend
  <2>2. CASE lines' = o.page.items \o lines
    <3>1. o.page.items \in Seq(Envelope)
      BY DEF TypeInv, Older, PageType
    <3> DEFINE older == o.page.items
    <3>2. \A i \in DOMAIN lines : \E j \in DOMAIN (older \o lines) : (older \o lines)[j] = lines[i]
      <4> HIDE DEF older
      <4>1. older \in Seq(Envelope)
        BY <3>1 DEF older
      <4>2. /\ older \o lines \in Seq(Envelope) /\ Len(older \o lines) = Len(older) + Len(lines)
            /\ \A i \in 1 .. Len(lines) : (older \o lines)[Len(older) + i] = lines[i]
        BY <1>1, <4>1, Concat
      <4>3. \A i \in DOMAIN lines : i \in 1 .. Len(lines) /\ Len(older) + i \in 1 .. Len(older \o lines)
        BY <1>1, <4>1, <4>2
      <4> QED
        BY <4>2, <4>3
    <3> QED
      BY <1>4, <2>2, <3>2 DEF Prepend
  <2> QED
    BY <1>4, <2>1, <2>2 DEF Prepend
<1>5. CASE UNCHANGED <<lines, lastSeq>>
  BY <1>5
<1> QED
  BY <1>1, <1>2, <1>3, <1>4, <1>5 DEF Next, hostVars, readerVars, Load, Emit, Attach, Restart,
     Refresh, Get, GetMessages, FetchFails, LoadOlder, OlderAnswer, OlderFails, Connect, Closed,
     Break, Lose, Repeat, Fault, LoadFails

(* A reader that stays subscribed never loses a message from its screen, and no
   answer to an earlier request moves its cursor (useAcpSession.ts). *)
THEOREM StreamShownStays == Spec => ShownStays
<1>1. Init => TypeInv /\ OneResync
  BY TypeInit, OneResyncInit
<1>2. TypeInv /\ OneResync /\ [Next]_vars => (TypeInv /\ OneResync)'
  BY TypeStep, OneResyncStep
<1>3. TypeInv /\ OneResync /\ [Next]_vars =>
        [lastSeq # None /\ epoch' = epoch =>
           /\ lastSeq' \in {lastSeq, lastSeq + 1}
           /\ \A i \in DOMAIN lines : lines[i].frame \in Message =>
                \E j \in DOMAIN lines' : lines'[j] = lines[i]]_vars
  BY ShownStep
<1> QED
  BY <1>1, <1>2, <1>3, PTL DEF Spec, ShownStays

--------------------------------------------------------------------------------
(* The replay *)

(* The window of the journal is as full as it can be. *)
Filled == Len(retained) = IF latest <= Capacity THEN latest ELSE Capacity

LEMMA NumberedType ==
  ASSUME NEW w \in Seq(Frame)
  PROVE  Numbered(w) \in Seq(Envelope) /\ Len(Numbered(w)) = Len(w)
BY DEF Numbered, Envelope

LEMMA FilledStep == TypeInv /\ Filled /\ [Next]_vars => Filled'
<1> SUFFICES ASSUME TypeInv, Filled, [Next]_vars PROVE Filled'
  OBVIOUS
<1>1. CASE Load
  <2> PICK n \in 0 .. MaxReplay :
       /\ n <= Capacity
       /\ written' = [i \in 1 .. n + 1 |-> IF i <= n THEN "message" ELSE "state"]
       /\ latest' = n + 1
       /\ retained' = LET all == Numbered(written')
                      IN SubSeq(all, IF n + 1 > Capacity THEN 2 ELSE 1, n + 1)
    BY <1>1 DEF Load
  <2>1. n \in Nat /\ Capacity \in Nat \ {0}
    BY StreamAssumption, CapacityAssumption
  <2>2. written' \in Seq(Frame) /\ Len(written') = n + 1
    BY <2>1, StreamAssumption
  <2> DEFINE all == Numbered(written')
             from == IF n + 1 > Capacity THEN 2 ELSE 1
  <2>3. all \in Seq(Envelope) /\ Len(all) = n + 1
    BY <2>2, NumberedType
  <2>4. retained' = SubSeq(all, from, n + 1)
    OBVIOUS
  <2>5. from \in 1 .. 2 /\ (from = 2 => n = Capacity) /\ (from = 1 => n + 1 <= Capacity)
    BY <2>1
  <2> HIDE DEF all, from
  <2>6. from \in 1 .. n + 1 /\ n + 1 \in 1 .. Len(all)
    BY <2>1, <2>3, <2>5
  <2>7. Len(retained') = (n + 1) - from + 1
    BY <2>3, <2>4, <2>6, SubSeqOf
  <2> QED
    BY <2>1, <2>5, <2>7 DEF Filled
<1>2. ASSUME NEW f \in Frame, Emit(f) PROVE Filled'
  <2>1. /\ latest \in Nat /\ retained \in Seq(Envelope) /\ Len(retained) <= latest
        /\ Capacity \in Nat \ {0}
    BY StreamAssumption, CapacityAssumption DEF TypeInv, TypeOK, LogOK
  <2> DEFINE e == [seq |-> latest + 1, frame |-> f]
  <2>2. e \in Envelope
    BY <2>1, <1>2 DEF Envelope
  <2>3. latest' = latest + 1
        /\ retained' = IF Room THEN Append(retained, e) ELSE Append(Tail(retained), e)
    BY <1>2 DEF Emit, Append1
  <2> HIDE DEF e
  <2>4. CASE Room
    BY <2>1, <2>2, <2>3, <2>4 DEF Room, Filled
  <2>5. CASE ~Room
    <3>1. Len(retained) = Capacity /\ retained # << >>
      BY <2>1, <2>5 DEF Room, Filled
    <3>2. Tail(retained) \in Seq(Envelope) /\ Len(Tail(retained)) = Len(retained) - 1
      BY <2>1, <3>1
    <3>3. Len(retained') = Len(retained)
      BY <2>1, <2>2, <2>3, <2>5, <3>2
    <3>4. latest >= Capacity
      BY <2>1, <3>1
    <3> QED
      BY <2>1, <2>3, <3>1, <3>3, <3>4 DEF Filled
  <2> QED
    BY <2>4, <2>5
<1>3. CASE Restart
  BY <1>3, CapacityAssumption DEF Restart, Filled
<1>4. CASE UNCHANGED hostVars
  BY <1>4 DEF hostVars, Filled
<1> QED
  BY <1>1, <1>2, <1>3, <1>4 DEF Next, vars, Attach, Refresh, Get, GetMessages, Subscribe,
     FetchFails, LoadOlder, OlderAnswer, Prepend, OlderFails, Connect, Receive, Closed, Break,
     Lose, Repeat, LoadFails, Fault

(* n frames of the journal after number since, as envelopes. *)
Replays(s, since, n) ==
  /\ s \in Seq(Envelope) /\ Len(s) = n
  /\ \A i \in 1 .. n : s[i] = [seq |-> since + i, frame |-> written[since + i]]

(* A cursor is answered with exactly what the journal got since, unless it is
   ahead of the journal or more than Capacity behind. *)
ReplayIsExact ==
  \A since \in Nat :
    IF since <= latest /\ latest - since <= Capacity
    THEN Replays(After(since), since, latest - since)
    ELSE After(since) = None

LEMMA ReplayFollows == TypeInv /\ Filled => ReplayIsExact
<1> SUFFICES ASSUME TypeInv, Filled, NEW since \in Nat
             PROVE  IF since <= latest /\ latest - since <= Capacity
                    THEN Replays(After(since), since, latest - since)
                    ELSE After(since) = None
  BY DEF ReplayIsExact
<1>1. /\ retained \in Seq(Envelope) /\ latest \in Nat /\ Len(retained) <= latest
      /\ Capacity \in Nat \ {0} /\ Len(retained) \in Nat
  BY StreamAssumption, CapacityAssumption DEF TypeInv, TypeOK, LogOK
<1>2. CASE since = latest
  <2>1. After(since) = << >>
    BY <1>2 DEF After
  <2> QED
    BY <1>1, <1>2, <2>1 DEF Replays
<1>3. CASE since > latest \/ latest - since > Capacity
  <2>1. since # latest /\ (since > latest \/ since + 1 < Oldest)
    BY <1>1, <1>3 DEF Filled, Oldest
  <2> QED
    BY <1>1, <1>3, <2>1 DEF After
<1>4. CASE since < latest /\ latest - since <= Capacity
  <2> DEFINE from == since - Oldest + 2
  <2>1. ~(since > latest \/ since + 1 < Oldest) /\ since # latest
    BY <1>1, <1>4 DEF Filled, Oldest
  <2>2. After(since) = SubSeq(retained, from, Len(retained))
    BY <2>1 DEF After
  <2>3. from = since - latest + Len(retained) + 1 /\ from \in 1 .. Len(retained)
    BY <1>1, <1>4, <2>1 DEF Oldest
  <2> HIDE DEF from
  <2>4. Len(retained) \in 1 .. Len(retained) /\ Len(retained) - from + 1 = latest - since
    BY <1>1, <1>4, <2>3
  <2>5. /\ After(since) \in Seq(Envelope)
        /\ Len(After(since)) = latest - since
        /\ \A i \in 1 .. latest - since : After(since)[i] = retained[from + i - 1]
    <3> DEFINE last == Len(retained)
               replay == SubSeq(retained, from, last)
    <3>1. from \in 1 .. last /\ last \in 1 .. Len(retained)
      BY <2>3, <2>4
    <3> HIDE DEF last
    <3>2. /\ replay \in Seq(Envelope) /\ Len(replay) = last - from + 1
          /\ \A i \in 1 .. last - from + 1 : replay[i] = retained[from + i - 1]
      BY <1>1, <3>1, SubSeqOf
    <3>3. last - from + 1 = latest - since /\ After(since) = replay
      BY <2>2, <2>4 DEF last
    <3> HIDE DEF replay
    <3> QED
      BY <3>2, <3>3
  <2>6. ASSUME NEW i \in 1 .. latest - since
        PROVE  After(since)[i] = [seq |-> since + i, frame |-> written[since + i]]
    <3>1. from + i - 1 \in DOMAIN retained /\ latest - Len(retained) + (from + i - 1) = since + i
      BY <1>1, <1>4, <2>3
    <3>2. retained[from + i - 1] = [seq |-> since + i, frame |-> written[since + i]]
      BY <3>1 DEF TypeInv, LogOK
    <3> QED
      BY <2>5, <3>2
  <2> QED
    BY <1>1, <1>4, <2>5, <2>6 DEF Replays
<1> QED
  BY <1>1, <1>2, <1>3, <1>4

(* The host replays exactly the envelopes a reader has missed, and resets it only
   if it must: its cursor is of another life or out of the journal's reach
   (attach in stream.ts, journal.since). *)
THEOREM StreamReplayIsExact == Spec => []ReplayIsExact
<1>1. Init => TypeInv /\ Filled
  BY TypeInit, CapacityAssumption DEF Init, LogInit, Filled
<1>2. TypeInv /\ Filled /\ [Next]_vars => (TypeInv /\ Filled)'
  BY TypeStep, FilledStep
<1> QED
  BY <1>1, <1>2, ReplayFollows, PTL DEF Spec
================================================================================
