---------------------------- MODULE BookFeed_proofs -----------------------------
(***************************************************************************)
(* That the local books follow the venue, for any set of tokens, any       *)
(* number of moves, and any interleaving of the websocket thread with the  *)
(* cycle that widens its subscription and copies its books.                *)
(***************************************************************************)
EXTENDS BookFeed, FiniteSetTheorems, TLAPS

-----------------------------------------------------------------------------
(* The inductive invariant *)

Book == [known : BOOLEAN, ready : BOOLEAN, bids : Int, asks : Int, age : Int]
Msg  == [tok : Tokens, kind : Kinds, v : Int]

\* Messages are of tokens that are served, and what is served has a local book.
Shape ==
    /\ truth \in [Tokens -> Int] /\ First \subseteq listed /\ listed \subseteq Tokens
    /\ pipe \in Seq(Msg) /\ broken \in BOOLEAN
    /\ books \in [Tokens -> Book]
    /\ ids \subseteq Known /\ served \subseteq Known
    /\ \A i \in DOMAIN pipe : pipe[i].tok \in served
    /\ ws = "applying" => half \in Msg /\ half.tok \in Known

\* A socket is set before the subscription is put together, so that either the dial or
\* the widening covers a token that arrives between the two.
Subscribed ==
    /\ main # "send" => ids = Known
    /\ ws \in {"reading", "applying"} /\ ~broken /\ main # "send" => Known \subseteq served

\* What the messages on their way will make of the book of a token that is served and that
\* the connection has not choked on: the last one carries what the venue has, it finds a
\* book that is ready, and if there is none the book has already followed.
Changes(m, t) == m.tok = t /\ m.kind # "tick_size_change"
Halved(t) == ws = "applying" /\ half.tok = t
LastIsTruth(t) ==
    \A i \in DOMAIN pipe :
        Changes(pipe[i], t) /\ (\A j \in DOMAIN pipe : j > i => ~Changes(pipe[j], t))
            => pipe[i].v = truth[t]
BaselineFirst(t) ==
    \/ books[t].ready \/ Halved(t)
    \/ \E j \in DOMAIN pipe : pipe[j].tok = t /\ pipe[j].kind = "book"
Followed(t) ==
    (\A i \in DOMAIN pipe : ~Changes(pipe[i], t)) =>
        IF Halved(t) THEN half.v = truth[t]
        ELSE books[t].ready /\ books[t].bids = truth[t] /\ books[t].asks = truth[t]
Follows(t) == LastIsTruth(t) /\ BaselineFirst(t) /\ Followed(t)

FeedInv ==
    /\ ws = "applying" => books[half.tok].bids = half.v
    /\ ~broken => \A t \in served \ choked : Follows(t)

IInv == Shape /\ Subscribed /\ FeedInv

LEMMA FeedInit == Init => IInv
<1> SUFFICES ASSUME Init PROVE IInv
  OBVIOUS
<1>1. books \in [Tokens -> Book] /\ \A t \in Tokens : books[t].known <=> t \in First
  <2>1. NewBook \in Book
    BY FeedAssumption DEF NewBook, Book
  <2>2. \A b \in BOOLEAN : [NewBook EXCEPT !.known = b] \in Book
                           /\ [NewBook EXCEPT !.known = b].known = b
    BY <2>1 DEF Book
  <2>3. ASSUME NEW t \in Tokens
        PROVE  books[t] \in Book /\ (books[t].known <=> t \in First)
    <3>1. books[t] = [NewBook EXCEPT !.known = t \in First]
      BY DEF Init
    <3>2. (t \in First) \in BOOLEAN
      OBVIOUS
    <3> QED
      BY <2>2, <3>1, <3>2, Zenon
  <2>4. books = [t \in Tokens |-> books[t]]
    BY DEF Init
  <2> QED
    BY <2>3, <2>4
<1>2. Known = First
  BY <1>1, FeedAssumption DEF Known
<1>3. pipe = <<>> /\ served = {} /\ broken /\ ws = "dial" /\ ids = First /\ listed = First
      /\ truth \in [Tokens -> Int]
  BY DEF Init
<1>4. Shape
  BY <1>1, <1>2, <1>3, FeedAssumption DEF Shape
<1> QED
  BY <1>2, <1>3, <1>4 DEF IInv, Subscribed, FeedInv

-----------------------------------------------------------------------------
(* Operators *)

\* A subscription is answered with the book of each of its tokens.
LEMMA BaselineShape ==
    ASSUME NEW toks \in SUBSET Tokens, truth \in [Tokens -> Int]
    PROVE  /\ Baseline(toks) \in Seq(Msg)
           /\ \A i \in DOMAIN Baseline(toks) :
                 /\ Baseline(toks)[i].tok \in toks /\ Baseline(toks)[i].kind = "book"
                 /\ Baseline(toks)[i].v = truth[Baseline(toks)[i].tok]
           /\ \A t \in toks : \E i \in DOMAIN Baseline(toks) : Baseline(toks)[i].tok = t
<1> DEFINE order == SetToSeq(toks)
           n == Cardinality(toks)
<1>1. IsFiniteSet(toks) /\ n \in Nat
  BY FeedAssumption, FS_Subset, FS_CardinalityType
<1>2. \E f \in [1 .. n -> toks] : IsInjective(f)
  BY <1>1, FS_CardinalityType DEF ExistsBijection, Bijection, Injection
<1>3. order \in [1 .. n -> toks] /\ IsInjective(order)
  BY <1>2 DEF SetToSeq
<1>4. order \in Surjection(1 .. n, toks)
  <2>1. IsFiniteSet(1 .. n) /\ Cardinality(1 .. n) = n
    <3>1. 1 \in Int /\ n \in Int
      BY <1>1
    <3> QED
      BY <1>1, <3>1, FS_Interval
  <2>2. order \in Injection(1 .. n, toks)
    BY <1>3 DEF Injection
  <2> QED
    BY <1>1, <2>1, <2>2, FS_Injection
<1>5. \A t \in toks : \E i \in 1 .. n : order[i] = t
  BY <1>4 DEF Surjection
<1> HIDE DEF order, n
<1>6. DOMAIN order = 1 .. n
  BY <1>3
<1>7. Baseline(toks) = [i \in 1 .. n |-> [tok |-> order[i], kind |-> "book", v |-> truth[order[i]]]]
  BY <1>6 DEF Baseline, order
<1>8. \A i \in 1 .. n : [tok |-> order[i], kind |-> "book", v |-> truth[order[i]]] \in Msg
  BY <1>3 DEF Msg, Kinds
<1>9. /\ DOMAIN Baseline(toks) = 1 .. n
      /\ \A i \in 1 .. n : Baseline(toks)[i]
                           = [tok |-> order[i], kind |-> "book", v |-> truth[order[i]]]
  BY <1>7
<1>10. Baseline(toks) \in Seq(Msg)
  BY <1>1, <1>7, <1>8
<1> HIDE DEF Baseline
<1>11. \A i \in 1 .. n : /\ Baseline(toks)[i].tok = order[i] /\ Baseline(toks)[i].kind = "book"
                         /\ Baseline(toks)[i].v = truth[order[i]] /\ order[i] \in toks
  BY <1>3, <1>9
<1> QED
  BY <1>5, <1>9, <1>10, <1>11

-----------------------------------------------------------------------------
(* The invariant step by step *)

\* A book is never forgotten, and no step but the messages' own touches the levels of a
\* book that is known.
SameLevels ==
    \A t \in Known : /\ books'[t].known
                     /\ books'[t].ready = books[t].ready
                     /\ books'[t].bids = books[t].bids /\ books'[t].asks = books[t].asks

\* A book with one side of a message, with its other side, and with another age.
WithBids(b, v, a) == [[b EXCEPT !.bids = v] EXCEPT !.age = a]
WithAsks(b, v, a) == [[[b EXCEPT !.asks = v] EXCEPT !.ready = TRUE] EXCEPT !.age = a]
WithAge(b, a) == [b EXCEPT !.age = a]

LEMMA BidsSet ==
    ASSUME NEW b \in Book, NEW v \in Int, NEW a \in Int
    PROVE  /\ WithBids(b, v, a) \in Book
           /\ WithBids(b, v, a).bids = v /\ WithBids(b, v, a).asks = b.asks
           /\ WithBids(b, v, a).known = b.known /\ WithBids(b, v, a).ready = b.ready
  BY DEF Book, WithBids

LEMMA AsksSet ==
    ASSUME NEW b \in Book, NEW v \in Int, NEW a \in Int
    PROVE  /\ WithAsks(b, v, a) \in Book
           /\ WithAsks(b, v, a).bids = b.bids /\ WithAsks(b, v, a).asks = v
           /\ WithAsks(b, v, a).known = b.known /\ WithAsks(b, v, a).ready
  BY DEF Book, WithAsks

LEMMA AgeSet ==
    ASSUME NEW b \in Book, NEW a \in Int
    PROVE  /\ WithAge(b, a) \in Book
           /\ WithAge(b, a).bids = b.bids /\ WithAge(b, a).asks = b.asks
           /\ WithAge(b, a).known = b.known /\ WithAge(b, a).ready = b.ready
  BY DEF Book, WithAge

LEMMA TickBooks ==
    ASSUME Shape, Tick
    PROVE  books' \in [Tokens -> Book] /\ Known' = Known /\ SameLevels
<1>1. ASSUME NEW t \in Tokens
      PROVE  /\ books'[t] \in Book /\ books'[t].known = books[t].known
             /\ books'[t].ready = books[t].ready
             /\ books'[t].bids = books[t].bids /\ books'[t].asks = books[t].asks
  <2>1. books[t] \in Book /\ books'[t] = Aged(books[t])
    BY DEF Shape, Tick
  <2>2. PICK b \in Book : b = books[t]
    BY <2>1
  <2>3. \E a \in Int : Aged(b) = [b EXCEPT !.age = a]
    <3>1. b.age \in Int /\ b.age + 1 \in Int
      BY DEF Book
    <3>2. CASE b.age > Fresh
      BY <3>1, <3>2 DEF Aged
    <3>3. CASE ~(b.age > Fresh)
      BY <3>1, <3>3 DEF Aged
    <3> QED
      BY <3>2, <3>3
  <2> QED
    BY <2>1, <2>2, <2>3 DEF Book
<1>2. DOMAIN books' = Tokens /\ books' = [t \in Tokens |-> books'[t]]
  BY DEF Tick
<1>3. books' \in [Tokens -> Book]
  BY <1>1, <1>2
<1> QED
  BY <1>1, <1>3 DEF Known, SameLevels

LEMMA GrowBooks ==
    ASSUME Shape, Grow
    PROVE  /\ books' \in [Tokens -> Book] /\ Known' = Known \cup listed /\ SameLevels
<1>1. NewBook \in Book /\ NewBook.known
  BY FeedAssumption DEF NewBook, Book
<1>2. ASSUME NEW t \in Tokens
      PROVE  /\ books'[t] \in Book
             /\ t \in listed \ Known => books'[t] = NewBook
             /\ t \notin listed \ Known => books'[t] = books[t]
  BY <1>1 DEF Grow, Shape
<1>3. books' \in [Tokens -> Book]
  <2>1. books' = [t \in Tokens |-> books'[t]]
    BY DEF Grow
  <2> QED
    BY <1>2, <2>1
<1>4. \A t \in Tokens : books'[t].known <=> t \in Known \cup listed
  BY <1>1, <1>2 DEF Known
<1> QED
  BY <1>2, <1>3, <1>4 DEF Known, SameLevels, Shape

\* What a message that is read does to its book, and what it leaves alone.
LEMMA ReadBooks ==
    ASSUME Shape, Read
    PROVE  /\ Head(pipe) \in Msg /\ Head(pipe) = pipe[1] /\ Head(pipe).tok \in Known
           /\ books' \in [Tokens -> Book] /\ Known' = Known
           /\ \A t \in Tokens : /\ books'[t].ready = books[t].ready
                                /\ books'[t].asks = books[t].asks
                                /\ t # Head(pipe).tok => books'[t] = books[t]
           /\ books'[Head(pipe).tok].bids = IF Applies(Head(pipe)) THEN Head(pipe).v
                                            ELSE books[Head(pipe).tok].bids
<1>1. pipe \in Seq(Msg) /\ pipe # <<>>
  BY DEF Shape, Read
<1>2. Head(pipe) \in Msg /\ Head(pipe) = pipe[1] /\ 1 \in DOMAIN pipe
  BY <1>1
<1>3. Head(pipe).tok \in Known
  BY <1>2 DEF Shape
<1>4. PICK m \in Msg : m = Head(pipe)
  BY <1>2
<1>5. m.tok \in Tokens /\ m.v \in Int /\ m.tok \in Known
  BY <1>3, <1>4 DEF Known, Msg
<1>6. books \in [Tokens -> Book]
  BY DEF Shape
<1>7. PICK b \in Book : b = books[m.tok]
  BY <1>5, <1>6
<1>9. \E n \in Book : /\ books' = [books EXCEPT ![m.tok] = n]
                      /\ n.known = b.known /\ n.ready = b.ready /\ n.asks = b.asks
                      /\ n.bids = IF Applies(m) THEN m.v ELSE b.bids
  <2>1. CASE Applies(m)
    <3>1. \E a \in Int :
             books' = [books EXCEPT ![m.tok].bids = m.v, ![m.tok].age = a]
      <4>1. books' = [books EXCEPT ![m.tok].bids = m.v,
                                   ![m.tok].age = IF m.kind = "book" THEN @ ELSE 0]
        BY <1>4, <2>1 DEF Read
      <4>2. [books EXCEPT ![m.tok].bids = m.v][m.tok].age = b.age /\ b.age \in Int
        BY <1>5, <1>6, <1>7 DEF Book
      <4>3. CASE m.kind = "book"
        BY <4>1, <4>2, <4>3
      <4>4. CASE m.kind # "book"
        <5>1. books' = [books EXCEPT ![m.tok].bids = m.v, ![m.tok].age = 0]
          BY <4>1, <4>4
        <5> WITNESS 0 \in Int
        <5> QED
          BY <5>1
      <4> QED
        BY <4>3, <4>4
    <3>2. PICK a \in Int : books' = [books EXCEPT ![m.tok].bids = m.v, ![m.tok].age = a]
      BY <3>1
    <3>3. books' = [books EXCEPT ![m.tok] = [[b EXCEPT !.bids = m.v] EXCEPT !.age = a]]
      BY <1>5, <1>6, <1>7, <3>2
    <3> DEFINE c == WithBids(b, m.v, a)
    <3>4. /\ c \in Book /\ c.bids = m.v
          /\ c.known = b.known /\ c.ready = b.ready /\ c.asks = b.asks
      BY <1>5, BidsSet, Zenon
    <3>6. books' = [books EXCEPT ![m.tok] = c]
      BY <3>3 DEF WithBids
    <3> HIDE DEF c
    <3>5. c.bids = IF Applies(m) THEN m.v ELSE b.bids
      BY <2>1, <3>4
    <3> QED
      BY <3>4, <3>5, <3>6, Zenon
  <2>2. CASE ~Applies(m) /\ m.kind = "tick_size_change"
    <3>1. books' = [books EXCEPT ![m.tok].age = 0]
      BY <1>4, <2>2 DEF Read
    <3>2. books' = [books EXCEPT ![m.tok] = [b EXCEPT !.age = 0]]
      BY <1>5, <1>6, <1>7, <3>1
    <3> DEFINE c == WithAge(b, 0)
    <3>3. /\ c \in Book /\ c.bids = b.bids
          /\ c.known = b.known /\ c.ready = b.ready /\ c.asks = b.asks
      BY AgeSet
    <3>5. books' = [books EXCEPT ![m.tok] = c]
      BY <3>2 DEF WithAge
    <3> HIDE DEF c
    <3>4. c.bids = IF Applies(m) THEN m.v ELSE b.bids
      BY <2>2, <3>3
    <3> QED
      BY <3>3, <3>4, <3>5, Zenon
  <2>3. CASE ~Applies(m) /\ m.kind # "tick_size_change"
    <3>1. books' = books
      BY <1>4, <2>3 DEF Read
    <3>2. books' = [books EXCEPT ![m.tok] = b]
      BY <1>5, <1>6, <1>7, <3>1
    <3> QED
      BY <2>3, <3>2
  <2> QED
    BY <2>1, <2>2, <2>3
<1>10. PICK n \in Book : /\ books' = [books EXCEPT ![m.tok] = n]
                         /\ n.known = b.known /\ n.ready = b.ready /\ n.asks = b.asks
                         /\ n.bids = IF Applies(m) THEN m.v ELSE b.bids
  BY <1>9
<1>11. books' \in [Tokens -> Book]
  BY <1>6, <1>10
<1>12. books'[m.tok] = n /\ \A t \in Tokens : t # m.tok => books'[t] = books[t]
  BY <1>5, <1>6, <1>10
<1>13. \A t \in Tokens : books'[t].known = books[t].known /\ books'[t].ready = books[t].ready
                         /\ books'[t].asks = books[t].asks
  BY <1>7, <1>10, <1>12
<1>14. Known' = Known
  BY <1>13 DEF Known
<1>15. books'[m.tok].bids = IF Applies(m) THEN m.v ELSE books[m.tok].bids
  BY <1>7, <1>10, <1>12
<1> QED
  BY <1>2, <1>3, <1>4, <1>11, <1>12, <1>13, <1>14, <1>15

LEMMA AsksBooks ==
    ASSUME Shape, ApplyAsks
    PROVE  /\ half \in Msg /\ half.tok \in Known
           /\ books' \in [Tokens -> Book] /\ Known' = Known
           /\ \A t \in Tokens : /\ books'[t].bids = books[t].bids
                                /\ t # half.tok => books'[t] = books[t]
           /\ books'[half.tok].ready /\ books'[half.tok].asks = half.v
<1>1. half \in Msg /\ half.tok \in Known /\ half.tok \in Tokens /\ half.v \in Int
  BY DEF Shape, ApplyAsks, Known, Msg
<1>2. books \in [Tokens -> Book]
  BY DEF Shape
<1>3. PICK b \in Book : b = books[half.tok]
  BY <1>1, <1>2
<1> DEFINE n == WithAsks(b, half.v, 0)
<1>5. n \in Book /\ n.known = b.known /\ n.bids = b.bids /\ n.ready /\ n.asks = half.v
  <2>1. 0 \in Int
    OBVIOUS
  <2> QED
    BY <1>1, <2>1, AsksSet, Zenon
<1>7. books' = [books EXCEPT ![half.tok] = n]
  <2>1. books' = [books EXCEPT ![half.tok].asks = half.v, ![half.tok].ready = TRUE,
                               ![half.tok].age = 0]
    BY DEF ApplyAsks
  <2>2. [books EXCEPT ![half.tok].asks = half.v, ![half.tok].ready = TRUE, ![half.tok].age = 0]
        = [books EXCEPT ![half.tok]
              = [[[b EXCEPT !.asks = half.v] EXCEPT !.ready = TRUE] EXCEPT !.age = 0]]
    BY <1>1, <1>2, <1>3
  <2> QED
    BY <2>1, <2>2 DEF WithAsks
<1> HIDE DEF n
<1>9. books' \in [Tokens -> Book]
  BY <1>2, <1>5, <1>7
<1>10. books'[half.tok] = n /\ \A t \in Tokens : t # half.tok => books'[t] = books[t]
  BY <1>1, <1>2, <1>7
<1>11. \A t \in Tokens : books'[t].known = books[t].known /\ books'[t].bids = books[t].bids
  BY <1>3, <1>5, <1>10
<1>12. Known' = Known
  BY <1>11 DEF Known
<1> QED
  BY <1>1, <1>5, <1>9, <1>10, <1>11, <1>12

\* The steps other than those of the venue, the connection and the messages leave the
\* feed itself alone.
Quiet ==
    /\ UNCHANGED <<truth, pipe, served, broken, choked, half>>
    /\ ws' = "applying" <=> ws = "applying"
    /\ SameLevels

LEMMA SubscribeShape ==
    ASSUME Shape, NEW toks \in SUBSET Known, Subscribe(toks)
    PROVE  /\ pipe' \in Seq(Msg) /\ served' = served \cup toks
           /\ \A i \in DOMAIN pipe' : pipe'[i].tok \in served'
<1>0. PICK lost \in SUBSET toks : pipe' = pipe \o Baseline(toks \ lost)
  BY DEF Subscribe
<1>1. toks \ lost \in SUBSET Tokens /\ truth \in [Tokens -> Int] /\ pipe \in Seq(Msg)
  BY DEF Known, Shape
<1> DEFINE base == Baseline(toks \ lost)
<1>2. base \in Seq(Msg) /\ \A i \in DOMAIN base : base[i].tok \in toks
  BY <1>1, BaselineShape
<1>3. pipe' = pipe \o base /\ served' = served \cup toks
  BY <1>0 DEF Subscribe
<1> HIDE DEF base
<1>4. pipe' \in Seq(Msg)
  BY <1>1, <1>2, <1>3
<1>5. ASSUME NEW i \in DOMAIN pipe' PROVE pipe'[i].tok \in served'
  <2>1. i \in 1 .. Len(pipe) + Len(base)
    BY <1>1, <1>2, <1>3
  <2>2. CASE i <= Len(pipe)
    <3>1. i \in DOMAIN pipe /\ pipe'[i] = pipe[i]
      BY <1>1, <1>2, <1>3, <2>1, <2>2
    <3> QED
      BY <1>3, <3>1 DEF Shape
  <2>3. CASE i > Len(pipe)
    <3>1. i - Len(pipe) \in DOMAIN base /\ pipe'[i] = base[i - Len(pipe)]
      BY <1>1, <1>2, <1>3, <2>1, <2>3
    <3> QED
      BY <1>2, <1>3, <3>1
  <2> QED
    BY <1>1, <2>1, <2>2, <2>3
<1> QED
  BY <1>3, <1>4, <1>5

LEMMA ShapeStep ==
    ASSUME Shape, Next
    PROVE  Shape'
<1> USE DEF Shape
<1>1. CASE VenueMoves
  <2>1. PICK t \in Tokens, kind \in {"book", "price_change"} :
           /\ truth' = [truth EXCEPT ![t] = @ + 1]
           /\ (t \in served /\ pipe' = Append(pipe, Sent(kind, t))) \/ pipe' = pipe
    BY <1>1 DEF VenueMoves, Tell, Swallow
  <2>2. truth' \in [Tokens -> Int]
    BY <2>1
  <2>3. UNCHANGED <<listed, served, broken, ws, half, books, ids>>
    BY <1>1 DEF VenueMoves, thread, cycle
  <2>4. pipe' \in Seq(Msg) /\ \A i \in DOMAIN pipe' : pipe'[i].tok \in served
    <3>1. CASE t \in served /\ pipe' = Append(pipe, Sent(kind, t))
      <4> DEFINE m == Sent(kind, t)
      <4>1. m \in Msg /\ m.tok = t
        BY <2>2 DEF Msg, Kinds, Sent, Off
      <4> HIDE DEF m
      <4> QED
        BY <3>1, <4>1 DEF m
    <3>2. CASE pipe' = pipe
      BY <3>2
    <3> QED
      BY <2>1, <3>1, <3>2
  <2>5. Known' = Known
    BY <2>3 DEF Known
  <2> QED
    BY <2>2, <2>3, <2>4, <2>5
<1>2. CASE TickChanges
  <2>1. PICK t \in served :
           pipe' = Append(pipe, [tok |-> t, kind |-> "tick_size_change", v |-> 0])
    BY <1>2 DEF TickChanges
  <2> DEFINE m == [tok |-> t, kind |-> "tick_size_change", v |-> 0]
  <2>2. m \in Msg /\ m.tok = t
    BY DEF Msg, Kinds, Known
  <2>3. UNCHANGED <<truth, listed, served, broken, ws, half, books, ids>>
    BY <1>2 DEF TickChanges, venue, thread, cycle
  <2>4. Known' = Known
    BY <2>3 DEF Known
  <2>5. pipe' = Append(pipe, m)
    BY <2>1
  <2> HIDE DEF m
  <2>6. pipe' \in Seq(Msg) /\ \A i \in DOMAIN pipe' : pipe'[i].tok \in served
    BY <2>2, <2>5
  <2> QED
    BY <2>3, <2>4, <2>6
<1>3. CASE Breaks
  <2>1. PICK n \in 0 .. Len(pipe) : pipe' = SubSeq(pipe, 1, n)
    BY <1>3 DEF Breaks
  <2>2. pipe' \in Seq(Msg) /\ \A i \in DOMAIN pipe' : i \in DOMAIN pipe /\ pipe'[i] = pipe[i]
    BY <2>1
  <2>3. UNCHANGED <<truth, listed, served, ws, half, books, ids>> /\ broken' \in BOOLEAN
    BY <1>3 DEF Breaks, venue, thread, cycle
  <2>4. Known' = Known
    BY <2>3 DEF Known
  <2> QED
    BY <2>2, <2>3, <2>4
<1>4. CASE RulesGrow
  <2>1. UNCHANGED <<truth, pipe, served, broken, ws, half, books, ids>> /\ listed' = Tokens
    BY <1>4 DEF RulesGrow, link, thread, cycle
  <2>2. Known' = Known
    BY <2>1 DEF Known
  <2> QED
    BY <2>1, <2>2, FeedAssumption
<1>5. CASE Tick
  <2>1. UNCHANGED <<truth, listed, pipe, served, broken, ws, half, ids>>
    BY <1>5 DEF Tick, venue, link, cycle
  <2> QED
    BY <1>5, <2>1, TickBooks
<1>6. CASE Dial \/ Fault
  <2>1. UNCHANGED <<truth, listed, books, ids, half>> /\ broken' \in BOOLEAN /\ pipe' = <<>>
        /\ served' = {} /\ ws' # "applying"
    BY <1>6 DEF Dial, Fault, venue, cycle
  <2>2. Known' = Known
    BY <2>1 DEF Known
  <2> QED
    BY <2>1, <2>2
<1>7. CASE DialFails \/ Retry \/ SleepRaises
  <2>1. UNCHANGED <<truth, listed, pipe, served, broken, books, ids, half>> /\ ws' # "applying"
    BY <1>7 DEF DialFails, Retry, SleepRaises, venue, link, cycle
  <2>2. Known' = Known
    BY <2>1 DEF Known
  <2> QED
    BY <2>1, <2>2
<1>8. CASE SubscribeAll
  <2>1. UNCHANGED <<truth, listed, broken, books, ids, half>> /\ ws' # "applying"
        /\ (UNCHANGED <<pipe, served>> \/ Subscribe(ids))
    BY <1>8 DEF SubscribeAll, venue, cycle
  <2>2. Known' = Known
    BY <2>1 DEF Known
  <2>3. /\ pipe' \in Seq(Msg) /\ served' \subseteq Known
        /\ \A i \in DOMAIN pipe' : pipe'[i].tok \in served'
    <3>1. CASE UNCHANGED <<pipe, served>>
      BY <3>1
    <3>2. CASE Subscribe(ids)
      BY <3>2, SubscribeShape
    <3> QED
      BY <2>1, <3>1, <3>2
  <2> QED
    BY <2>1, <2>2, <2>3
<1>9. CASE Resubscribe
  <2>1. UNCHANGED <<truth, listed, broken, ws, books, half>> /\ ids' = Known
        /\ (UNCHANGED <<pipe, served>> \/ Subscribe(Known))
    BY <1>9 DEF Resubscribe, venue, thread
  <2>2. Known' = Known
    BY <2>1 DEF Known
  <2>3. /\ pipe' \in Seq(Msg) /\ served' \subseteq Known
        /\ \A i \in DOMAIN pipe' : pipe'[i].tok \in served'
    <3>1. CASE UNCHANGED <<pipe, served>>
      BY <3>1
    <3>2. CASE Subscribe(Known)
      BY <3>2, SubscribeShape
    <3> QED
      BY <2>1, <3>1, <3>2
  <2> QED
    BY <2>1, <2>2, <2>3
<1>10. CASE Read
  <2>1. UNCHANGED <<truth, listed, served, broken, ids>> /\ pipe # <<>> /\ pipe' = Tail(pipe)
    BY <1>10 DEF Read, venue, cycle
  <2>2. /\ Head(pipe) \in Msg /\ Head(pipe).tok \in Known
        /\ books' \in [Tokens -> Book] /\ Known' = Known
    BY <1>10, ReadBooks
  <2>3. pipe' \in Seq(Msg) /\ \A i \in DOMAIN pipe' : i + 1 \in DOMAIN pipe
                                                     /\ pipe'[i] = pipe[i + 1]
    BY <2>1
  <2>4. ws' = "applying" => half' = Head(pipe)
    BY <1>10 DEF Read
  <2> QED
    BY <2>1, <2>2, <2>3, <2>4
<1>11. CASE ApplyAsks
  <2>1. UNCHANGED <<truth, listed, pipe, served, broken, ids>> /\ ws' # "applying"
    BY <1>11 DEF ApplyAsks, venue, link, cycle
  <2> QED
    BY <1>11, <2>1, AsksBooks
<1>12. CASE Poll \/ refresh_books \/ PumpBids \/ PumpAsks \/ PumpRaises \/ PumpEnds
  <2>1. UNCHANGED <<truth, listed, pipe, served, broken, ws, books, ids, half>>
    BY <1>12 DEF Poll, Ask, NoPoll, refresh_books, PumpBids, PumpAsks, PumpRaises, PumpEnds,
                 venue, link, thread
  <2>2. Known' = Known
    BY <2>1 DEF Known
  <2> QED
    BY <2>1, <2>2
<1>13. CASE Grow
  <2>1. UNCHANGED <<truth, listed, pipe, served, broken, ws, ids, half>>
    BY <1>13 DEF Grow, venue, link
  <2> QED
    BY <1>13, <2>1, GrowBooks
<1> QED
  BY <1>1, <1>2, <1>3, <1>4, <1>5, <1>6, <1>7, <1>8, <1>9, <1>10, <1>11, <1>12, <1>13
     DEF Next, Environment, Connect, Cycle

LEMMA ShapeStutter ==
    ASSUME Shape, UNCHANGED vars
    PROVE  Shape'
  BY DEF Shape, Known, vars, venue, link, thread, cycle

\* Whether the websocket thread or the cycle comes first, no token falls between the
\* subscription of a dial and the one of a widening.
LEMMA SubscribedStep ==
    ASSUME Shape, Subscribed, [Next]_vars
    PROVE  Subscribed'
<1> USE DEF Subscribed
<1>1. CASE VenueMoves \/ TickChanges \/ Breaks \/ RulesGrow \/ refresh_books \/ Poll
           \/ PumpBids \/ PumpAsks \/ PumpRaises \/ PumpEnds
  <2>1. /\ UNCHANGED <<served, ws, books, ids>> /\ (broken => broken')
        /\ main' = "send" <=> main = "send"
    BY <1>1 DEF VenueMoves, TickChanges, Breaks, RulesGrow, Poll, Ask, NoPoll, refresh_books,
                PumpBids, PumpAsks, PumpRaises, PumpEnds, venue, link, thread, cycle
  <2>2. Known' = Known
    BY <2>1 DEF Known
  <2> QED
    BY <2>1, <2>2
<1>2. CASE Tick
  <2>1. UNCHANGED <<served, broken, ws, ids, main>>
    BY <1>2 DEF Tick, link, cycle
  <2> QED
    BY <1>2, <2>1, TickBooks
<1>3. CASE Dial \/ Fault \/ DialFails \/ Retry \/ SleepRaises
  <2>1. UNCHANGED <<books, ids, main>> /\ ws' \notin {"reading", "applying"}
    BY <1>3 DEF Dial, Fault, DialFails, Retry, SleepRaises, cycle
  <2>2. Known' = Known
    BY <2>1 DEF Known
  <2> QED
    BY <2>1, <2>2
<1>4. CASE SubscribeAll
  <2>1. UNCHANGED <<books, ids, main, broken>>
        /\ (ws' = "backoff" \/ served' = served \cup ids)
    BY <1>4 DEF SubscribeAll, Subscribe, cycle
  <2>2. Known' = Known
    BY <2>1 DEF Known
  <2> QED
    BY <2>1, <2>2
<1>5. CASE Read \/ ApplyAsks
  <2>1. UNCHANGED <<served, broken, ids, main>> /\ ws \in {"reading", "applying"}
    BY <1>5 DEF Read, ApplyAsks, link, cycle
  <2>2. Known' = Known
    BY <1>5, ReadBooks, AsksBooks
  <2> QED
    BY <2>1, <2>2
<1>6. CASE Grow
  <2>1. /\ UNCHANGED <<served, broken, ws, ids>> /\ main = "grow"
        /\ main' = IF listed \subseteq Known THEN "pump" ELSE "send"
    BY <1>6 DEF Grow, link
  <2>2. Known' = Known \cup listed
    BY <1>6, GrowBooks
  <2> QED
    BY <2>1, <2>2
<1>7. CASE Resubscribe
  <2>1. UNCHANGED <<books, broken, ws>> /\ ids' = Known /\ main' = "pump"
    BY <1>7 DEF Resubscribe, thread
  <2>2. Known' = Known
    BY <2>1 DEF Known
  <2>3. ws \in {"reading", "applying"} /\ ~broken => served' = served \cup Known
    BY <1>7 DEF Resubscribe, HasSocket, Subscribe
  <2> QED
    BY <2>1, <2>2, <2>3
<1>8. CASE UNCHANGED vars
  BY <1>8 DEF vars, link, thread, cycle, Known
<1> QED
  BY <1>1, <1>2, <1>3, <1>4, <1>5, <1>6, <1>7, <1>8 DEF Next, Environment, Connect, Cycle

-----------------------------------------------------------------------------
(* The feed step by step *)

LEMMA QuietKeeps ==
    ASSUME Shape, FeedInv, Quiet
    PROVE  FeedInv'
<1>1. /\ UNCHANGED <<truth, pipe, served, broken, choked, half>>
      /\ ws' = "applying" <=> ws = "applying"
      /\ SameLevels
  BY DEF Quiet
<1>2. served \subseteq Known /\ (ws = "applying" => half.tok \in Known)
  BY DEF Shape
<1>3. ws' = "applying" => books'[half'.tok].bids = half'.v
  BY <1>1, <1>2 DEF FeedInv, SameLevels
<1>4. ASSUME ~broken', NEW t \in (served \ choked)' PROVE Follows(t)'
  <2>1. t \in served /\ ~broken /\ Follows(t)
    BY <1>1, <1>4 DEF FeedInv
  <2>2. books'[t].ready = books[t].ready /\ books'[t].bids = books[t].bids
        /\ books'[t].asks = books[t].asks
    BY <1>1, <1>2, <2>1 DEF SameLevels
  <2>3. Halved(t)' <=> Halved(t)
    BY <1>1 DEF Halved
  <2>4. LastIsTruth(t)'
    BY <1>1, <2>1 DEF Follows, LastIsTruth, Changes
  <2>5. BaselineFirst(t)'
    BY <1>1, <2>1, <2>2, <2>3 DEF Follows, BaselineFirst
  <2>6. Followed(t)'
    BY <1>1, <2>1, <2>2, <2>3 DEF Follows, Followed, Changes
  <2> QED
    BY <2>4, <2>5, <2>6 DEF Follows
<1> QED
  BY <1>3, <1>4 DEF FeedInv

\* A message is added at the end: the venue's own, after its move or after a tick change.
LEMMA SentFollows ==
    ASSUME Shape, NEW t \in served, Follows(t), NEW m \in Msg, pipe' = Append(pipe, m),
           UNCHANGED <<ws, half, books>>,
           m.tok # t => truth'[t] = truth[t],
           Changes(m, t) => m.v = truth'[t],
           ~Changes(m, t) => truth'[t] = truth[t]
    PROVE  Follows(t)'
<1>1. pipe \in Seq(Msg)
  BY DEF Shape
<1> DEFINE n == Len(pipe)
<1>2. n \in Nat /\ DOMAIN pipe = 1 .. n /\ DOMAIN pipe' = 1 .. n + 1
      /\ pipe'[n + 1] = m /\ \A i \in 1 .. n : pipe'[i] = pipe[i]
  BY <1>1
<1> HIDE DEF n
<1>3. LastIsTruth(t) /\ BaselineFirst(t) /\ Followed(t)
  BY DEF Follows
<1>4. Halved(t)' <=> Halved(t)
  BY DEF Halved
<1>5. LastIsTruth(t)'
  <2> SUFFICES ASSUME NEW i \in DOMAIN pipe', Changes(pipe'[i], t),
                      \A j \in DOMAIN pipe' : j > i => ~Changes(pipe'[j], t)
               PROVE  pipe'[i].v = truth'[t]
    BY DEF LastIsTruth, Changes
  <2>1. CASE i = n + 1
    BY <1>2, <2>1
  <2>2. CASE i # n + 1
    <3>1. i \in 1 .. n /\ n + 1 > i /\ n + 1 \in DOMAIN pipe'
      BY <1>2, <2>2
    <3>2. ~Changes(m, t)
      BY <1>2, <3>1
    <3>3. Changes(pipe[i], t) /\ \A j \in DOMAIN pipe : j > i => ~Changes(pipe[j], t)
      BY <1>2, <3>1
    <3> QED
      BY <1>2, <1>3, <3>1, <3>2, <3>3 DEF LastIsTruth
  <2> QED
    BY <2>1, <2>2
<1>6. BaselineFirst(t)'
  BY <1>2, <1>3, <1>4 DEF BaselineFirst
<1>7. Followed(t)'
  <2> SUFFICES ASSUME \A i \in DOMAIN pipe' : ~Changes(pipe'[i], t)
               PROVE  IF Halved(t) THEN half.v = truth'[t]
                      ELSE /\ books[t].ready
                           /\ books[t].bids = truth'[t] /\ books[t].asks = truth'[t]
    BY <1>4 DEF Followed, Changes
  <2>1. ~Changes(m, t)
    BY <1>2
  <2>2. \A i \in DOMAIN pipe : ~Changes(pipe[i], t)
    BY <1>2
  <2> QED
    BY <1>3, <2>1, <2>2 DEF Followed
<1> QED
  BY <1>5, <1>6, <1>7 DEF Follows

\* A book is sent to a token whatever was swallowed before it.
LEMMA MendedFollows ==
    ASSUME Shape, NEW t \in Tokens, NEW m \in Msg, pipe' = Append(pipe, m),
           m.tok = t, m.kind = "book", m.v = truth'[t], UNCHANGED <<ws, half, books>>
    PROVE  Follows(t)'
<1>1. pipe \in Seq(Msg)
  BY DEF Shape
<1> DEFINE n == Len(pipe)
<1>2. n \in Nat /\ DOMAIN pipe' = 1 .. n + 1 /\ n + 1 \in DOMAIN pipe' /\ pipe'[n + 1] = m
  BY <1>1
<1> HIDE DEF n
<1>3. Changes(pipe'[n + 1], t)
  BY <1>2 DEF Changes
<1>4. LastIsTruth(t)'
  <2> SUFFICES ASSUME NEW i \in DOMAIN pipe', Changes(pipe'[i], t),
                      \A j \in DOMAIN pipe' : j > i => ~Changes(pipe'[j], t)
               PROVE  pipe'[i].v = truth'[t]
    BY DEF LastIsTruth, Changes
  <2>1. i = n + 1
    BY <1>2, <1>3
  <2> QED
    BY <1>2, <2>1
<1>5. BaselineFirst(t)'
  BY <1>2 DEF BaselineFirst
<1>6. Followed(t)'
  BY <1>2, <1>3 DEF Followed, Changes
<1> QED
  BY <1>4, <1>5, <1>6 DEF Follows

\* A subscription: the tokens it names get their books after whatever was on its way,
\* unless theirs is swallowed; a token that loses its book and has not been served before
\* is choked, and one that has been goes on as it was.
LEMMA SubscribeFollows ==
    ASSUME Shape, NEW toks \in SUBSET Known, Subscribe(toks), ~broken, FeedInv,
           UNCHANGED <<truth, half, books>>, ws' = "applying" <=> ws = "applying",
           NEW t \in (served \ choked)'
    PROVE  Follows(t)'
<1>0. PICK lost \in SUBSET toks : /\ pipe' = pipe \o Baseline(toks \ lost)
                                  /\ choked' = (choked \ (toks \ lost)) \cup (lost \ served)
  BY DEF Subscribe
<1> DEFINE told == toks \ lost
<1>1. told \in SUBSET Tokens /\ truth \in [Tokens -> Int] /\ pipe \in Seq(Msg)
  BY DEF Known, Shape
<1>9. t \notin told => t \in served \ choked
  BY <1>0 DEF Subscribe
<1> DEFINE base == Baseline(told)
           n == Len(pipe)
           k == Len(base)
<1>2. /\ base \in Seq(Msg)
      /\ \A i \in DOMAIN base : /\ base[i].tok \in told /\ base[i].kind = "book"
                                /\ base[i].v = truth[base[i].tok]
      /\ \A u \in told : \E i \in DOMAIN base : base[i].tok = u
  BY <1>1, BaselineShape
<1>3. pipe' = pipe \o base
  BY <1>0
<1> HIDE DEF base, told
<1>4. /\ n \in Nat /\ k \in Nat /\ DOMAIN pipe = 1 .. n /\ DOMAIN base = 1 .. k
      /\ DOMAIN pipe' = 1 .. n + k
      /\ \A i \in 1 .. n : pipe'[i] = pipe[i]
      /\ \A i \in 1 .. k : pipe'[n + i] = base[i]
  BY <1>1, <1>2, <1>3
<1> HIDE DEF n, k
<1>5. \A i \in 1 .. n + k : i \notin 1 .. n => i - n \in 1 .. k /\ pipe'[i] = base[i - n]
  <2>1. \A i \in 1 .. n + k : i \notin 1 .. n => i - n \in 1 .. k /\ n + (i - n) = i
    BY <1>4
  <2> QED
    BY <1>4, <2>1
<1>6. Halved(t)' <=> Halved(t)
  BY DEF Halved
<1>7. ASSUME t \in told PROVE Follows(t)'
  <2>1. PICK b \in 1 .. k : base[b].tok = t
    BY <1>2, <1>4, <1>7
  <2>2. n + b \in DOMAIN pipe' /\ Changes(pipe'[n + b], t)
    <3>1. n + b \in 1 .. n + k
      BY <1>4
    <3>2. base[b].kind # "tick_size_change"
      BY <1>2, <1>4
    <3> QED
      BY <1>4, <2>1, <3>1, <3>2 DEF Changes
  <2>3. LastIsTruth(t)'
    <3> SUFFICES ASSUME NEW i \in DOMAIN pipe', Changes(pipe'[i], t),
                        \A j \in DOMAIN pipe' : j > i => ~Changes(pipe'[j], t)
                 PROVE  pipe'[i].v = truth[t]
      BY DEF LastIsTruth, Changes
    <3>1. i \in 1 .. n + k /\ i \notin 1 .. n
      BY <1>4, <2>2
    <3>2. i - n \in 1 .. k /\ pipe'[i] = base[i - n]
      BY <1>5, <3>1
    <3> QED
      BY <1>2, <1>4, <3>2 DEF Changes
  <2>4. BaselineFirst(t)'
    <3>0. b \in DOMAIN base /\ pipe'[n + b] = base[b]
      BY <1>4
    <3>1. pipe'[n + b].tok = t /\ pipe'[n + b].kind = "book"
      BY <1>2, <2>1, <3>0
    <3>2. \E j \in DOMAIN pipe' : pipe'[j].tok = t /\ pipe'[j].kind = "book"
      BY <2>2, <3>1, Zenon
    <3> QED
      BY <3>2 DEF BaselineFirst
  <2>5. Followed(t)'
    BY <2>2 DEF Followed, Changes
  <2> QED
    BY <2>3, <2>4, <2>5 DEF Follows
<1>8. ASSUME t \notin told PROVE Follows(t)'
  <2>1. t \in served /\ LastIsTruth(t) /\ BaselineFirst(t) /\ Followed(t)
    BY <1>9, <1>8 DEF FeedInv, Follows
  <2>2. \A i \in 1 .. n + k : Changes(pipe'[i], t) => i \in 1 .. n
    <3> SUFFICES ASSUME NEW i \in 1 .. n + k, Changes(pipe'[i], t), i \notin 1 .. n
                 PROVE  FALSE
      OBVIOUS
    <3>1. i - n \in DOMAIN base /\ pipe'[i] = base[i - n]
      BY <1>4, <1>5
    <3>2. base[i - n].tok \in told
      BY <1>2, <3>1
    <3> QED
      BY <1>8, <3>1, <3>2 DEF Changes
  <2>3. LastIsTruth(t)'
    <3> SUFFICES ASSUME NEW i \in DOMAIN pipe', Changes(pipe'[i], t),
                        \A j \in DOMAIN pipe' : j > i => ~Changes(pipe'[j], t)
                 PROVE  pipe'[i].v = truth[t]
      BY DEF LastIsTruth, Changes
    <3>1. i \in 1 .. n
      BY <1>4, <2>2
    <3>2. Changes(pipe[i], t) /\ \A j \in DOMAIN pipe : j > i => ~Changes(pipe[j], t)
      <4>1. \A j \in 1 .. n : j \in DOMAIN pipe'
        BY <1>4
      <4> QED
        BY <1>4, <3>1, <4>1
    <3> QED
      BY <1>4, <2>1, <3>1, <3>2 DEF LastIsTruth
  <2>4. BaselineFirst(t)'
    <3>1. \A j \in 1 .. n : j \in DOMAIN pipe'
      BY <1>4
    <3> QED
      BY <1>4, <1>6, <2>1, <3>1 DEF BaselineFirst
  <2>5. Followed(t)'
    <3> SUFFICES ASSUME \A i \in DOMAIN pipe' : ~Changes(pipe'[i], t)
                 PROVE  IF Halved(t) THEN half.v = truth[t]
                        ELSE /\ books[t].ready
                             /\ books[t].bids = truth[t] /\ books[t].asks = truth[t]
      BY <1>6 DEF Followed, Changes
    <3>1. \A i \in DOMAIN pipe : ~Changes(pipe[i], t)
      <4>1. \A j \in 1 .. n : j \in DOMAIN pipe'
        BY <1>4
      <4> QED
        BY <1>4, <4>1
    <3> QED
      BY <2>1, <3>1 DEF Followed
  <2> QED
    BY <2>3, <2>4, <2>5 DEF Follows
<1> QED
  BY <1>7, <1>8

LEMMA VenueKeeps ==
    ASSUME Shape, FeedInv, VenueMoves
    PROVE  FeedInv'
<1>1. PICK u \in Tokens, kind \in {"book", "price_change"} :
         /\ truth' = [truth EXCEPT ![u] = @ + 1]
         /\ IF u \in served /\ ~broken THEN Tell(kind, u) \/ Swallow(u)
            ELSE UNCHANGED <<pipe, choked>>
  BY DEF VenueMoves
<1>2. UNCHANGED <<served, broken, ws, half, books>>
  BY DEF VenueMoves, thread
<1>3. truth' \in [Tokens -> Int] /\ \A t \in Tokens : t # u => truth'[t] = truth[t]
  BY <1>1 DEF Shape
<1> DEFINE m == Sent(kind, u)
<1>4. /\ m \in Msg /\ m.tok = u /\ m.kind = kind /\ kind # "tick_size_change"
      /\ kind = "book" \/ u \notin choked => m.v = truth'[u]
  BY <1>3 DEF Msg, Kinds, Sent, Off
<1>5. Tell(kind, u) => /\ pipe' = Append(pipe, m)
                       /\ choked' = IF kind = "book" THEN choked \ {u} ELSE choked
  BY DEF Tell
<1> HIDE DEF m
<1>6. ASSUME ~broken', NEW t \in (served \ choked)' PROVE Follows(t)'
  <2>1. t \in served /\ ~broken /\ t \in Tokens /\ (t \notin choked => Follows(t))
    BY <1>2, <1>6 DEF FeedInv, Shape, Known
  <2>2. CASE u \in served /\ Tell(kind, u)
    <3>1. CASE t \in choked
      <4>1. t = u /\ kind = "book"
        BY <1>5, <1>6, <2>2, <3>1
      <4> QED
        BY <1>2, <1>4, <1>5, <2>1, <2>2, <4>1, MendedFollows
    <3>2. CASE t \notin choked
      <4>1. Changes(m, t) => m.v = truth'[t]
        BY <1>4, <3>2 DEF Changes
      <4>2. ~Changes(m, t) => truth'[t] = truth[t]
        BY <1>3, <1>4, <2>1 DEF Changes
      <4>3. m.tok # t => truth'[t] = truth[t]
        BY <1>3, <1>4, <2>1
      <4> QED
        BY <1>2, <1>4, <1>5, <2>1, <2>2, <3>2, <4>1, <4>2, <4>3, SentFollows
    <3> QED
      BY <3>1, <3>2
  <2>3. CASE u \notin served \/ Swallow(u)
    <3>1. pipe' = pipe /\ t # u /\ t \notin choked
      BY <1>1, <1>6, <2>1, <2>3 DEF Swallow
    <3>2. truth'[t] = truth[t]
      BY <1>3, <2>1, <3>1
    <3> QED
      BY <1>2, <2>1, <3>1, <3>2 DEF Follows, LastIsTruth, BaselineFirst, Followed, Halved, Changes
  <2> QED
    BY <1>1, <2>1, <2>2, <2>3
<1> QED
  BY <1>2, <1>6 DEF FeedInv

LEMMA TickKeeps ==
    ASSUME Shape, FeedInv, TickChanges
    PROVE  FeedInv'
<1>1. PICK u \in served :
         pipe' = Append(pipe, [tok |-> u, kind |-> "tick_size_change", v |-> 0])
  BY DEF TickChanges
<1> DEFINE m == [tok |-> u, kind |-> "tick_size_change", v |-> 0]
<1>2. m \in Msg /\ m.kind = "tick_size_change"
  BY DEF Msg, Kinds, Shape, Known
<1>3. pipe' = Append(pipe, m)
  BY <1>1
<1> HIDE DEF m
<1>4. UNCHANGED <<truth, served, broken, choked, ws, half, books>>
  BY DEF TickChanges, venue, thread
<1>5. ASSUME ~broken', NEW t \in (served \ choked)' PROVE Follows(t)'
  <2>1. t \in served /\ Follows(t) /\ ~Changes(m, t) /\ truth'[t] = truth[t]
    BY <1>2, <1>4, <1>5 DEF FeedInv, Changes
  <2> QED
    BY <1>2, <1>3, <1>4, <2>1, SentFollows
<1> QED
  BY <1>4, <1>5 DEF FeedInv

\* A message read leaves the pipe; one that applies becomes the half-applied one.
LEMMA ReadKeeps ==
    ASSUME Shape, FeedInv, Read
    PROVE  FeedInv'
<1>1. pipe \in Seq(Msg) /\ pipe # <<>> /\ pipe' = Tail(pipe) /\ ws = "reading"
      /\ UNCHANGED <<truth, served, broken, choked>>
  BY DEF Read, Shape, venue
<1> DEFINE m == Head(pipe)
           n == Len(pipe)
<1>2. /\ m \in Msg /\ m = pipe[1] /\ m.tok \in Known
      /\ \A t \in Tokens : /\ books'[t].ready = books[t].ready
                           /\ books'[t].asks = books[t].asks
                           /\ t # m.tok => books'[t] = books[t]
      /\ books'[m.tok].bids = IF Applies(m) THEN m.v ELSE books[m.tok].bids
  BY ReadBooks
<1>3. /\ Applies(m) => ws' = "applying" /\ half' = m
      /\ ~Applies(m) => ws' = "reading"
  BY <1>1 DEF Read
<1> HIDE DEF m
<1>4. /\ n \in Nat /\ n >= 1 /\ DOMAIN pipe = 1 .. n /\ DOMAIN pipe' = 1 .. n - 1
      /\ \A i \in 1 .. n - 1 : i + 1 \in 1 .. n /\ pipe'[i] = pipe[i + 1]
  BY <1>1
<1> HIDE DEF n
<1>5. \A i \in 1 .. n : i # 1 => i - 1 \in 1 .. n - 1 /\ pipe'[i - 1] = pipe[i]
  <2>1. \A i \in 1 .. n : i # 1 => i - 1 \in 1 .. n - 1 /\ (i - 1) + 1 = i
    BY <1>4
  <2> QED
    BY <1>4, <2>1
<1>6. ws' = "applying" => books'[half'.tok].bids = half'.v
  BY <1>2, <1>3
<1>7. ASSUME ~broken', NEW t \in (served \ choked)' PROVE Follows(t)'
  <2>1. t \in served /\ LastIsTruth(t) /\ BaselineFirst(t) /\ Followed(t) /\ ~Halved(t)
        /\ t \in Tokens
    BY <1>1, <1>7 DEF FeedInv, Follows, Halved, Shape, Known
  <2>2. Changes(m, t) /\ (\A i \in DOMAIN pipe' : ~Changes(pipe'[i], t)) => Applies(m)
    <3> SUFFICES ASSUME Changes(m, t), m.kind # "book",
                        \A i \in DOMAIN pipe' : ~Changes(pipe'[i], t)
                 PROVE  Applies(m)
      BY DEF Applies
    <3>1. m.kind = "price_change" /\ m.tok = t
      BY <1>2 DEF Changes, Msg, Kinds
    <3>2. ASSUME NEW j \in DOMAIN pipe, pipe[j].tok = t, pipe[j].kind = "book" PROVE FALSE
      <4>1. j # 1
        BY <1>2, <3>2
      <4>2. j - 1 \in DOMAIN pipe' /\ pipe'[j - 1] = pipe[j]
        BY <1>4, <1>5, <3>2, <4>1
      <4> QED
        BY <3>2, <4>2 DEF Changes
    <3> QED
      BY <2>1, <3>1, <3>2 DEF Applies, BaselineFirst
  <2>3. LastIsTruth(t)'
    <3> SUFFICES ASSUME NEW i \in DOMAIN pipe', Changes(pipe'[i], t),
                        \A j \in DOMAIN pipe' : j > i => ~Changes(pipe'[j], t)
                 PROVE  pipe'[i].v = truth[t]
      BY <1>1 DEF LastIsTruth, Changes
    <3>1. i \in 1 .. n - 1 /\ i + 1 \in DOMAIN pipe /\ Changes(pipe[i + 1], t)
          /\ pipe'[i] = pipe[i + 1]
      BY <1>4
    <3>2. ASSUME NEW j \in DOMAIN pipe, j > i + 1 PROVE ~Changes(pipe[j], t)
      <4>1. j \in 1 .. n /\ j # 1 /\ j - 1 > i
        BY <1>4, <3>1, <3>2
      <4>2. j - 1 \in DOMAIN pipe' /\ pipe'[j - 1] = pipe[j]
        BY <1>4, <1>5, <4>1
      <4> QED
        BY <4>1, <4>2
    <3> QED
      BY <2>1, <3>1, <3>2 DEF LastIsTruth
  <2>4. BaselineFirst(t)'
    <3>1. CASE books[t].ready
      BY <1>2, <2>1, <3>1 DEF BaselineFirst
    <3>2. CASE \E j \in DOMAIN pipe : pipe[j].tok = t /\ pipe[j].kind = "book"
      <4>1. PICK j \in DOMAIN pipe : pipe[j].tok = t /\ pipe[j].kind = "book"
        BY <3>2
      <4>2. CASE j = 1
        <5>1. m.tok = t /\ Applies(m)
          BY <1>2, <4>1, <4>2 DEF Applies
        <5> QED
          BY <1>3, <5>1 DEF Halved, BaselineFirst
      <4>3. CASE j # 1
        <5>1. j - 1 \in DOMAIN pipe' /\ pipe'[j - 1] = pipe[j]
          BY <1>4, <1>5, <4>1, <4>3
        <5> QED
          BY <4>1, <5>1 DEF BaselineFirst
      <4> QED
        BY <4>2, <4>3
    <3> QED
      BY <2>1, <3>1, <3>2 DEF BaselineFirst
  <2>5. Followed(t)'
    <3>1. ASSUME \A i \in DOMAIN pipe' : ~Changes(pipe'[i], t)
          PROVE  \A i \in DOMAIN pipe : i # 1 => ~Changes(pipe[i], t)
      BY <1>4, <1>5, <3>1
    <3>2. ASSUME Changes(m, t), \A i \in DOMAIN pipe' : ~Changes(pipe'[i], t)
          PROVE  Halved(t)' /\ half'.v = truth[t]
      <4>1. Halved(t)' /\ half' = m
        BY <1>3, <2>2, <3>2 DEF Halved, Changes
      <4>2. 1 \in DOMAIN pipe /\ Changes(pipe[1], t)
        BY <1>2, <1>4, <3>2
      <4>3. \A j \in DOMAIN pipe : j > 1 => ~Changes(pipe[j], t)
        BY <3>1, <3>2
      <4>4. m.v = truth[t]
        BY <1>2, <2>1, <4>2, <4>3 DEF LastIsTruth
      <4> QED
        BY <4>1, <4>4
    <3>3. ASSUME ~Changes(m, t), \A i \in DOMAIN pipe' : ~Changes(pipe'[i], t)
          PROVE  /\ ~Halved(t)'
                 /\ books'[t].ready /\ books'[t].bids = truth[t] /\ books'[t].asks = truth[t]
      <4>1. \A i \in DOMAIN pipe : ~Changes(pipe[i], t)
        BY <1>2, <3>1, <3>3
      <4>2. books[t].ready /\ books[t].bids = truth[t] /\ books[t].asks = truth[t]
        BY <2>1, <4>1 DEF Followed
      <4>3. Applies(m) => m.tok # t
        BY <3>3 DEF Applies, Changes
      <4>4. books'[t].bids = books[t].bids
        BY <1>2, <2>1, <4>3
      <4>5. ~Halved(t)'
        BY <1>3, <4>3 DEF Halved
      <4> QED
        BY <1>2, <2>1, <4>2, <4>4, <4>5
    <3> QED
      BY <1>1, <3>2, <3>3 DEF Followed, Changes
  <2> QED
    BY <2>3, <2>4, <2>5 DEF Follows
<1> QED
  BY <1>6, <1>7 DEF FeedInv

LEMMA AsksKeep ==
    ASSUME Shape, FeedInv, ApplyAsks
    PROVE  FeedInv'
<1>1. UNCHANGED <<truth, pipe, served, broken, choked>> /\ ws = "applying" /\ ws' = "reading"
  BY DEF ApplyAsks, venue, link
<1>2. /\ half \in Msg /\ half.tok \in Known
      /\ \A t \in Tokens : /\ books'[t].bids = books[t].bids
                           /\ t # half.tok => books'[t] = books[t]
      /\ books'[half.tok].ready /\ books'[half.tok].asks = half.v
  BY AsksBooks
<1>3. ASSUME ~broken', NEW t \in (served \ choked)' PROVE Follows(t)'
  <2>1. t \in served /\ LastIsTruth(t) /\ BaselineFirst(t) /\ Followed(t) /\ t \in Tokens
        /\ books[half.tok].bids = half.v
    BY <1>1, <1>3 DEF FeedInv, Follows, Shape, Known
  <2>2. ~Halved(t)' /\ (Halved(t) <=> half.tok = t)
    BY <1>1 DEF Halved
  <2>3. LastIsTruth(t)'
    BY <1>1, <2>1 DEF LastIsTruth, Changes
  <2>4. BaselineFirst(t)'
    <3>1. books[t].ready \/ Halved(t) => books'[t].ready
      BY <1>2, <2>1, <2>2
    <3> QED
      BY <1>1, <2>1, <3>1 DEF BaselineFirst
  <2>5. Followed(t)'
    <3>1. CASE half.tok = t
      BY <1>1, <1>2, <2>1, <2>2, <3>1 DEF Followed, Changes
    <3>2. CASE half.tok # t
      BY <1>1, <1>2, <2>1, <2>2, <3>2 DEF Followed, Changes
    <3> QED
      BY <3>1, <3>2
  <2> QED
    BY <2>3, <2>4, <2>5 DEF Follows
<1> QED
  BY <1>1, <1>3 DEF FeedInv

LEMMA FeedStep ==
    ASSUME Shape, FeedInv, [Next]_vars
    PROVE  FeedInv'
<1>1. CASE VenueMoves
  BY <1>1, VenueKeeps
<1>2. CASE TickChanges
  BY <1>2, TickKeeps
<1>3. CASE Read
  BY <1>3, ReadKeeps
<1>4. CASE ApplyAsks
  BY <1>4, AsksKeep
<1>5. CASE Breaks
  <2>1. broken' /\ UNCHANGED <<ws, half, books>>
    BY <1>5 DEF Breaks, thread
  <2> QED
    BY <2>1 DEF FeedInv
<1>6. CASE Dial \/ Fault
  <2>1. served' = {} /\ ws' # "applying"
    BY <1>6 DEF Dial, Fault
  <2> QED
    BY <2>1 DEF FeedInv
<1>7. CASE SubscribeAll \/ Resubscribe
  <2>1. UNCHANGED <<truth, broken, half, books>> /\ (ws' = "applying" <=> ws = "applying")
    BY <1>7 DEF SubscribeAll, Resubscribe, venue, thread
  <2>2. /\ SubscribeAll => (Subscribe(ids) /\ ~broken) \/ UNCHANGED <<pipe, served, choked>>
        /\ Resubscribe => (Subscribe(Known) /\ ~broken) \/ UNCHANGED <<pipe, served, choked>>
    BY DEF SubscribeAll, Resubscribe
  <2>3. CASE UNCHANGED <<pipe, served, choked>>
    <3>1. Quiet
      BY <2>1, <2>3 DEF Quiet, SameLevels, Known
    <3> QED
      BY <3>1, QuietKeeps
  <2>4. CASE ~broken /\ \E toks \in SUBSET Known : Subscribe(toks)
    <3>1. PICK toks \in SUBSET Known : Subscribe(toks)
      BY <2>4
    <3>2. ASSUME NEW t \in (served \ choked)' PROVE Follows(t)'
      BY <2>1, <2>4, <3>1, SubscribeFollows
    <3> QED
      BY <2>1, <3>2 DEF FeedInv
  <2>5. ids \in SUBSET Known
    BY DEF Shape
  <2> QED
    BY <1>7, <2>2, <2>3, <2>4, <2>5
<1>8. CASE RulesGrow \/ DialFails \/ Retry \/ SleepRaises \/ Poll \/ refresh_books
           \/ PumpBids \/ PumpAsks \/ PumpRaises \/ PumpEnds \/ UNCHANGED vars
  <2>1. UNCHANGED <<truth, pipe, served, broken, choked, half, books>>
        /\ (ws' = "applying" <=> ws = "applying")
    BY <1>8 DEF RulesGrow, DialFails, Retry, SleepRaises, Poll, Ask, NoPoll, refresh_books,
                PumpBids, PumpAsks, PumpRaises, PumpEnds, vars, venue, link, thread, cycle
  <2>2. Quiet
    BY <2>1 DEF Quiet, SameLevels, Known
  <2> QED
    BY <2>2, QuietKeeps
<1>9. CASE Tick
  <2>1. UNCHANGED <<truth, pipe, served, broken, choked, ws, half>>
    BY <1>9 DEF Tick, venue, link
  <2> QED
    BY <1>9, <2>1, TickBooks, QuietKeeps DEF Quiet
<1>10. CASE Grow
  <2>1. UNCHANGED <<truth, pipe, served, broken, choked, ws, half>>
    BY <1>10 DEF Grow, venue, link
  <2> QED
    BY <1>10, <2>1, GrowBooks, QuietKeeps DEF Quiet
<1> QED
  BY <1>1, <1>2, <1>3, <1>4, <1>5, <1>6, <1>7, <1>8, <1>9, <1>10
     DEF Next, Environment, Connect, Cycle

-----------------------------------------------------------------------------
(* The theorems *)

LEMMA FeedInvariant == Spec => []IInv
<1>1. Init => IInv
  BY FeedInit
<1>2. IInv /\ [Next]_vars => IInv'
  <2> SUFFICES ASSUME IInv, [Next]_vars PROVE IInv'
    OBVIOUS
  <2>1. Shape /\ Subscribed /\ FeedInv
    BY DEF IInv
  <2>2. Shape'
    BY <2>1, ShapeStep, ShapeStutter
  <2>3. Subscribed'
    BY <2>1, SubscribedStep
  <2>4. FeedInv'
    BY <2>1, FeedStep
  <2> QED
    BY <2>2, <2>3, <2>4 DEF IInv
<1> QED
  BY <1>1, <1>2, PTL DEF Spec

\* Whatever the rules gain while the connection is dialled, subscribed or lost, a healthy
\* connection that is read is subscribed to every token with a local book, outside the
\* widening itself: the dial reads token_ids after the socket is set (market_ws_transport
\* _dial_and_subscribe), the widening sends only if there is a socket (ensure_tokens), and
\* one of the two covers a token that arrives between them.
THEOREM NoTokenFallsBetween == Spec => []SubscriptionCovers
<1>1. IInv => SubscriptionCovers
  BY DEF IInv, Subscribed, SubscriptionCovers
<1> QED
  BY <1>1, FeedInvariant, PTL

\* A healthy connection with nothing more to deliver has brought every local book it
\* serves to what the venue has, on both sides, over any number of reconnects and of
\* widenings, although nothing empties the books of a connection that died; but for the
\* tokens whose events it swallowed after the last book it brought them.
THEOREM BooksFollowTheVenue == Spec => []InSyncWhenQuiet
<1>1. IInv => InSyncWhenQuiet
  <2> SUFFICES ASSUME IInv, ws = "reading", ~broken, pipe = <<>>, NEW t \in served \ choked
               PROVE  books[t].ready /\ books[t].bids = truth[t] /\ books[t].asks = truth[t]
    BY DEF InSyncWhenQuiet
  <2>1. Followed(t) /\ ~Halved(t)
    BY DEF IInv, FeedInv, Follows, Halved
  <2>2. \A i \in DOMAIN pipe : ~Changes(pipe[i], t)
    OBVIOUS
  <2> QED
    BY <2>1, <2>2 DEF Followed
<1> QED
  BY <1>1, FeedInvariant, PTL
=============================================================================
