------------------------------- MODULE BookFeed -------------------------------
(***************************************************************************)
(* How books reach the ladder cache: the websocket thread (ws_bridge,      *)
(* market_ws_transport, websocket_market_data, local_order_book) keeps a   *)
(* local book per token, and the cycle (_r_cycle) polls REST, widens the   *)
(* subscription and copies fresh local books over the cache.  The two      *)
(* threads share the local books without a lock.                           *)
(*                                                                         *)
(* A book's content is the number of venue moves it has seen, one number   *)
(* per side, so a copy is torn when its sides differ.                      *)
(***************************************************************************)
EXTENDS Integers, Sequences, SequencesExt, FiniteSets

CONSTANTS
    Tokens,     \* outcome tokens
    First,      \* those of the rules when the process starts
    Moves,      \* bound: moves of the venue, over all tokens
    Gone,       \* the moves after which a book has no level on either side
    Fresh,      \* how old a local book may be and still be copied: five seconds
    Pipe,       \* bound: messages on their way
    Mute        \* bound: the tokens whose events a connection may swallow

ASSUME FeedAssumption ==
    /\ IsFiniteSet(Tokens) /\ First # {} /\ First \subseteq Tokens
    /\ {Moves, Fresh, Pipe} \subseteq Nat /\ Gone \subseteq Nat /\ Mute \subseteq Tokens

VARIABLES
    truth,      \* per token, the moves the venue has made
    listed,     \* the tokens of the rules now
    pipe,       \* messages of the connection, in order
    served,     \* the tokens subscribed on the connection
    broken,     \* the connection is dead, whether or not a thread has noticed
    choked,     \* the tokens an event of which it swallowed after their last book
    ws,         \* where the websocket thread is
    half,       \* the message it has applied to one side only
    books,      \* the local books
    ids,        \* MarketStream.token_ids
    main,       \* where the cycle is
    answer,     \* what REST answered: per token its move, or NoBook
    left, seen, \* the pump: tokens to copy, and the side already read of one
    cache       \* the ladder cache

venue   == <<truth, listed>>
link    == <<pipe, served, broken, choked>>
thread  == <<ws, half, books>>
cycle   == <<ids, main, answer, left, seen, cache>>
vars    == <<venue, link, thread, cycle>>

NoBook == -1
Off == -1                                   \* what no state of the venue's book is
Levels == {Off} \cup 0 .. Moves
Nothing == [tok |-> "none", kind |-> "none", v |-> 0]
NoSide == [tok |-> "none", bids |-> 0]
Kinds == {"book", "price_change", "tick_size_change"}
Message == [tok : Tokens, kind : Kinds, v : Levels]
NewBook == [known |-> TRUE, ready |-> FALSE, bids |-> 0, asks |-> 0, age |-> Fresh + 1]
NoEntry == [has |-> FALSE, bids |-> 0, asks |-> 0]

Known == {t \in Tokens : books[t].known}
HasSocket == ws \in {"dialled", "reading", "applying"}
is_fresh(book) == book.known /\ book.ready /\ book.age <= Fresh

TypeOK ==
    /\ truth \in [Tokens -> 0 .. Moves] /\ First \subseteq listed /\ listed \subseteq Tokens
    /\ pipe \in Seq(Message) /\ Len(pipe) <= Pipe + 2 * Cardinality(Tokens)
    /\ served \subseteq Known /\ broken \in BOOLEAN /\ choked \subseteq served
    /\ ws \in {"dial", "dialled", "reading", "applying", "backoff", "dead"}
    /\ half \in Message \cup {Nothing} /\ (half # Nothing <=> ws = "applying")
    /\ books \in [Tokens -> [known : BOOLEAN, ready : BOOLEAN, bids : Levels,
                             asks : Levels, age : 0 .. Fresh + 1]]
    /\ ids \subseteq Known
    /\ main \in {"idle", "asked", "grow", "send", "pump"}
    /\ answer \in [Tokens -> {NoBook} \cup 0 .. Moves]
    /\ left \subseteq Tokens /\ seen \in [tok : Tokens, bids : Levels] \cup {NoSide}
    /\ cache \in [Tokens -> [has : BOOLEAN, bids : Levels, asks : Levels]]
    /\ \A t \in Tokens : cache[t].has => ~({cache[t].bids, cache[t].asks} \subseteq Gone)

Init ==
    /\ truth = [t \in Tokens |-> 0] /\ listed = First
    /\ pipe = <<>> /\ served = {} /\ broken = TRUE /\ choked = {}
    /\ ws = "dial" /\ half = Nothing
    /\ books = [t \in Tokens |-> [NewBook EXCEPT !.known = t \in First]]
    /\ ids = First /\ main = "idle" /\ answer = [t \in Tokens |-> NoBook]
    /\ left = {} /\ seen = NoSide /\ cache = [t \in Tokens |-> NoEntry]

-----------------------------------------------------------------------------
(* The venue *)

Made == LET sum[S \in SUBSET Tokens] ==
              IF S = {} THEN 0 ELSE LET t == CHOOSE x \in S : TRUE IN truth[t] + sum[S \ {t}]
        IN  sum[Tokens]
Sent(kind, t) ==
    [tok |-> t, kind |-> kind, v |-> IF kind = "price_change" /\ t \in choked THEN Off ELSE truth'[t]]

\* A book moves, and whoever is subscribed is told, unless the connection chokes: it stays
\* healthy and the event is swallowed.  A change behind a gap leaves levels that are not
\* the venue's; a book mends it.
Tell(kind, t) ==
    /\ pipe' = Append(pipe, Sent(kind, t))
    /\ choked' = IF kind = "book" THEN choked \ {t} ELSE choked
Swallow(t) == t \in Mute /\ choked' = choked \cup {t} /\ UNCHANGED pipe
VenueMoves ==
    /\ Made < Moves /\ Len(pipe) < Pipe
    /\ \E t \in Tokens, kind \in {"book", "price_change"} :
          /\ truth' = [truth EXCEPT ![t] = @ + 1]
          /\ IF t \in served /\ ~broken THEN Tell(kind, t) \/ Swallow(t)
             ELSE UNCHANGED <<pipe, choked>>
    /\ UNCHANGED <<listed, served, broken, thread, cycle>>

\* Its tick changes: no level does.
TickChanges ==
    /\ Len(pipe) < Pipe /\ ~broken
    /\ \E t \in served : pipe' = Append(pipe, [tok |-> t, kind |-> "tick_size_change", v |-> 0])
    /\ UNCHANGED <<venue, served, broken, choked, thread, cycle>>

\* The connection dies; some of what was on its way is lost.
Breaks ==
    /\ ~broken /\ broken' = TRUE /\ choked' = {}
    /\ \E n \in 0 .. Len(pipe) : pipe' = SubSeq(pipe, 1, n)
    /\ UNCHANGED <<venue, served, thread, cycle>>

\* The rules gain a token: a new market, or a new local day.
RulesGrow ==
    /\ main = "idle" /\ listed # Tokens /\ listed' = Tokens
    /\ UNCHANGED <<truth, link, thread, cycle>>

Aged(book) == [book EXCEPT !.age = IF @ > Fresh THEN @ ELSE @ + 1]
Tick ==
    /\ main # "pump"                        \* a pump is over before the clock moves on
    /\ \E t \in Tokens : books[t].age <= Fresh
    /\ books' = [t \in Tokens |-> Aged(books[t])]
    /\ UNCHANGED <<venue, link, ws, half, cycle>>

-----------------------------------------------------------------------------
(* The websocket thread: MarketSocketTransport.run_forever *)

\* The venue answers a subscription with the books of its tokens, less those it swallows:
\* a gap for the tokens that were not served before.
Baseline(toks) ==
    LET order == SetToSeq(toks)
    IN  [i \in DOMAIN order |-> [tok |-> order[i], kind |-> "book", v |-> truth[order[i]]]]
Subscribe(toks) ==
    /\ served' = served \cup toks
    /\ \E lost \in SUBSET (toks \cap Mute) :
          /\ pipe' = pipe \o Baseline(toks \ lost)
          /\ choked' = (choked \ (toks \ lost)) \cup (lost \ served)

\* _dial_and_subscribe: the socket is set first, the subscription is put together and
\* sent after that.
Dial ==
    /\ ws = "dial" /\ ws' = "dialled"
    /\ broken' = FALSE /\ pipe' = <<>> /\ served' = {} /\ choked' = {}
    /\ UNCHANGED <<venue, half, books, cycle>>
DialFails == ws = "dial" /\ ws' = "backoff" /\ UNCHANGED <<venue, link, half, books, cycle>>

SubscribeFirst ==                           \* mutant: the tokens the stream was built with
    /\ ws = "dialled"
    /\ IF broken THEN ws' = "backoff" /\ UNCHANGED <<pipe, served, choked>>
       ELSE ws' = "reading" /\ Subscribe(First)
    /\ UNCHANGED <<venue, broken, half, books, cycle>>
SubscribeAll ==
    /\ ws = "dialled"
    /\ IF broken THEN ws' = "backoff" /\ UNCHANGED <<pipe, served, choked>>
       ELSE ws' = "reading" /\ Subscribe(ids)
    /\ UNCHANGED <<venue, broken, half, books, cycle>>

\* A message that replaces or changes levels goes to the bids, then to the asks.  A change
\* needs a baseline.
AppliesOnce(m) ==                           \* mutant: a book that is ready needs no baseline
    \/ m.kind = "book" /\ ~books[m.tok].ready
    \/ m.kind = "price_change" /\ books[m.tok].ready
Applies(m) == m.kind = "book" \/ (m.kind = "price_change" /\ books[m.tok].ready)

Read ==
    /\ ws = "reading" /\ pipe # <<>> /\ pipe' = Tail(pipe)
    /\ LET m == Head(pipe)
       IN  IF Applies(m)
           THEN /\ ws' = "applying" /\ half' = m
                /\ books' = [books EXCEPT ![m.tok].bids = m.v,
                                          ![m.tok].age = IF m.kind = "book" THEN @ ELSE 0]
           ELSE /\ books' = IF m.kind = "tick_size_change" THEN [books EXCEPT ![m.tok].age = 0]
                            ELSE books
                /\ UNCHANGED <<ws, half>>
    /\ UNCHANGED <<venue, served, broken, choked, cycle>>
ApplyAsks ==
    /\ ws = "applying" /\ ws' = "reading" /\ half' = Nothing
    /\ books' = [books EXCEPT ![half.tok].asks = half.v, ![half.tok].ready = TRUE,
                              ![half.tok].age = 0]
    /\ UNCHANGED <<venue, link, cycle>>

\* The read fails, or times out, which is a failure as well; the local books keep what
\* they hold, since nothing calls mark_disconnected.
Fault ==
    /\ ws = "reading" /\ (broken => pipe = <<>>) /\ ws' = "backoff"
    /\ broken' = TRUE /\ pipe' = <<>> /\ served' = {} /\ choked' = {}
    /\ UNCHANGED <<venue, half, books, cycle>>

\* The wait is over.  A clock that passes the end of it between the loop's test and its
\* sleep makes the sleep negative: the error leaves run_forever and ends the thread.
Retry == ws = "backoff" /\ ws' = "dial" /\ UNCHANGED <<venue, link, half, books, cycle>>
SleepRaises == ws = "backoff" /\ ws' = "dead" /\ UNCHANGED <<venue, link, half, books, cycle>>

-----------------------------------------------------------------------------
(* The cycle *)

\* fetch_books: a batch and its single fetches, any of which may fail.
Ask(got) ==
    /\ main = "idle" /\ main' = "asked"
    /\ answer' = [t \in Tokens |-> IF t \in got THEN truth[t] ELSE NoBook]
    /\ UNCHANGED <<venue, link, thread, ids, left, seen, cache>>
NoPoll ==
    /\ main = "idle" /\ main' = "grow"
    /\ UNCHANGED <<venue, link, thread, ids, answer, left, seen, cache>>

\* refresh_books: a book without a level is left out, and so is its entry as it was.
Ladder(t) == [has |-> TRUE, bids |-> answer[t], asks |-> answer[t]]
Store(t) == IF answer[t] \in {NoBook} \cup Gone THEN cache[t] ELSE Ladder(t)
refresh_books ==
    /\ main = "asked" /\ main' = "grow"
    /\ cache' = [t \in Tokens |-> Store(t)]
    /\ answer' = [t \in Tokens |-> NoBook]
    /\ UNCHANGED <<venue, link, thread, ids, left, seen>>

\* ensure_tokens: the books first, then token_ids, then a subscription if any was new and
\* there is a socket.  An error of the send is dropped.
Grow ==
    /\ main = "grow"
    /\ main' = IF listed \subseteq Known THEN "pump" ELSE "send"
    /\ books' = [t \in Tokens |-> IF t \in listed \ Known THEN NewBook ELSE books[t]]
    /\ left' = IF listed \subseteq Known THEN Known ELSE {}
    /\ UNCHANGED <<venue, link, ws, half, ids, answer, seen, cache>>
Resubscribe ==
    /\ main = "send" /\ main' = "pump" /\ ids' = Known /\ left' = Known
    /\ IF HasSocket /\ ~broken THEN Subscribe(Known) ELSE UNCHANGED <<pipe, served, choked>>
    /\ UNCHANGED <<venue, broken, thread, answer, seen, cache>>

\* _ws_pump, book by book in the order of the dict: the age is looked at, one side read, then the other.  The copy
\* is stamped with the time of the copying, so the comparison with the entry always
\* passes.  A side that changes size as it is read raises, and the token is passed over.
CopiesAnyAge(t) == books[t].known /\ books[t].ready     \* mutant: whatever its age
Copies(t) == is_fresh(books[t])
PumpBids ==
    /\ main = "pump" /\ seen = NoSide /\ left # {}
    /\ LET t == CHOOSE x \in left : TRUE
       IN  /\ left' = left \ {t}
           /\ seen' = IF Copies(t) THEN [tok |-> t, bids |-> books[t].bids] ELSE seen
    /\ UNCHANGED <<venue, link, thread, ids, main, answer, cache>>
PumpAsks ==
    /\ main = "pump" /\ seen # NoSide /\ seen' = NoSide
    /\ LET asks == books[seen.tok].asks
       IN  cache' = IF {seen.bids, asks} \subseteq Gone THEN cache
                    ELSE [cache EXCEPT ![seen.tok] = [has |-> TRUE, bids |-> seen.bids, asks |-> asks]]
    /\ UNCHANGED <<venue, link, thread, ids, main, answer, left>>
PumpRaises ==
    /\ main = "pump" /\ seen # NoSide /\ seen' = NoSide
    /\ UNCHANGED <<venue, link, thread, ids, main, answer, left, cache>>
PumpEnds ==
    /\ main = "pump" /\ left = {} /\ seen = NoSide /\ main' = "idle"
    /\ UNCHANGED <<venue, link, thread, ids, answer, left, seen, cache>>

Environment == VenueMoves \/ TickChanges \/ Breaks \/ RulesGrow
Connect == Dial \/ DialFails \/ SubscribeAll \/ Fault \/ Retry \/ SleepRaises
Poll == (\E got \in SUBSET listed \ {{}} : Ask(got)) \/ NoPoll
Cycle == refresh_books \/ Grow \/ Resubscribe \/ PumpBids \/ PumpAsks \/ PumpRaises \/ PumpEnds

Next == Environment \/ Tick \/ Connect \/ Read \/ ApplyAsks \/ Poll \/ Cycle
Spec == Init /\ [][Next]_vars

\* The cycle is scheduled, time passes, and REST keeps answering, for every token.  Nothing
\* is asked of the websocket thread nor of the connection, but that a tick, which follows
\* the price, does not change without end on a connection that choked: each change renews
\* the age of a book that is not the venue's, and the pump puts it over REST's.
FairSpec ==
    /\ Spec
    /\ WF_vars(Poll \/ Cycle) /\ SF_vars(Tick) /\ SF_vars(Ask(listed))
    /\ <>[][TickChanges => choked = {}]_vars

-----------------------------------------------------------------------------
(* Properties *)

\* However the two threads interleave, a healthy connection is subscribed to every token
\* that has a local book, outside the widening itself.
SubscriptionCovers ==
    ws \in {"reading", "applying"} /\ ~broken /\ main # "send" => Known \subseteq served

\* Once a connection has nothing more to deliver, the local books are the venue's, through
\* any number of reconnects: no gap survives a baseline.  The books of the tokens the
\* connection choked on since their last book are another matter: REST's.
InSyncWhenQuiet ==
    ws = "reading" /\ ~broken /\ pipe = <<>> =>
        \A t \in served \ choked :
            books[t].ready /\ books[t].bids = truth[t] /\ books[t].asks = truth[t]

\* A venue that has made its moves is what the cache ends up with, torn copies, dead
\* connections and a dead thread included, for every token with a level left.
CacheConverges ==
    <>[]\A t \in listed : truth[t] \notin Gone => cache[t].bids = truth[t] /\ cache[t].asks = truth[t]
=============================================================================
