------------------------------ MODULE Listings ------------------------------
(***************************************************************************)
(* Listings in pages: the bids of a user, the bids on a token              *)
(* (contracts/liquidation/src/state.rs) and the prices of the oracle       *)
(* (contracts/oracle/src/state.rs), which may be more than a query returns *)
(* at once.  A client asks for one page after the other, each beginning    *)
(* after the last key of the page before, while others store and remove    *)
(* what is listed.  The listings of borrowers, of collaterals and of the   *)
(* whitelist page in the same way over a bucket of their own.              *)
(*                                                                         *)
(* A key is the sequence of its bytes, in the order of the store.          *)
(* Addresses are all of one length; names of assets are not.               *)
(***************************************************************************)
EXTENDS Integers, Sequences, FiniteSetsExt

CONSTANTS Bidders, Tokens,   \* keys of accounts and of tokens
          Assets,            \* names of assets
          Limits,            \* limits a client may ask for
          DefaultLimit, MaxLimit,
          None               \* no start_after, no limit

VARIABLES bid,                \* pairs of bidder and token that have a bid
          bid_user_index,     \* of every bidder, the tokens
          bid_collateral_index,
          price,              \* assets that have a price
          reader,             \* where a client is with its listing, or None
          listed,             \* how often it was given each key, to two
          lasting             \* history: keys listed all the time since it began

store == <<bid, bid_user_index, bid_collateral_index, price>>
vars == <<store, reader, listed, lasting>>

\* Of two byte sequences the first comes first.
Before(a, b) ==
    \E i \in 1 .. Len(b) :
      /\ \A j \in 1 .. i - 1 : j <= Len(a) /\ a[j] = b[j]
      /\ i > Len(a) \/ a[i] < b[i]

\* What a listing goes through.
Listing == [of : {"bids_by_user"}, key : Bidders]
           \cup [of : {"bids_by_collateral"}, key : Tokens]
           \cup [of : {"prices"}, key : {None}]
Keys == Bidders \cup Tokens \cup Assets
Reader == [listing : Listing, limit : Limits \cup {None}, start_after : Keys \cup {None}]

\* Addresses have one length, and no name extends another by a zero byte.
\* Finitely many of them have ever been used.
ASSUME ListingsAssumption ==
    /\ Limits \subseteq Nat \ {0} /\ DefaultLimit \in Nat \ {0} /\ MaxLimit \in Nat \ {0}
    /\ Keys \subseteq Seq(Nat) /\ IsFiniteSet(Keys)
    /\ \A keys \in {Bidders, Tokens} : \A a, b \in keys : Len(a) = Len(b)
    /\ \A a, b \in Assets : Len(a) < Len(b) /\ SubSeq(b, 1, Len(a)) = a
                              => b[Len(a) + 1] > 0
ASSUME NoneAssumption == None \notin Limits /\ None \notin Keys /\ None \notin Reader

NotListed == [k \in Keys |-> 0]

ListingsInit ==
    /\ bid = {} /\ price = {}
    /\ bid_user_index = [b \in Bidders |-> {}]
    /\ bid_collateral_index = [t \in Tokens |-> {}]
    /\ reader = None /\ listed = NotListed /\ lasting = {}

-----------------------------------------------------------------------------
(***************************************************************************)
(* A page                                                                  *)
(***************************************************************************)
\* The key itself, with which the page before ended.
calc_range_start_Same(start_after) ==
    IF start_after = None THEN <<>> ELSE start_after
calc_range_start(start_after) ==
    IF start_after = None THEN <<>> ELSE Append(start_after, 1)

range(keys, start) == {k \in keys : ~Before(k, start)}

\* The first n keys; from the other end of the store they would be the last.
first_Descending(n, keys) == {k \in keys : Cardinality({l \in keys : Before(k, l)}) < n}
first(n, keys) == {k \in keys : Cardinality({l \in keys : Before(l, k)}) < n}

page_of(keys, start_after, limit) ==
    LET asked == IF limit = None THEN DefaultLimit ELSE limit
    IN  first(Min({asked, MaxLimit}), range(keys, calc_range_start(start_after)))

keys_of(l) == CASE l.of = "bids_by_user"       -> bid_user_index[l.key]
                [] l.of = "bids_by_collateral" -> bid_collateral_index[l.key]
                [] l.of = "prices"             -> price

\* An index leads to a bid; where there is none the query fails.
readable(l, k) == CASE l.of = "bids_by_user"       -> <<l.key, k>> \in bid
                    [] l.of = "bids_by_collateral" -> <<k, l.key>> \in bid
                    [] l.of = "prices"             -> TRUE

-----------------------------------------------------------------------------
(***************************************************************************)
(* What is listed                                                          *)
(***************************************************************************)
ClientWaits ==
    /\ UNCHANGED <<reader, listed>>
    /\ lasting' = IF reader = None THEN lasting
                  ELSE lasting \cap keys_of(reader.listing)'

store_bid(b, t) ==
    /\ bid' = bid \cup {<<b, t>>}
    /\ bid_user_index' = [bid_user_index EXCEPT ![b] = @ \cup {t}]
    /\ bid_collateral_index' = [bid_collateral_index EXCEPT ![t] = @ \cup {b}]
    /\ UNCHANGED price

\* The token's index keeps the bidder.
remove_bid_OneIndex(b, t) ==
    /\ <<b, t>> \in bid
    /\ bid' = bid \ {<<b, t>>}
    /\ bid_user_index' = [bid_user_index EXCEPT ![b] = @ \ {t}]
    /\ UNCHANGED <<bid_collateral_index, price>>

remove_bid(b, t) ==
    /\ <<b, t>> \in bid
    /\ bid' = bid \ {<<b, t>>}
    /\ bid_user_index' = [bid_user_index EXCEPT ![b] = @ \ {t}]
    /\ bid_collateral_index' = [bid_collateral_index EXCEPT ![t] = @ \ {b}]
    /\ UNCHANGED price

store_price(a) ==
    /\ price' = price \cup {a}
    /\ UNCHANGED <<bid, bid_user_index, bid_collateral_index>>

Write == /\ \/ \E b \in Bidders, t \in Tokens : store_bid(b, t) \/ remove_bid(b, t)
            \/ \E a \in Assets : store_price(a)
         /\ ClientWaits

(***************************************************************************)
(* The client                                                              *)
(***************************************************************************)
Begin ==
    /\ reader = None
    /\ \E l \in Listing, n \in Limits \cup {None} :
         /\ reader' = [listing |-> l, limit |-> n, start_after |-> None]
         /\ lasting' = keys_of(l)
    /\ UNCHANGED <<store, listed>>

next_page == page_of(keys_of(reader.listing), reader.start_after, reader.limit)
last_of(page) == CHOOSE k \in page : \A l \in page : ~Before(k, l)

\* The listing is at its end when a page is empty.
Page ==
    /\ reader # None
    /\ \E page \in {next_page} :
         /\ \A k \in page : readable(reader.listing, k)
         /\ \/ /\ page = {}
               /\ reader' = None /\ listed' = NotListed /\ lasting' = {}
            \/ /\ page # {}
               /\ reader' = [reader EXCEPT !.start_after = last_of(page)]
               /\ listed' = [k \in Keys |->
                               IF k \in page THEN Min({2, listed[k] + 1}) ELSE listed[k]]
               /\ UNCHANGED lasting
    /\ UNCHANGED store

ListingsNext == Write \/ Begin \/ Page

\* A client that has begun asks for one page after the other.
ListingsSpec == ListingsInit /\ [][ListingsNext]_vars /\ WF_vars(Page)

-----------------------------------------------------------------------------
(***************************************************************************)
(* Properties                                                              *)
(***************************************************************************)
\* When the last page has been read, whatever was there all along has been
\* listed, and nothing has been listed twice: neither what others stored and
\* removed meanwhile nor the limit moves a page's beginning past a key or back.
ListedOnce ==
    [][reader # None /\ reader' = None =>
         /\ \A k \in lasting : listed[k] = 1
         /\ \A k \in Keys : listed[k] <= 1]_vars

\* No page fails for an index that leads nowhere.
PagesReadable ==
    reader # None => \A k \in next_page : readable(reader.listing, k)

\* Every listing comes to its end, however much is stored meanwhile.
ListingsEnd == reader # None ~> reader = None
=============================================================================
