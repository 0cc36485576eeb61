------------------------------ MODULE Exchange ------------------------------
(***************************************************************************)
(* What the market promises its users, with no books, plans or driver: a  *)
(* set of live limit orders under a monotonic ID, and balances.  An order *)
(* enters with untouched counters, leaves by its owner's cancellation or  *)
(* once it can no longer buy a whole unit, and changes only in a trade.   *)
(* A trade fills some orders at once: every participant gives at most     *)
(* what it has left and receives at most what it still wants, at its      *)
(* limit price up to less than one unit of rounding (spec 4.4), and the   *)
(* balances move by exactly the fills (zero-sum, spec 8).  Prices are     *)
(* exact here: the rate of an order is Destination.amount/Source.amount.  *)
(***************************************************************************)
EXTENDS Integers, FiniteSets, FiniteSetsExt, Functions, TLC

CONSTANTS Accounts, Denoms

VARIABLES
    book,      \* order ID -> order (Owner, ClientOrderID, Source, Destination, counters)
    nextId,    \* the next order ID
    balances,  \* account -> denom -> amount
    trade      \* the participants of the last trade as they left it ({} after any other step)

avars == <<book, nextId, balances, trade>>

\* An order that can no longer buy one unit of its destination at its own
\* rate, or that has received all of it.
Exhausted(o) ==
    \/ o.SourceRemaining * o.Destination.amount < o.Source.amount
    \/ o.DestinationFilled >= o.Destination.amount

\* The fill that took order o to r.
Gave(o, r) == o.SourceRemaining - r.SourceRemaining
Got(o, r) == r.DestinationFilled - o.DestinationFilled

\* r is o after a fill within o's limits: the counters move together, no
\* more is given than was left nor received than was wanted, and the rate
\* is the limit price or better but for less than one unit.
FillOf(o, r) ==
    /\ r = [o EXCEPT !.SourceRemaining = r.SourceRemaining,
                     !.SourceFilled = o.SourceFilled + Gave(o, r),
                     !.DestinationFilled = r.DestinationFilled]
    /\ Gave(o, r) >= 0 /\ Got(o, r) >= 0
    /\ r.SourceRemaining >= 0 /\ r.DestinationFilled <= o.Destination.amount
    /\ (Got(o, r) + 1) * o.Source.amount > Gave(o, r) * o.Destination.amount

\* What the orders of a trade move into and out of one account's denom.
NetFlow(rs, a, d) ==
    LET incoming == {r \in rs : r.Owner = a /\ r.Destination.denom = d}
        outgoing == {r \in rs : r.Owner = a /\ r.Source.denom = d}
    IN  MapThenSumSet(LAMBDA r : Got(book[r.ID], r), incoming)
          - MapThenSumSet(LAMBDA r : Gave(book[r.ID], r), outgoing)

Init ==
    /\ book = <<>>
    /\ nextId = 1
    /\ balances \in [Accounts -> [Denoms -> Nat]]
    /\ trade = {}

\* A new order under the next ID, counters untouched, a valid instrument,
\* its client order id unused among its owner's live orders.
Submit ==
    /\ nextId' = nextId + 1
    /\ \E o \in Range(book') :
          /\ book' = book @@ (nextId :> o)
          /\ o.ID = nextId /\ nextId \notin DOMAIN book
          /\ o.Source.amount > 0 /\ o.Destination.amount > 0
          /\ o.Source.denom # o.Destination.denom
          /\ o.SourceRemaining = o.Source.amount /\ o.SourceFilled = 0 /\ o.DestinationFilled = 0
          /\ \A id \in DOMAIN book : book[id].Owner = o.Owner => book[id].ClientOrderID # o.ClientOrderID
    /\ trade' = {}
    /\ UNCHANGED balances

\* A live order leaves at its owner's request.
Cancel ==
    /\ \E id \in DOMAIN book : book' = Restrict(book, DOMAIN book \ {id})
    /\ trade' = {}
    /\ UNCHANGED <<nextId, balances>>

\* Balances move between accounts outside the market.
Transfer ==
    /\ \A d \in Denoms :
          MapThenSumSet(LAMBDA a : balances'[a][d], Accounts)
              = MapThenSumSet(LAMBDA a : balances[a][d], Accounts)
    /\ balances' \in [Accounts -> [Denoms -> Nat]]
    /\ trade' = {}
    /\ UNCHANGED <<book, nextId>>

\* A trade: the participants' fills, exhausted ones retired, the balances
\* moved by the fills and never below zero, nothing created or destroyed.
Trade ==
    LET ids == {r.ID : r \in trade'} IN
    /\ trade' # {}
    /\ ids \subseteq DOMAIN book /\ Cardinality(ids) = Cardinality(trade')
    /\ \A r \in trade' : FillOf(book[r.ID], r)
    /\ DOMAIN book' = (DOMAIN book \ ids) \cup {r.ID : r \in {x \in trade' : ~Exhausted(x)}}
    /\ \A id \in DOMAIN book' : book'[id] = IF id \in ids THEN CHOOSE r \in trade' : r.ID = id
                                                        ELSE book[id]
    /\ \A d \in Denoms :
          MapThenSumSet(LAMBDA r : Got(book[r.ID], r), {r \in trade' : r.Destination.denom = d})
              = MapThenSumSet(LAMBDA r : Gave(book[r.ID], r), {r \in trade' : r.Source.denom = d})
    /\ \A a \in Accounts, d \in Denoms :
          balances'[a][d] = balances[a][d] + NetFlow(trade', a, d) /\ balances'[a][d] >= 0
    /\ UNCHANGED nextId

\* A step that changes neither the book nor the balances (a rejected
\* request, a failed settlement, the driver moving on).
Quiet ==
    /\ trade' = {}
    /\ UNCHANGED <<book, nextId, balances>>

Next == Submit \/ Cancel \/ Transfer \/ Trade \/ Quiet

Spec == Init /\ [][Next]_avars

=============================================================================
