---------------------------- MODULE MarketTypes ----------------------------
(***************************************************************************)
(* The order data model of x/market/types/types.go: NewOrder and IsValid   *)
(* (admission checks and the price computed once as dst / src), IsFilled   *)
(* (the dust test), OrderPriorityComparator (price-time priority) and      *)
(* ExecutionPlan.DestinationCapacity.  All arithmetic is sdk.Dec, taken    *)
(* from SdkDec with its rounding.  Owner and client order id are model     *)
(* values; the creation time is audit data and left out.                   *)
(***************************************************************************)
EXTENDS SdkDec, Sequences

CONSTANT IDWidth   \* the width of uint64 order IDs and of int (64 in production)

ASSUME IDWidth \in 2..30

\* int(x - y) for uint64 x and y: the difference wraps modulo 2^IDWidth
\* and the conversion reads it as a two's complement signed integer.
IntOfUintDiff(x, y) ==
    LET d == (x - y) % (2^IDWidth)
    IN  IF d >= 2^(IDWidth - 1) THEN d - 2^IDWidth ELSE d

\* An sdk.Coin
Coin(denom, amount) == [denom |-> denom, amount |-> amount]

\* Fault model of NewOrder: the price taken as the integer quotient of the
\* amounts instead of a Dec quotient.
NewOrderIntQuo(src, dst, seller, clientOrderId) ==
    [ ID |-> 0, Owner |-> seller, ClientOrderID |-> clientOrderId,
      Source |-> src, SourceRemaining |-> src.amount, SourceFilled |-> 0,
      Destination |-> dst, DestinationFilled |-> 0,
      price |-> ToDec(dst.amount \div src.amount) ]

\* NewOrder, lines 285-298: the order before the keeper gives it an ID.
NewOrder(src, dst, seller, clientOrderId) ==
    [ ID                |-> 0,
      Owner             |-> seller,
      ClientOrderID     |-> clientOrderId,
      Source            |-> src,
      SourceRemaining   |-> src.amount,
      SourceFilled      |-> 0,
      Destination       |-> dst,
      DestinationFilled |-> 0,
      price             |-> DecQuo(ToDec(dst.amount), ToDec(src.amount)) ]

\* Order.IsValid: the error it returns, "ok" for nil.
IsValid(o) ==
    CASE o.Source.amount <= 0                 -> "ErrInvalidPrice"
      [] o.Destination.amount <= 0            -> "ErrInvalidPrice"
      [] o.Source.denom = o.Destination.denom -> "ErrInvalidInstrument"
      [] OTHER                                -> "ok"

\* The error NewOrder returns: its own amount check, then IsValid.
NewOrderError(src, dst, seller, clientOrderId) ==
    IF src.amount <= 0 \/ dst.amount <= 0
    THEN "ErrInvalidPrice"
    ELSE IsValid(NewOrder(src, dst, seller, clientOrderId))

IsFilled(o) ==
    \/ DecMul(ToDec(o.SourceRemaining), o.price) < ONE
    \/ o.DestinationFilled >= o.Destination.amount

\* Fault model of OrderPriorityComparator: the ID difference taken the
\* wrong way round (last come first served).
ComparatorIDReversed(a, b) ==
    CASE a.price < b.price -> -1
      [] a.price > b.price -> 1
      [] OTHER             -> IntOfUintDiff(b.ID, a.ID)

\* OrderPriorityComparator: price first, then ID (first come first served).
OrderPriorityComparator(a, b) ==
    CASE a.price < b.price -> -1
      [] a.price > b.price -> 1
      [] OTHER             -> IntOfUintDiff(a.ID, b.ID)

\* An ExecutionPlan: its price and its orders, <<>>, <<first>> or
\* <<first, second>> (the nil pointers of the code are absent entries).
ExecutionPlan(price, planOrders) == [Price |-> price, Orders |-> planOrders]

\* Fault model of OrderCapacity: the cap by the destination still wanted
\* left out.
OrderCapacityNoDestCap(o) == DecMul(ToDec(o.SourceRemaining), o.price)

\* Capacity of one order: what its remaining source buys, capped by the
\* destination it still wants.
OrderCapacity(o) ==
    MinDec(DecMul(ToDec(o.SourceRemaining), o.price),
           ToDec(o.Destination.amount - o.DestinationFilled))

\* ExecutionPlan.DestinationCapacity: the most of the final destination the
\* plan can take in, the first order's capacity carried through the second
\* order's price and capped by the second order's own limits.
DestinationCapacity(ep) ==
    IF ep.Orders = <<>> THEN 0
    ELSE LET first == ep.Orders[1]
             res   == OrderCapacity(first)
         IN  IF Len(ep.Orders) = 1 THEN res
             ELSE LET second == ep.Orders[2]
                  IN  MinDec(MinDec(DecMul(res, second.price),
                                    DecMul(ToDec(second.SourceRemaining), second.price)),
                             ToDec(second.Destination.amount - second.DestinationFilled))

=============================================================================
