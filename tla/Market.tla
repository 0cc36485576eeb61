------------------------------- MODULE Market -------------------------------
(***************************************************************************)
(* The market: the order store and the per-pair instrument books, order   *)
(* admission and cancellation, and the matching driver run from           *)
(* BeginBlocker that repeatedly finds the best executable match of a       *)
(* currency pair and settles it against the bank balances.                 *)
(*                                                                         *)
(* The order arithmetic comes from MarketTypes (x/market/types/types.go).  *)
(* The keeper that drives it (x/market/keeper) is not among the sources;  *)
(* admission, cancellation, plan selection and settlement follow the spec *)
(* (sections 4.1-4.6) with the policy it asks for: lowest combined price,  *)
(* ties by (first, second) order ID, truncation in favour of the resting   *)
(* orders.                                                                 *)
(*                                                                         *)
(* A match is a cycle of orders: a plan for instrument S->D (one order, or *)
(* two through a bridge denomination) and the best order of the mirror     *)
(* book D->S, the counterparty.  The counterparty gives q of D to the      *)
(* plan's last order, every plan order pays on what it received at its own *)
(* price (truncated), and the first order pays the counterparty in S.      *)
(***************************************************************************)
EXTENDS MarketTypes, Integers, FiniteSets, Sequences, SequencesExt, Functions

CONSTANTS
    Accounts,            \* account addresses (model values)
    DenomSeq,            \* the denominations in their lexicographic order
    ClientOrderIds,      \* client order ids a caller may choose
    OrderSizes,          \* <<source amount, destination amount>> of submitted orders
    SendAmounts,         \* amounts of external bank transfers
    InitialFunds,        \* every account's initial balance of every denomination
    MaxOrderID,          \* bound on the order ID counter
    MaxMatchesPerBlock   \* the driver's per-block match bound

Denoms == ToSet(DenomSeq)

ASSUME /\ Len(DenomSeq) >= 2 /\ Cardinality(Denoms) = Len(DenomSeq)
       /\ MaxOrderID \in Nat /\ MaxMatchesPerBlock \in Nat \ {0}

VARIABLES
    orders,      \* the order store: live order ID -> Order
    nextID,      \* the global order ID counter
    balances,    \* bank balances: account -> denom -> amount
    phase,       \* "Deliver" (transactions) or "Match" (the driver in BeginBlock)
    pairQueue,   \* currency pairs the driver has still to visit this block
    matches,     \* matches settled in this block
    skipped,     \* matches whose settlement failed in this block
    lastResult,  \* the result of the last operation
    lastFills,   \* the legs the step just settled, after their fill ({} after any other step)
    driverSteps  \* steps the driver has taken in this block

vars == <<orders, nextID, balances, phase, pairQueue, matches, skipped,
          lastResult, lastFills, driverSteps>>

NoOrder == 0

-----------------------------------------------------------------------------
(* Instrument books and execution plans                                    *)

\* The currency pairs in the fixed order the driver visits them.
PairSeq ==
    LET n   == Len(DenomSeq)
        idx == SetToSortSeq({p \in (1..n) \X (1..n) : p[1] < p[2]},
                            LAMBDA x, y : x[1] < y[1] \/ (x[1] = y[1] /\ x[2] < y[2]))
    IN  [k \in 1..Len(idx) |-> <<DenomSeq[idx[k][1]], DenomSeq[idx[k][2]]>>]

\* The instrument S->D: the live orders offering S for D.
Book(s, d) ==
    {id \in DOMAIN orders : orders[id].Source.denom = s /\ orders[id].Destination.denom = d}

\* The head of a book under OrderPriorityComparator.
Best(s, d) ==
    IF Book(s, d) = {} THEN NoOrder
    ELSE CHOOSE id \in Book(s, d) :
            \A x \in Book(s, d) : OrderPriorityComparator(orders[id], orders[x]) <= 0

\* Matches whose plan is on instrument s->d: direct, or through a bridge c.
MatchesFor(s, d) ==
    LET y == Best(d, s) IN
    IF y = NoOrder THEN {}
    ELSE (IF Best(s, d) = NoOrder THEN {} ELSE {[legs |-> <<Best(s, d)>>, counter |-> y]})
         \cup
         { [legs |-> <<Best(s, c), Best(c, d)>>, counter |-> y] :
              c \in {c \in Denoms \ {s, d} : Best(s, c) # NoOrder /\ Best(c, d) # NoOrder} }

\* ExecutionPlan.Price: the product of the leg prices.
PlanPrice(m) ==
    IF Len(m.legs) = 1 THEN orders[m.legs[1]].price
    ELSE DecMul(orders[m.legs[1]].price, orders[m.legs[2]].price)

\* The ExecutionPlan of a match: its price and its orders.
Plan(m) == ExecutionPlan(PlanPrice(m), [i \in DOMAIN m.legs |-> orders[m.legs[i]]])

\* The combined price of the cycle; it crosses when at most one.
CrossPrice(m) == DecMul(PlanPrice(m), orders[m.counter].price)

\* The crossing candidates of a pair still open in this block.
Candidates(pair) ==
    {m \in MatchesFor(pair[1], pair[2]) \cup MatchesFor(pair[2], pair[1]) : CrossPrice(m) <= ONE}
        \ skipped

\* The lowest combined price, ties by (first, second) order ID.
BestMatch(pair) ==
    LET rank(m) == <<CrossPrice(m), m.legs[1], IF Len(m.legs) = 2 THEN m.legs[2] ELSE 0>>
        less(a, b) == \/ a[1] < b[1]
                      \/ a[1] = b[1] /\ a[2] < b[2]
                      \/ a[1] = b[1] /\ a[2] = b[2] /\ a[3] < b[3]
        cands == Candidates(pair)
    IN  CHOOSE m \in cands : \A m2 \in cands \ {m} : less(rank(m), rank(m2))

\* The amount of D the counterparty gives: the plan's destination capacity,
\* capped by what the counterparty has left and by the S it still wants,
\* floored to whole units.
MatchCapacity(m) ==
    LET y == orders[m.counter] IN
    TruncateInt(MinDec(MinDec(DestinationCapacity(Plan(m)), ToDec(y.SourceRemaining)),
                       DecMul(ToDec(y.Destination.amount - y.DestinationFilled), PlanPrice(m))))

-----------------------------------------------------------------------------
(* Settlement                                                              *)

\* What an order pays for receiving q of its destination, truncated.
Consumed(q, o) == TruncateInt(DecQuo(ToDec(q), o.price))

\* The fill of every order of the match: ID -> <<consumed, produced>>, and
\* the bank payments it takes.
Settlement(m, q) ==
    LET y     == orders[m.counter]
        n     == Len(m.legs)
        last  == orders[m.legs[n]]
        first == orders[m.legs[1]]
        c     == Consumed(q, last)
        a     == IF n = 2 THEN Consumed(c, first) ELSE c
    IN  [ fills    |-> (m.counter :> <<q, a>>) @@ (m.legs[n] :> <<c, q>>)
                         @@ (IF n = 2 THEN m.legs[1] :> <<a, c>> ELSE <<>>),
          payments |-> << [from |-> y.Owner, to |-> last.Owner, denom |-> y.Source.denom, amount |-> q],
                          [from |-> last.Owner, to |-> IF n = 2 THEN first.Owner ELSE y.Owner,
                           denom |-> last.Source.denom, amount |-> c] >>
                       \o (IF n = 2
                           THEN << [from |-> first.Owner, to |-> y.Owner,
                                    denom |-> first.Source.denom, amount |-> a] >>
                           ELSE <<>>) ]

\* Every payer holds what it pays (the payments are in distinct denoms).
Funded(payments) ==
    \A i \in DOMAIN payments :
        balances[payments[i].from][payments[i].denom] >= payments[i].amount

\* TransferBalance of the bank.
Pay(bal, p) == [bal EXCEPT ![p.from][p.denom] = @ - p.amount,
                           ![p.to][p.denom]   = @ + p.amount]

\* One leg's fill counters.
Fill(o, consumed, produced) ==
    [o EXCEPT !.SourceRemaining   = @ - consumed,
              !.SourceFilled      = @ + consumed,
              !.DestinationFilled = @ + produced]

-----------------------------------------------------------------------------
(* Operations                                                              *)

Init ==
    /\ orders     = <<>>
    /\ nextID     = 1
    /\ balances   = [a \in Accounts |-> [d \in Denoms |-> InitialFunds]]
    /\ phase      = "Deliver"
    /\ pairQueue  = <<>>
    /\ matches    = 0
    /\ skipped    = {}
    /\ lastResult = "none"
    /\ lastFills  = {}
    /\ driverSteps = 0

LiveClientOrder(owner, clientOrderId) ==
    {id \in DOMAIN orders : orders[id].Owner = owner /\ orders[id].ClientOrderID = clientOrderId}

\* The owner already has a live order with this client order id.
DuplicateClientOrderId(owner, s, d, clientOrderId) ==
    LiveClientOrder(owner, clientOrderId) # {}

\* Submit an order: NewOrder's validation, the per-owner uniqueness of the
\* client order id, then an ID from the counter and entry into its book.
NewOrderSingle(owner, s, d, size, clientOrderId) ==
    LET src == Coin(s, size[1])
        dst == Coin(d, size[2])
        err == NewOrderError(src, dst, owner, clientOrderId)
    IN  /\ phase = "Deliver"
        /\ nextID <= MaxOrderID
        /\ \/ /\ err # "ok"
              /\ lastResult' = err
              /\ UNCHANGED <<orders, nextID>>
           \/ /\ err = "ok"
              /\ DuplicateClientOrderId(owner, s, d, clientOrderId)
              /\ lastResult' = "ErrNonUniqueClientOrderId"
              /\ UNCHANGED <<orders, nextID>>
           \/ /\ err = "ok"
              /\ ~DuplicateClientOrderId(owner, s, d, clientOrderId)
              /\ orders' = orders @@ (nextID :> [NewOrder(src, dst, owner, clientOrderId) EXCEPT !.ID = nextID])
              /\ nextID' = nextID + 1
              /\ lastResult' = "ok"
        /\ lastFills' = {}
        /\ UNCHANGED <<balances, phase, pairQueue, matches, skipped, driverSteps>>

\* CancelOrder(owner, clientOrderId): NotFound unless the owner has such a
\* live order; otherwise it leaves its book and the store.
CancelOrder(owner, clientOrderId) ==
    /\ phase = "Deliver"
    /\ \/ /\ LiveClientOrder(owner, clientOrderId) = {}
          /\ lastResult' = "ErrOrderNotFound"
          /\ UNCHANGED orders
       \/ /\ LiveClientOrder(owner, clientOrderId) # {}
          /\ orders' = Restrict(orders, DOMAIN orders \ LiveClientOrder(owner, clientOrderId))
          /\ lastResult' = "ok"
    /\ lastFills' = {}
    /\ UNCHANGED <<nextID, balances, phase, pairQueue, matches, skipped, driverSteps>>

\* A transfer by another module or account: balances move under the market.
BankSend(from, to, d, amount) ==
    /\ phase = "Deliver"
    /\ from # to
    /\ balances[from][d] >= amount
    /\ balances' = Pay(balances, [from |-> from, to |-> to, denom |-> d, amount |-> amount])
    /\ lastFills' = {}
    /\ UNCHANGED <<orders, nextID, phase, pairQueue, matches, skipped, lastResult, driverSteps>>

\* BeginBlocker: the driver starts over all pairs.
BeginBlock ==
    /\ phase = "Deliver"
    /\ phase' = "Match"
    /\ pairQueue' = PairSeq
    /\ matches' = 0
    /\ skipped' = {}
    /\ driverSteps' = 0
    /\ lastFills' = {}
    /\ UNCHANGED <<orders, nextID, balances, lastResult>>

\* The per-block bound is hit: the rest waits for the next block.
MatchBoundReached ==
    /\ phase = "Match"
    /\ matches = MaxMatchesPerBlock
    /\ phase' = "Deliver"
    /\ driverSteps' = driverSteps + 1
    /\ lastFills' = {}
    /\ UNCHANGED <<orders, nextID, balances, pairQueue, matches, skipped, lastResult>>

\* Fault model of NextPair: the pair left while its best match still has
\* capacity.
NextPairNoCapacityCheck ==
    /\ phase = "Match"
    /\ pairQueue # <<>>
    /\ matches < MaxMatchesPerBlock
    /\ pairQueue' = Tail(pairQueue)
    /\ phase' = IF Tail(pairQueue) = <<>> THEN "Deliver" ELSE "Match"
    /\ driverSteps' = driverSteps + 1
    /\ lastFills' = {}
    /\ UNCHANGED <<orders, nextID, balances, matches, skipped, lastResult>>

\* No candidate, or the best has no capacity: on to the next pair.
NextPair ==
    LET pair == Head(pairQueue) IN
    /\ phase = "Match"
    /\ pairQueue # <<>>
    /\ matches < MaxMatchesPerBlock
    /\ IF Candidates(pair) = {} THEN TRUE ELSE MatchCapacity(BestMatch(pair)) = 0
    /\ pairQueue' = Tail(pairQueue)
    /\ phase' = IF Tail(pairQueue) = <<>> THEN "Deliver" ELSE "Match"
    /\ driverSteps' = driverSteps + 1
    /\ lastFills' = {}
    /\ UNCHANGED <<orders, nextID, balances, matches, skipped, lastResult>>

\* Fault model of SettleFailed: the failed match not set aside.
SettleFailedNoSkip(m) ==
    /\ lastResult' = "ErrInsufficientBalance"
    /\ lastFills' = {}
    /\ UNCHANGED <<orders, balances, matches, skipped>>

\* A settlement whose payments are not all funded: nothing moves, the match
\* is set aside for the rest of the block and the driver tries the next best.
SettleFailed(m) ==
    /\ skipped' = skipped \cup {m}
    /\ lastResult' = "ErrInsufficientBalance"
    /\ lastFills' = {}
    /\ UNCHANGED <<orders, balances, matches>>

\* Settle the best match of the pair: all payments or none, fill counters,
\* and retirement of every leg that IsFilled.
Settle ==
    LET pair == Head(pairQueue) IN
    /\ phase = "Match"
    /\ pairQueue # <<>>
    /\ matches < MaxMatchesPerBlock
    /\ Candidates(pair) # {}
    /\ \E m \in {BestMatch(pair)} : \E q \in {MatchCapacity(m)} :
        LET st  == Settlement(m, q)
            upd == [id \in DOMAIN st.fills |-> Fill(orders[id], st.fills[id][1], st.fills[id][2])]
        IN  /\ q > 0
            /\ \/ /\ Funded(st.payments)
                  /\ balances' = FoldLeft(Pay, balances, st.payments)
                  /\ orders' = [id \in (DOMAIN orders \ DOMAIN upd) \cup {i \in DOMAIN upd : ~IsFilled(upd[i])}
                                  |-> IF id \in DOMAIN upd THEN upd[id] ELSE orders[id]]
                  /\ matches' = matches + 1
                  /\ lastFills' = Range(upd)
                  /\ lastResult' = "ok"
                  /\ UNCHANGED skipped
               \/ /\ ~Funded(st.payments)
                  /\ SettleFailed(m)
    /\ driverSteps' = driverSteps + 1
    /\ UNCHANGED <<nextID, phase, pairQueue>>

MatchStep == MatchBoundReached \/ NextPair \/ Settle

Next ==
    \/ \E o \in Accounts, s, d \in Denoms, size \in OrderSizes, c \in ClientOrderIds :
           NewOrderSingle(o, s, d, size, c)
    \/ \E o \in Accounts, c \in ClientOrderIds : CancelOrder(o, c)
    \/ \E f, t \in Accounts, d \in Denoms, a \in SendAmounts : BankSend(f, t, d, a)
    \/ BeginBlock
    \/ MatchStep

\* The driver runs to completion inside BeginBlocker: it is never left
\* unfinished.
Spec == Init /\ [][Next]_vars /\ WF_vars(MatchStep)

-----------------------------------------------------------------------------
(* Properties                                                              *)

OrderType ==
    [ ID : 1..MaxOrderID, Owner : Accounts, ClientOrderID : ClientOrderIds,
      Source : [denom : Denoms, amount : Nat], SourceRemaining : Int,
      SourceFilled : Int, Destination : [denom : Denoms, amount : Nat],
      DestinationFilled : Int, price : Nat \ {0} ]

TypeOK ==
    /\ DOMAIN orders \subseteq 1..MaxOrderID
    /\ \A id \in DOMAIN orders : orders[id] \in OrderType /\ orders[id].ID = id
    /\ nextID \in 1..MaxOrderID + 1
    /\ balances \in [Accounts -> [Denoms -> Int]]
    /\ phase \in {"Deliver", "Match"}
    /\ matches \in 0..MaxMatchesPerBlock
    /\ lastFills \subseteq OrderType
    /\ driverSteps \in Nat

\* Spec 4.3 and 8: the capacity computed by ExecutionPlan.DestinationCapacity,
\* carried back through every leg with sdk.Dec rounding, never makes a leg
\* pay more than it has left nor receive more than its destination amount.
NoOverfill ==
    \A o \in lastFills :
        /\ o.SourceRemaining >= 0
        /\ o.DestinationFilled <= o.Destination.amount

\* Spec 4.2 and 8: within an instrument an order is never filled while an
\* earlier order at the same or a better price rests unfilled beside it
\* (OrderPriorityComparator orders by price, then by ID).
PriceTimePriority ==
    \A i, j \in DOMAIN orders :
        /\ orders[i].Source.denom = orders[j].Source.denom
        /\ orders[i].Destination.denom = orders[j].Destination.denom
        /\ i < j
        /\ orders[i].price <= orders[j].price
        => orders[j].SourceFilled = 0

\* The driver's progress measure: matches left under the bound, pairs left
\* to visit, open candidates of the current pair.
DriverVariant ==
    <<MaxMatchesPerBlock - matches, Len(pairQueue),
      IF pairQueue = <<>> THEN 0 ELSE Cardinality(Candidates(Head(pairQueue)))>>

LexLess(a, b) == \E i \in DOMAIN a : a[i] < b[i] /\ \A j \in 1..(i - 1) : a[j] = b[j]

\* Spec 4.5: every matching pass of BeginBlocker ends, even when a
\* settlement keeps failing for lack of funds: every driver step that stays
\* in the pass strictly decreases DriverVariant (a well-founded measure), so
\* with deadlock freedom the pass reaches "Deliver".
DriverProgress ==
    [][phase = "Match" /\ phase' = "Match" => LexLess(DriverVariant', DriverVariant)]_vars

\* Spec 4.1 and 3: the price is dst / src "with no rounding", so an order
\* NewOrder accepts can buy its whole destination, at least one unit, and is
\* not IsFilled before any fill.
FreshOrderExecutable ==
    \A id \in DOMAIN orders : orders[id].SourceFilled = 0 => ~IsFilled(orders[id])

\* A crossing match of some pair that has capacity, whose payments are
\* funded and in which every party pays something: settling it now would
\* be a real exchange.
ExecutableMatch ==
    \E k \in DOMAIN PairSeq :
        \E m \in MatchesFor(PairSeq[k][1], PairSeq[k][2]) \cup MatchesFor(PairSeq[k][2], PairSeq[k][1]) :
            /\ CrossPrice(m) <= ONE
            /\ MatchCapacity(m) > 0
            /\ Funded(Settlement(m, MatchCapacity(m)).payments)
            /\ \A p \in Range(Settlement(m, MatchCapacity(m)).payments) : p.amount > 0

\* The chain keeps producing blocks and every matching pass ends: the
\* fairness of consensus and of the driver, as a condition on behaviours.
BlocksKeepComing == []<>(phase = "Match") /\ []<>(phase = "Deliver")

\* Spec 2 and 4.5: the driver, run at every block, repeats "until no
\* profitable plan remains": with blocks produced forever, a match that
\* could be settled is eventually settled or otherwise gone.
MatchesEventuallyExecuted == BlocksKeepComing => (ExecutableMatch ~> ~ExecutableMatch)

-----------------------------------------------------------------------------
(* Refinement of Exchange                                                  *)

\* An order as the users see it: everything but the internal price.
AbsOrder(o) == [f \in DOMAIN o \ {"price"} |-> o[f]]

Abs == INSTANCE Exchange WITH
    book     <- [id \in DOMAIN orders |-> AbsOrder(orders[id])],
    nextId   <- nextID,
    trade    <- {AbsOrder(r) : r \in lastFills}

\* The market implements Exchange: every admission, cancellation, transfer
\* and driver step of the detailed model is a step of the abstract exchange
\* or leaves what users see unchanged; in particular every settlement
\* (Settlement, Funded, Pay, Fill and the IsFilled retirement) is a
\* zero-sum trade in which no order gives more than it has left, receives
\* more than it wants, or loses a whole unit against its limit price.
ImplementsExchange == Abs!Spec

=============================================================================
