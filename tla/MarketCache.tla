---------------------------- MODULE MarketCache -----------------------------
(***************************************************************************)
(* The BestPlan cache of an Instrument (x/market/types/types.go, the      *)
(* BestPlan field) laid over the market of module Market.                 *)
(*                                                                         *)
(* An Instrument S->D caches the best ExecutionPlan that converts S to D:  *)
(* its own head order, or the heads of S->C and C->D through a bridge C.  *)
(* The keeper that keeps the cache is not among the sources; the rules    *)
(* follow the spec: the plan is "recomputed on demand" and the cache is   *)
(* "invalidated whenever the book changes" (section 3), and "any stale    *)
(* reference (an order already retired) invalidates the plan and forces   *)
(* recomputation" (section 9).                                             *)
(*                                                                         *)
(* The driver of Market reads the plans of both instruments of the pair   *)
(* it visits; a read takes the cached plan while all its orders are live  *)
(* and otherwise computes and caches a fresh one.  Every step then drops   *)
(* the cache of each instrument whose book it changed.  Market's own       *)
(* actions are unchanged: the cache is checked against what a fresh        *)
(* computation would give, not used to drive the match.                    *)
(***************************************************************************)
EXTENDS Market

VARIABLE bestPlan   \* instrument <<S, D>> -> cached plan (order IDs), NoPlan when empty

cvars == <<vars, bestPlan>>

Instruments == {i \in Denoms \X Denoms : i[1] # i[2]}

NoPlan == <<>>

\* The plans of instrument s->d: the head of its book, or the heads of
\* s->c and c->d.
PlansOf(s, d) ==
    (IF Best(s, d) = NoOrder THEN {} ELSE {<<Best(s, d)>>})
    \cup { <<Best(s, c), Best(c, d)>> :
              c \in {c \in Denoms \ {s, d} : Best(s, c) # NoOrder /\ Best(c, d) # NoOrder} }

\* The best plan of s->d: lowest price, ties by order IDs.
FreshPlan(s, d) ==
    LET ps == PlansOf(s, d)
        rank(p) == <<PlanPrice([legs |-> p]), p[1], IF Len(p) = 2 THEN p[2] ELSE 0>>
    IN  IF ps = {} THEN NoPlan
        ELSE CHOOSE p \in ps : \A p2 \in ps \ {p} : LexLess(rank(p), rank(p2))

\* A cached plan the keeper would use: present, no order of it retired.
Usable(p) == p # NoPlan /\ \A k \in DOMAIN p : p[k] \in DOMAIN orders

\* Reading the plan of an instrument: the cached one if usable, else fresh.
ReadPlan(i) == IF Usable(bestPlan[i]) THEN bestPlan[i] ELSE FreshPlan(i[1], i[2])

\* The book of instrument i with its orders' state.
BookState(i) == [id \in Book(i[1], i[2]) |-> orders[id]]

\* The step changes the book of instrument i.
Changed(i) == BookState(i)' # BookState(i)

\* The cache after a step that reads the instruments in read: what was
\* read is cached, then every changed book's cache is dropped.
CacheStep(read) ==
    bestPlan' = [i \in Instruments |->
                    IF Changed(i) THEN NoPlan
                    ELSE IF i \in read THEN ReadPlan(i) ELSE bestPlan[i]]

CInit == Init /\ bestPlan = [i \in Instruments |-> NoPlan]

\* Market's steps: the driver's NextPair and Settle read the plans of the
\* pair's two instruments; the other steps read none.
CNext ==
    \/ /\ \/ \E o \in Accounts, s, d \in Denoms, size \in OrderSizes, c \in ClientOrderIds :
                 NewOrderSingle(o, s, d, size, c)
          \/ \E o \in Accounts, c \in ClientOrderIds : CancelOrder(o, c)
          \/ \E f, t \in Accounts, d \in Denoms, a \in SendAmounts : BankSend(f, t, d, a)
          \/ BeginBlock
          \/ MatchBoundReached
       /\ CacheStep({})
    \/ /\ NextPair \/ Settle
       /\ CacheStep({Head(pairQueue), <<Head(pairQueue)[2], Head(pairQueue)[1]>>})

CSpec == CInit /\ [][CNext]_cvars

-----------------------------------------------------------------------------
(* Properties                                                              *)

\* Spec 3 and 9: a cached plan that the keeper would still use (none of
\* its orders retired) is the plan a fresh computation selects, through
\* any admissions, cancellations and settlements in the books it draws on.
CachedPlanCurrent ==
    \A i \in Instruments : Usable(bestPlan[i]) => bestPlan[i] = FreshPlan(i[1], i[2])

=============================================================================
