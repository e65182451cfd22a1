------------------------------- MODULE Pricing -------------------------------
(***************************************************************************)
(* What a missing card costs.  An observation is [card, provider, market,  *)
(* price]: one price of a printing, at most one per printing, provider and *)
(* market; a market stands for a currency and a foil flag.  A price        *)
(* profile is [priority, market]: the market its prices are taken from and *)
(* the providers in the order in which they are believed.                  *)
(***************************************************************************)
EXTENDS Comparison

CONSTANT OracleOf  \* the mirror: the oracle id of each printing

PrintingsOf(oracle) == {printing \in DOMAIN OracleOf : OracleOf[printing] = oracle}

Cheapest(quotes) ==
    IF quotes = {} THEN None ELSE CHOOSE q \in quotes : \A r \in quotes : q.price <= r.price

-----------------------------------------------------------------------------
(* One card at a time, as the comparison of a list prices its missing      *)
(* cards: the first provider that has a price, for one printing or for the *)
(* cheapest printing of an oracle id.  A quote is an observation or None.  *)

ResolvePrice(observations, printing, profile) ==
    LET from(provider) == {o \in observations : /\ o.card = printing
                                                /\ o.provider = provider
                                                /\ o.market = profile.market}
        first == SelectInSeq(profile.priority, LAMBDA provider : from(provider) # {})
    IN IF first = 0 THEN None ELSE CHOOSE o \in from(profile.priority[first]) : TRUE

ResolveCheapestPriceForOracle(observations, oracle, profile) ==
    Cheapest({ResolvePrice(observations, printing, profile) : printing \in PrintingsOf(oracle)} \ {None})

ResolvePriceForMissingCard(observations, card, profile, mode) ==
    IF mode = "printing" /\ card.printing # None THEN ResolvePrice(observations, card.printing, profile)
    ELSE IF card.oracle # None THEN ResolveCheapestPriceForOracle(observations, card.oracle, profile)
    ELSE IF card.printing # None THEN ResolvePrice(observations, card.printing, profile)
    ELSE None

PriceMissingCards(observations, missing, profile, mode) ==
    [i \in DOMAIN missing |->
        LET quote == ResolvePriceForMissingCard(observations, missing[i].card, profile, mode)
        IN [card |-> missing[i].card, quantity |-> missing[i].short,
            price |-> IF quote = None THEN None ELSE quote.price]]

IsPriced(line) == line.price # None
CostOf(priced) == FoldLeft(LAMBDA n, line : n + line.price * line.quantity, 0, Where(priced, IsPriced))
UnpricedOf(priced) == Where(priced, LAMBDA line : ~IsPriced(line))

-----------------------------------------------------------------------------
(* Many cards at once, as the dashboard prices them: the observations of   *)
(* the profile's market are fetched for all oracle ids and all printings   *)
(* asked for, and each printing is settled by its first provider.          *)

\* broken variant: the cheapest provider settles a printing
SettledByCheapest(fetched, printing, profile) == Cheapest({o \in fetched : o.card = printing})

Settled(fetched, printing, profile) ==
    LET first == SelectInSeq(profile.priority,
                             LAMBDA provider : \E o \in fetched : o.card = printing /\ o.provider = provider)
    IN IF first = 0 THEN None
       ELSE CHOOSE o \in fetched : o.card = printing /\ o.provider = profile.priority[first]

BatchCheapestPrices(observations, oracles, printings, profile) ==
    LET fetched == {o \in observations : /\ o.market = profile.market
                                         /\ OracleOf[o.card] \in oracles \/ o.card \in printings}
        cheapest(cards) == Cheapest({Settled(fetched, card, profile) : card \in cards} \ {None})
        priced(oracle) == {o.card : o \in {p \in fetched : OracleOf[p.card] = oracle}}
    IN [oracle |-> [k \in {x \in oracles : cheapest(priced(x)) # None} |-> cheapest(priced(k)).price],
        printing |-> [k \in {x \in printings : cheapest({x}) # None} |-> cheapest({k}).price]]

\* How both callers of the batch look up the price of a key or a candidate
BatchPrice(batch, card) ==
    IF card.oracle \in DOMAIN batch.oracle THEN batch.oracle[card.oracle]
    ELSE IF card.printing \in DOMAIN batch.printing THEN batch.printing[card.printing]
    ELSE None

BatchPricesFor(observations, cards, profile) ==
    BatchCheapestPrices(observations,
                        {card.oracle : card \in cards} \ {None},
                        {card.printing : card \in {c \in cards : c.oracle = None}} \ {None},
                        profile)

-----------------------------------------------------------------------------
(* apply_budget: cheapest first, as many copies of each as are left for *)

\* broken variant: in the order of the list
InListOrder(priced) == Where(priced, IsPriced)

CheapestFirst(priced) == InOrder(Where(priced, IsPriced), LAMBDA l, m : l.price < m.price)

BuyLine(acc, line) ==
    LET affordable == IF line.price > 0 THEN Max({acc.remaining \div line.price, 0}) ELSE line.quantity
        bought == Min({line.quantity, affordable})
    IN [remaining |-> acc.remaining - bought * line.price,
        lines |-> Append(acc.lines, [line |-> line, bought |-> bought])]

BuyLines(lines, budget) == FoldLeft(BuyLine, [remaining |-> budget, lines |-> <<>>], lines)

ApplyBudget(priced, budget) ==
    LET end == BuyLines(CheapestFirst(priced), budget)
    IN [lines |-> end.lines,
        spent |-> budget - end.remaining,
        remaining |-> end.remaining,
        covered |-> /\ UnpricedOf(priced) = <<>>
                    /\ \A i \in DOMAIN end.lines : end.lines[i].bought = end.lines[i].line.quantity]

-----------------------------------------------------------------------------
(* What the pages of one list and of the shopping list are told: the       *)
(* comparison, and with a profile the prices, and then with a budget what  *)
(* it buys.  Lists, collection and profile are there, or the answer is 404.*)

PriceAndBudgetMissingCards(observations, missing, mode, profile, budget) ==
    LET priced == PriceMissingCards(observations, missing, profile, mode)
    IN IF profile = None THEN [priced |-> None, budget |-> None]
       ELSE [priced |-> priced, budget |-> IF budget = None THEN None ELSE ApplyBudget(priced, budget)]

Answer(observations, result, mode, profile, budget) ==
    LET prices == PriceAndBudgetMissingCards(observations, result.missing, mode, profile, budget)
    IN [comparison |-> result, priced |-> prices.priced, budget |-> prices.budget]

CompareList(owned, lists, observations, id, mode, profile, budget) ==
    Answer(observations, RunListComparison(owned, lists, id, mode), mode, profile, budget)

GetShoppingList(owned, lists, observations, ids, mode, profile, budget) ==
    Answer(observations, RunShoppingList(owned, lists, ids, mode), mode, profile, budget)

-----------------------------------------------------------------------------
(* price_popular_deck: a deck of a discovery source, fetched and compared  *)
(* when its price is asked for.  Unlike a saved list it counts whole, and  *)
(* its cost is what the priced cards cost, with the number of the others.  *)

PricePopularDeck(owned, observations, parsed, profile) ==
    LET result == RunComparison(owned, parsed, "oracle")
        priced == PriceMissingCards(observations, result.missing, profile, "oracle")
    IN [coverage |-> result.coverage, cost |-> CostOf(priced), unpriced |-> Len(UnpricedOf(priced))]

=============================================================================
