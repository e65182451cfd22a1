------------------------------ MODULE Catalogue ------------------------------
(***************************************************************************)
(* The tables the figures are computed from, filled by confirmed imports   *)
(* and by price syncs and entries, and the figures themselves: what the    *)
(* list and shopping-list pages answer row by row must be what the         *)
(* dashboard answers by its aggregates, and both must be true of the       *)
(* tables.  Every state of the tables is one in which anybody may ask.     *)
(* An import of several rows is several imports of one row.                *)
(***************************************************************************)
EXTENDS DashboardQueries

CONSTANTS
    Lists,      \* saved lists
    OwnedRows,  \* rows an import can put into the collection
    ListRows,   \* rows an import can put into a list
    Quotes,     \* observations the providers can make
    Profiles,   \* price profiles
    Budgets,    \* budgets of a shopping list
    MaxRows     \* bound: rows of all tables together

\* A quantity that is not positive is a row error, no row.  A row is resolved to a printing together with
\* its oracle id, which every printing of the mirror has; a price is of a card of the mirror (foreign key)
ASSUME CatalogueAssumption ==
    /\ IsFiniteSet(Lists)
    /\ \A row \in OwnedRows \cup ListRows : row.qty \in Nat \ {0}
    /\ \A row \in ListRows : /\ DOMAIN row = {"name", "oracle", "printing", "qty", "section"}
                             /\ Collation[row.name] \in Int
                             /\ row.oracle = None => row.printing = None
    /\ \A quote \in Quotes : quote.price \in Nat /\ quote.card \in DOMAIN OracleOf
    /\ \A profile \in Profiles : profile.priority \in Seq(ToSet(profile.priority))
    /\ Budgets \subseteq Int
    /\ LeverageSize \in Nat /\ SeriesLimit \in Nat
    /\ None \notin Budgets /\ None \notin Profiles /\ None \notin ListRows

VARIABLES
    owned,        \* collection_items of the default collection
    lists,        \* card_list_items of each list
    observations  \* price_observations

vars == <<owned, lists, observations>>

Init ==
    /\ owned = <<>>
    /\ lists = [id \in Lists |-> <<>>]
    /\ observations = {}

Room == Len(owned) + SumFunction([id \in Lists |-> Len(lists[id])]) + Cardinality(observations) < MaxRows

ImportOwned(row) ==
    /\ Room
    /\ owned' = Append(owned, row)
    /\ UNCHANGED <<lists, observations>>

ImportListed(id, row) ==
    /\ Room
    /\ lists' = [lists EXCEPT ![id] = Append(@, row)]
    /\ UNCHANGED <<owned, observations>>

SamePrice(o, p) == o.card = p.card /\ o.provider = p.provider /\ o.market = p.market

RecordPrice(quote) ==
    /\ Room
    /\ observations' = {o \in observations : ~SamePrice(o, quote)} \cup {quote}
    /\ UNCHANGED <<owned, lists>>

Next ==
    \/ \E row \in OwnedRows : ImportOwned(row)
    \/ \E id \in Lists, row \in ListRows : ImportListed(id, row)
    \/ \E quote \in Quotes : RecordPrice(quote)

Spec == Init /\ [][Next]_vars

-----------------------------------------------------------------------------
(* Properties *)

Ids == SetToSeq(Lists)

(* What it means that an owned card serves a requirement *)
Serves(card, row, mode) ==
    IF mode = "printing" THEN row.printing # None /\ card.printing = row.printing
    ELSE \/ row.oracle # None /\ card.oracle = row.oracle
         \/ row.oracle = None /\ card.oracle = None /\ NormalName[card.name] = NormalName[row.name]

\* How many copies among some rows serve a requirement
QuantityFor(rows, row, mode) == TotalQuantity(Where(rows, LAMBDA card : Serves(card, row, mode)))

\* How many copies some lines are short of, and how many of one card
ShortOf(missing) == FoldLeft(LAMBDA n, line : n + line.short, 0, missing)
LackingFor(missing, row, mode) == ShortOf(Where(missing, LAMBDA line : Serves(line.card, row, mode)))

Exact(result, rows, mode) ==
    LET have(row) == QuantityFor(owned, row, mode)
        want(row) == QuantityFor(rows, row, mode)
    IN /\ \A row \in ToSet(rows) : LackingFor(result.missing, row, mode) = Max({want(row) - have(row), 0})
       /\ result.buildable <=> \A row \in ToSet(rows) : Serves(row, row, mode) /\ want(row) <= have(row)
       /\ result.applied + ShortOf(result.missing) = result.total

(* Several lines, of one list or of several, that want the same card share *)
(* the owned copies of it: for every card, what is reported missing is the *)
(* demand less what is owned, what is applied is the smaller of the two,   *)
(* and a list is buildable exactly when no demand exceeds what is owned.   *)
ComparisonIsExact ==
    \A mode \in Modes : \A rows \in {RequiredCards(lists[id]) : id \in Lists} \cup {RequiredCardsOf(lists, Ids)} :
        Exact(Compare(owned, rows, mode), rows, mode)

Delivers(c, mode) ==
    LET bought == [name |-> c.name, oracle |-> c.oracle, printing |-> c.printing, qty |-> c.quantity]
        before == [id \in Lists |-> RunListComparison(owned, lists, id, mode)]
        after == [id \in Lists |-> RunListComparison(Append(owned, bought), lists, id, mode)]
        gains == {id \in Lists : after[id].applied > before[id].applied}
    IN /\ c.unlocks = Cardinality({id \in Lists : after[id].buildable /\ ~before[id].buildable})
       /\ c.gain = Hundredths(SumOfFractions([id \in gains |->
                                   <<after[id].applied - before[id].applied, after[id].total>>]))

(* Buying what a candidate of the leverage ranking says, and nothing else, *)
(* completes as many lists as it says and gains the coverage it says.      *)
(* Requirements without a printing are left aside in printing mode: no     *)
(* purchase can serve them.                                                *)
PurchaseDelivers ==
    \A mode \in Modes : \A c \in ComputeLeverage(owned, lists, Ids, mode) :
        (mode = "printing" => c.printing # None) => Delivers(c, mode)

\* The lists as the engine compares them, and the same cards as precon decks
SameCoverage(built, precons) ==
    /\ \A id \in Lists : LET result == RunListComparison(owned, lists, id, "oracle")
                         IN built[id] = [coverage |-> result.coverage, buildable |-> result.buildable]
    /\ \A id \in Lists : \E i \in DOMAIN precons : precons[i].deck = id
    /\ \A i \in DOMAIN precons : /\ built[precons[i].deck].coverage = precons[i].coverage
                                 /\ \A j \in 1..i : precons[j].coverage >= precons[i].coverage

Figures(c) == <<OracleKey(c), c.quantity, c.unlocks, c.gain>>

ShowsBest(shown, candidates) ==
    LET advised == {c \in candidates : NormalName[c.name] \notin BasicLands}
    IN /\ shown \subseteq advised /\ Cardinality(shown) = Min({LeverageSize, Cardinality(advised)})
       /\ \A c \in advised \ shown, d \in shown : ~Better(c, d)

\* Lists left out have the limit's worth of lists that are no worse in each ranking they are in
NamesBest(exported, built, cost) ==
    \A id \in Lists \ exported :
        /\ Cardinality({l \in Lists \ {id} : built[l].coverage >= built[id].coverage}) >= SeriesLimit
        /\ id \in DOMAIN cost => Cardinality({l \in DOMAIN cost \ {id} : cost[l] <= cost[id]}) >= SeriesLimit

(* The dashboard's aggregates say of every list and of every candidate     *)
(* what the engine says row by row; a precon deck of the same cards has    *)
(* the same coverage.  The candidates it shows are the best ones that are  *)
(* not basic lands, and the exporter leaves a list out only for better     *)
(* ones of both its rankings.                                              *)
DashboardAgrees ==
    /\ SameCoverage(ComputeListBuildability(OwnedPool(owned, "oracle"), lists),
                    ListPreconDecksWithCoverage(owned, [id \in Lists |-> RequiredCards(lists[id])]))
    /\ {Figures(c) : c \in ComputeLeverageAtScale(OwnedPool(owned, "oracle"), lists)}
            = {Figures(c) : c \in ComputeLeverage(owned, lists, Ids, "oracle")}
    /\ \A profile \in Profiles :
        LET summary == DashboardSummary(owned, lists, observations, profile)
        IN /\ summary.fullyBuildable
                    = Cardinality({id \in Lists : RunListComparison(owned, lists, id, "oracle").buildable})
           /\ ShowsBest({top.candidate : top \in ToSet(summary.topLeverage)},
                        ComputeLeverageAtScale(OwnedPool(owned, "oracle"), lists))
           /\ NamesBest(ExportedLists(summary), summary.buildability, summary.missingCost)

CostAgrees(page, deck, summary, id) ==
    /\ id \in DOMAIN summary.missingCost <=> page.comparison.missing # <<>> /\ UnpricedOf(page.priced) = <<>>
    /\ id \in DOMAIN summary.missingCost => /\ summary.missingCost[id] = CostOf(page.priced)
                                            /\ deck.unpriced = 0 /\ deck.cost = CostOf(page.priced)
    /\ deck.coverage = summary.buildability[id].coverage

(* One price for one card, whoever asks.  The dashboard shows the cost of  *)
(* completing a list exactly when the list lacks something and the list's  *)
(* own page can price every missing card, and then it is the cost shown    *)
(* there; a discovery deck with the same required cards has the same       *)
(* coverage, and the same cost when every card is priced; and the price of *)
(* a candidate is the price of the missing card.                           *)
CostsAgree ==
    \A profile \in Profiles :
        /\ \A id \in Lists :
            CostAgrees(CompareList(owned, lists, observations, id, "oracle", profile, None),
                       PricePopularDeck(owned, observations, Append(RequiredCards(lists[id]), None), profile),
                       DashboardSummary(owned, lists, observations, profile), id)
        /\ \A top \in ToSet(TopLeverage(OwnedPool(owned, "oracle"), lists, observations, profile)) :
            LET quote == ResolvePriceForMissingCard(observations, top.candidate, profile, "oracle")
            IN top.price = IF quote = None THEN None ELSE quote.price

\* What the copies bought of some lines cost
PaidFor(lines) == FoldLeft(LAMBDA n, l : n + l.bought * l.line.price, 0, lines)

WellSpent(result, priced, budget) ==
    LET left == {i \in DOMAIN result.lines : result.lines[i].bought < result.lines[i].line.quantity}
        bought == {i \in DOMAIN result.lines : result.lines[i].bought > 0}
        price(i) == result.lines[i].line.price
        priceable == Where(priced, IsPriced)
    IN /\ Len(result.lines) = Len(priceable) /\ {l.line : l \in ToSet(result.lines)} = ToSet(priceable)
       /\ result.spent <= Max({budget, 0})
       /\ result.spent = PaidFor(result.lines)
       /\ \A i \in left : price(i) > result.remaining /\ \A j \in bought : price(j) <= price(i)
       /\ result.covered <=> left = {} /\ UnpricedOf(priced) = <<>>

(* Every card with a price has a line of what is bought of it, a budget is *)
(* never overspent, no other purchase gets more copies for it              *)
(* (nothing dearer is bought while something cheaper is left, and what is  *)
(* left over buys none of what is left), and it is said to cover the list  *)
(* exactly when every missing card has a price and all copies are bought.  *)
BudgetBuysMost ==
    \A mode \in Modes, profile \in Profiles, budget \in Budgets :
        LET page == GetShoppingList(owned, lists, observations, Ids, mode, profile, budget)
        IN WellSpent(page.budget, page.priced, budget)

=============================================================================
