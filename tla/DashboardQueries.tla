--------------------------- MODULE DashboardQueries ---------------------------
(***************************************************************************)
(* The dashboard's own computation of the same figures, for collections    *)
(* too large to compare list by list: SQL aggregates over all required     *)
(* rows, grouped by list and key.  What a query returns is a function of   *)
(* the tables; a GROUP BY is a bag or a function over the groups.          *)
(***************************************************************************)
EXTENDS Pricing

CONSTANTS
    BasicLands,   \* names of the cards never worth advising to buy
    Collation,    \* the rank of each name and printing, for MAX
    LeverageSize, \* how many candidates the dashboard shows
    SeriesLimit   \* how many lists of each ranking the exporter names

Greatest(S) == IF S = {} THEN None ELSE CHOOSE x \in S : \A y \in S : Collation[y] <= Collation[x]

-----------------------------------------------------------------------------
(* The CTEs the queries share *)

\* required: the quantity of each key of a list
RequiredByKey(rows) ==
    FoldLeft(LAMBDA bag, row : bag (+) Copies(OracleKey(row), row.qty), EmptyBag, RequiredCards(rows))

\* shortfalls: how far the pool falls short, for each key it does
Shortfalls(pool, required) ==
    LET short == {key \in DOMAIN required : required[key] > Held(pool, key)}
    IN [key \in short |-> required[key] - Held(pool, key)]

\* MAX(name), MAX(oracle id), MAX(printing) of the rows of a key
Representative(lists, key) ==
    LET rows == {row \in UNION {ToSet(RequiredCards(lists[id])) : id \in DOMAIN lists} : OracleKey(row) = key}
    IN [name |-> Greatest({row.name : row \in rows}),
        oracle |-> (CHOOSE row \in rows : TRUE).oracle,
        printing |-> Greatest({row.printing : row \in rows} \ {None})]

-----------------------------------------------------------------------------
(* compute_list_buildability, compute_leverage_at_scale *)

ComputeListBuildability(pool, lists) ==
    [id \in DOMAIN lists |->
        LET required == RequiredByKey(lists[id])
            applied == SumFunction([key \in DOMAIN required |-> Min({required[key], Held(pool, key)})])
        IN [coverage |-> Hundredths(<<applied, SumFunction(required)>>),
            buildable |-> DOMAIN Shortfalls(pool, required) = {}]]

\* broken variant: coverage gained is counted against the short keys only
GainOfShortKeys(required, short, key) == <<short[key], SumFunction([k \in DOMAIN short |-> required[k]])>>

GainOfKey(required, short, key) == <<short[key], SumFunction(required)>>

ComputeLeverageAtScale(pool, lists) ==
    LET required == [id \in DOMAIN lists |-> RequiredByKey(lists[id])]
        short == [id \in DOMAIN lists |-> Shortfalls(pool, required[id])]
        total == FoldSet(LAMBDA id, bag : bag (+) required[id], EmptyBag, DOMAIN lists)
        shortOf(key) == {id \in DOMAIN lists : key \in DOMAIN short[id]}
        gain(key) == SumOfFractions([id \in shortOf(key) |-> GainOfKey(required[id], short[id], key)])
    IN {Candidate(Representative(lists, key),
                  total[key] - Held(pool, key),
                  Cardinality({id \in shortOf(key) : DOMAIN short[id] = {key}}),
                  Hundredths(gain(key))) : key \in {k \in DOMAIN total : total[k] > Held(pool, k)}}

-----------------------------------------------------------------------------
(* compute_list_missing_cost: the cost of completing a list, for the lists *)
(* that lack something and whose every missing card has a price            *)

AllPriced(short, price) == \A key \in DOMAIN short : price[key] # None

ComputeListMissingCost(pool, lists, observations, profile) ==
    LET keys == UNION {DOMAIN RequiredByKey(lists[id]) : id \in DOMAIN lists}
        batch == BatchPricesFor(observations, {Representative(lists, key) : key \in keys}, profile)
        price == [key \in keys |-> BatchPrice(batch, Representative(lists, key))]
        short == [id \in DOMAIN lists |-> Shortfalls(pool, RequiredByKey(lists[id]))]
        cost(id) == SumFunction([key \in DOMAIN short[id] |->
                                    short[id][key] * IF price[key] = None THEN 0 ELSE price[key]])
        costed == {id \in DOMAIN lists : DOMAIN short[id] # {} /\ AllPriced(short[id], price)}
    IN [id \in costed |-> cost(id)]

-----------------------------------------------------------------------------
(* get_dashboard_summary *)

PriceLeverageCandidates(candidates, observations, profile) ==
    LET batch == BatchPricesFor(observations, ToSet(candidates), profile)
    IN [i \in DOMAIN candidates |-> [candidate |-> candidates[i], price |-> BatchPrice(batch, candidates[i])]]

TopLeverage(pool, lists, observations, profile) ==
    LET advised == {c \in ComputeLeverageAtScale(pool, lists) : NormalName[c.name] \notin BasicLands}
        ranked == Ranked(advised)
    IN PriceLeverageCandidates(SubSeq(ranked, 1, Min({LeverageSize, Len(ranked)})), observations, profile)

DashboardSummary(owned, lists, observations, profile) ==
    LET pool == OwnedPool(owned, "oracle")
        built == ComputeListBuildability(pool, lists)
        percents == SumFunction([id \in DOMAIN lists |-> built[id].coverage])
    IN [buildability |-> built,
        fullyBuildable |-> Cardinality({id \in DOMAIN lists : built[id].buildable}),
        average |-> IF DOMAIN lists = {} THEN 0
                    ELSE (2 * percents + Cardinality(DOMAIN lists)) \div (2 * Cardinality(DOMAIN lists)),
        topLeverage |-> TopLeverage(pool, lists, observations, profile),
        missingCost |-> ComputeListMissingCost(pool, lists, observations, profile)]

-----------------------------------------------------------------------------
(* render_metrics: the lists the exporter names, the best covered and the  *)
(* cheapest to complete                                                    *)

Top(S, Before(_, _)) ==
    LET ranked == InOrder(SetToSeq(S), Before) IN ToSet(SubSeq(ranked, 1, Min({SeriesLimit, Len(ranked)})))

ExportedLists(summary) ==
    LET coverage(id) == summary.buildability[id].coverage
        cost(id) == summary.missingCost[id]
    IN Top(DOMAIN summary.buildability, LAMBDA i, j : coverage(i) > coverage(j))
            \cup Top(DOMAIN summary.missingCost, LAMBDA i, j : cost(i) < cost(j))

=============================================================================
