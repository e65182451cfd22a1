----------------------------- MODULE Comparison -----------------------------
(***************************************************************************)
(* The comparison engine: what a collection covers of the cards a list     *)
(* requires, over one list, over several lists that share the collection,  *)
(* and over a pasted deck; and the leverage of each missing card, that is, *)
(* how many lists buying it completes.                                     *)
(*                                                                         *)
(* A row is [name, oracle, printing, qty]; a list row also has a section.  *)
(* oracle and printing are what the row was resolved to, or None; a row    *)
(* with a printing has an oracle.  Coverage and its gains are percentages  *)
(* rounded to two digits, in hundredths of a percent.                      *)
(***************************************************************************)
EXTENDS Integers, SequencesExt

CONSTANTS
    None,
    NormalName  \* what a card name is once lower-cased and stripped

Modes == {"oracle", "printing"}
RequiredSections == {"mainboard", "commander", "companion"}

\* The rows that pass a test, in their order
Where(rows, Test(_)) ==
    FoldLeft(LAMBDA kept, row : IF Test(row) THEN Append(kept, row) ELSE kept, <<>>, rows)

\* An element put into an ordered sequence, after those it does not precede
Insert(sorted, x, Before(_, _)) ==
    LET next == SelectInSeq(sorted, LAMBDA y : Before(x, y))
    IN IF next = 0 THEN Append(sorted, x) ELSE InsertAt(sorted, next, x)

InOrder(seq, Before(_, _)) == FoldLeft(LAMBDA sorted, x : Insert(sorted, x, Before), <<>>, seq)

\* The bag of n copies of a key
Copies(key, n) == [k \in {key} |-> n]

\* How many copies of a key a bag holds
Held(bag, key) == IF key \in DOMAIN bag THEN bag[key] ELSE 0

-----------------------------------------------------------------------------
(* Which copies count for which requirement: by oracle, the oracle id or   *)
(* else the name; by printing, that printing, and nothing else.            *)

OracleKey(card) ==
    IF card.oracle # None THEN <<"oracle", card.oracle>> ELSE <<"name", NormalName[card.name]>>

HasKey(card, mode) == mode = "oracle" \/ card.printing # None

Key(card, mode) == IF mode = "oracle" THEN OracleKey(card) ELSE <<"printing", card.printing>>

OwnedPool(owned, mode) ==
    FoldLeft(LAMBDA pool, card : IF HasKey(card, mode) THEN pool (+) Copies(Key(card, mode), card.qty) ELSE pool,
             EmptyBag, owned)

-----------------------------------------------------------------------------
(* compare_pool: required lines in order, each taking from the pool what   *)
(* the lines before it have left.                                          *)

(* A percentage rounded to two decimals, a tie to the even one.  The float *)
(* that is rounded is taken for the fraction it stands for.                *)
Hundredths(f) ==
    LET whole == (10000 * f[1]) \div f[2]
        rest == (10000 * f[1]) % f[2]
        up == 2 * rest > f[2] \/ (2 * rest = f[2] /\ whole % 2 = 1)
    IN IF f[2] = 0 THEN 10000 ELSE IF up THEN whole + 1 ELSE whole

\* broken variant: every line sees the whole pool
CompareLineAlone(pool, mode, acc, card) ==
    LET key == Key(card, mode)
        available == IF HasKey(card, mode) THEN Held(pool, key) ELSE 0
        applied == Min({available, card.qty})
    IN [missing |-> IF applied < card.qty
                    THEN Append(acc.missing, [card |-> card, short |-> card.qty - applied])
                    ELSE acc.missing,
        applied |-> acc.applied + applied,
        consumed |-> acc.consumed]

CompareLine(pool, mode, acc, card) ==
    LET key == Key(card, mode)
        available == IF HasKey(card, mode) THEN Max({Held(pool, key) - Held(acc.consumed, key), 0})
                     ELSE 0
        applied == Min({available, card.qty})
    IN [missing |-> IF applied < card.qty
                    THEN Append(acc.missing, [card |-> card, short |-> card.qty - applied])
                    ELSE acc.missing,
        applied |-> acc.applied + applied,
        consumed |-> IF applied > 0 THEN acc.consumed (+) Copies(key, applied) ELSE acc.consumed]

TotalQuantity(rows) == FoldLeft(LAMBDA n, row : n + row.qty, 0, rows)

CompareLines(pool, required, mode) ==
    FoldLeft(LAMBDA acc, card : CompareLine(pool, mode, acc, card),
             [missing |-> <<>>, applied |-> 0, consumed |-> EmptyBag], required)

ComparePool(pool, required, mode) ==
    LET end == CompareLines(pool, required, mode)
        total == TotalQuantity(required)
    IN [total |-> total,
        applied |-> end.applied,
        coverage |-> Hundredths(<<end.applied, total>>),
        buildable |-> end.missing = <<>>,
        missing |-> end.missing]

Compare(owned, required, mode) == ComparePool(OwnedPool(owned, mode), required, mode)

-----------------------------------------------------------------------------
(* The service around it.  A saved list counts without its optional        *)
(* sections; a shopping list compares the required rows of several lists   *)
(* in one go; a pasted deck counts whole, without the rows its parser      *)
(* could not read (a row it could not read is None).                       *)

RequiredCards(rows) == Where(rows, LAMBDA row : row.section \in RequiredSections)

RequiredCardsOf(lists, ids) == FoldLeft(LAMBDA all, id : all \o RequiredCards(lists[id]), <<>>, ids)

RunListComparison(owned, lists, id, mode) == Compare(owned, RequiredCards(lists[id]), mode)

RunShoppingList(owned, lists, ids, mode) == Compare(owned, RequiredCardsOf(lists, ids), mode)

RunComparison(owned, parsed, mode) == Compare(owned, Where(parsed, LAMBDA row : row # None), mode)

(* The cached precon decks, best covered first.  Their cards carry an     *)
(* oracle id at most, never a printing.                                    *)
ListPreconDecksWithCoverage(owned, decks) ==
    LET cards(id) == [i \in DOMAIN decks[id] |-> [decks[id][i] EXCEPT !.printing = None]]
        result(id) == Compare(owned, cards(id), "oracle")
        entry(id) == [deck |-> id, coverage |-> result(id).coverage, buildable |-> result(id).buildable]
    IN InOrder(SetToSeq({entry(id) : id \in DOMAIN decks}), LAMBDA d, e : d.coverage > e.coverage)

-----------------------------------------------------------------------------
(* compute_leverage.  A candidate is a key some list is short of; buying   *)
(* `quantity` copies of it covers the shortfall of all lists together.     *)

CandidateKey(card, mode) ==
    IF mode = "printing" /\ card.printing # None THEN <<"printing", card.printing>> ELSE OracleKey(card)

ShortByKey(missing, mode) ==
    FoldLeft(LAMBDA bag, line : bag (+) Copies(CandidateKey(line.card, mode), line.short),
             EmptyBag, missing)

(* The sum of the fractions a function maps to, itself a fraction *)
SumOfFractions(f) ==
    FoldFunction(LAMBDA x, sum : <<sum[1] * x[2] + x[1] * sum[2], sum[2] * x[2]>>, <<0, 1>>, f)

Candidate(card, quantity, unlocks, gain) ==
    [name |-> card.name, oracle |-> card.oracle, printing |-> card.printing,
     quantity |-> quantity, unlocks |-> unlocks, gain |-> gain]

\* broken variant: a list counts as completed when one of its lines is short
UnlocksByLine(key, baseline, short, mode) ==
    Cardinality({id \in DOMAIN short : key \in DOMAIN short[id] /\ Len(baseline[id].missing) = 1})

Unlocks(key, baseline, short, mode) ==
    Cardinality({id \in DOMAIN short : DOMAIN short[id] = {key}})

ComputeLeverage(owned, lists, ids, mode) ==
    LET pool == OwnedPool(owned, mode)
        baseline == [id \in ToSet(ids) |-> ComparePool(pool, RequiredCards(lists[id]), mode)]
        pooled == ComparePool(pool, RequiredCardsOf(lists, ids), mode).missing
        aggregate == ShortByKey(pooled, mode)
        short == [id \in ToSet(ids) |-> ShortByKey(baseline[id].missing, mode)]
        first(key) == SelectInSeq(pooled, LAMBDA line : CandidateKey(line.card, mode) = key)
        gain(key) == SumOfFractions([id \in {i \in ToSet(ids) : key \in DOMAIN short[i]} |->
                                        <<short[id][key], baseline[id].total>>])
    IN {Candidate(pooled[first(key)].card, aggregate[key],
                  Unlocks(key, baseline, short, mode), Hundredths(gain(key))) : key \in DOMAIN aggregate}

(* Best first: lists completed, then coverage gained *)
Better(c, d) == c.unlocks > d.unlocks \/ (c.unlocks = d.unlocks /\ c.gain > d.gain)
Ranked(candidates) == InOrder(SetToSeq(candidates), Better)

=============================================================================
