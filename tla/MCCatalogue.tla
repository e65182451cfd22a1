---------------------------- MODULE MCCatalogue ----------------------------
(* Two printings of one card, the card without a printing, a basic land,   *)
(* and two spellings of a card the mirror does not know.                   *)
EXTENDS Catalogue

Card(name, oracle, printing) == [name |-> name, oracle |-> oracle, printing |-> printing]
Row(card, qty) == card @@ [qty |-> qty]
Listed(card, qty, section) == Row(card, qty) @@ [section |-> section]

Bolt1 == Card("bolt", "oBolt", "pBolt1")
Bolt2 == Card("BOLT", "oBolt", "pBolt2")
Bolt0 == Card("bolt", "oBolt", None)
Forest == Card("forest", "oForest", "pForest")
Token == Card("token", None, None)
TOKEN == Card("TOKEN", None, None)

MCNormalName == [n \in {"bolt", "BOLT", "forest", "token", "TOKEN"} |->
                    CASE n \in {"bolt", "BOLT"} -> "bolt" [] n = "forest" -> n [] OTHER -> "token"]
MCOracleOf == [p \in {"pBolt1", "pBolt2", "pForest"} |-> IF p = "pForest" THEN "oForest" ELSE "oBolt"]
MCCollation == [x \in {"bolt", "BOLT", "forest", "token", "TOKEN", "pBolt1", "pBolt2", "pForest"} |->
                    CASE x \in {"bolt", "token", "pBolt2"} -> 2 [] OTHER -> 1]
MCBasicLands == {"forest"}

MCOwnedRows == {Row(Bolt1, 1), Row(Bolt2, 1), Row(Bolt0, 2), Row(Forest, 1), Row(TOKEN, 1)}
MCListRows ==
    {Listed(card, 1, "mainboard") : card \in {Bolt1, Bolt0, Forest, Token}}
        \cup {Listed(Bolt2, 2, "commander"), Listed(Forest, 1, "sideboard")}

Quote(card, provider, market, price) ==
    [card |-> card, provider |-> provider, market |-> market, price |-> price]
MCQuotes ==
    {Quote("pBolt1", "mtgjson", "usd", 5), Quote("pBolt1", "scryfall", "usd", 2),
     Quote("pBolt2", "scryfall", "usd", 3), Quote("pBolt2", "scryfall", "eur", 1),
     Quote("pForest", "scryfall", "usd", 1), Quote("pForest", "mtgjson", "usd", 0)}
MCProfiles ==
    {[priority |-> <<"mtgjson", "scryfall">>, market |-> "usd"],
     [priority |-> <<"scryfall">>, market |-> "usd"],
     [priority |-> <<"mtgjson", "scryfall">>, market |-> "eur"]}
MCBudgets == {-1, 0, 5}
Symmetry == Permutations(Lists)
=============================================================================
