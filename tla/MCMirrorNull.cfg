SPECIFICATION Spec
CONSTANTS
    card = card
    low = low
    high = high
    item1 = item1
    item2 = item2
    api1 = api1
    api2 = api2
    None = None
    Cards = {card}
    Prices = {low, high}
    Items = {item1, item2}
    Wants <- MCWants
    Requests = {api1, api2}
INVARIANT NullMeansNoMatch
