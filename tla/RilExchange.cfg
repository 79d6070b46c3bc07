SPECIFICATION ExchangeSpec
CONSTANTS
    Null = Null
    AddressMax = 2
    SubaddressMax = 2
    BearerMax = 3
    Parcels <- MCParcels
    Answers <- MCAnswers
    Events <- MCEvents
INVARIANTS
    Marshalled
PROPERTIES
    ReadsBack
