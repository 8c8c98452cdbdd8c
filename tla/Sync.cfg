CONSTANTS
    p1 = p1
    c1 = c1
    c2 = c2
    Producers <- MCProducers
    Consumers <- MCConsumers
    PostCounts <- MCPostCounts
    MaxTokens = 4
SPECIFICATION Spec
INVARIANT TypeOK
