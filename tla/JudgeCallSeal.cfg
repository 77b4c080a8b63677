SPECIFICATION SealSpec

PROPERTY SealHoldsCallFacts
