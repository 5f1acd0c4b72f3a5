SPECIFICATION Spec
CONSTANTS
    Characters <- AllCharacters
    Labels <- LabelSet
    Token <- TokenText
    Real <- RealText
    MaxTokenLength = 3
    OpenTag <- OpenTagText
    CloseTag <- CloseTagText
    Setups <- MCSetups
    Texts <- DeltaTexts
    Responses <- VertexResponses
    Accepts <- SchemaAccepts
    MaxRounds = 1
INVARIANTS
    SpokenIsShown
    RoundAsSpoken
    RequestAcceptable
    NothingRealLeaves
PROPERTY
    QuietAfterAbort
