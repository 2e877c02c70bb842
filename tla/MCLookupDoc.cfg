CONSTANTS
    Nodes = {10, 20, 30, 40}
    Self = 0
    Rank <- MCRank
    Answers <- MCTableAnswers
    K = 2
    Alpha = 1
SPECIFICATION Spec
INVARIANT
    FoundValueIsReturned
