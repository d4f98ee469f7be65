SPECIFICATION Spec
CONSTANTS
    east = east
    west = west
    Scopes = {east, west}
    Resources <- MCResources
    Plans <- MCPlans
    Answers <- MCAnswers
    NoResource = NoResource
    NoResult = NoResult
INVARIANTS
    FailedMeansNothingAnswered
\* Execute returns and nothing is left to do.
CHECK_DEADLOCK FALSE
