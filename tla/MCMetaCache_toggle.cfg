CONSTANTS
    Caller = {c1, c2}
SPECIFICATION AnswersSpec
PROPERTIES ToggleFlips
