CONSTANTS
    Caller = {c1, c2}
SPECIFICATION FairAnswersSpec
INVARIANTS TypeOK EntryExpires
PROPERTIES AnswersFresh CacheHeals
