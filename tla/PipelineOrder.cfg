\* One job whose page shows a text or none; a fetcher, a parser and a matcher that
\* crash and get messages again; and either one more discovery of the job or one
\* deduplication window that runs out.
SPECIFICATION Spec
CONSTANTS
    Vocabulary <- MCVocabulary
    CanonicalSkill <- MCCanonicalSkill
    Unpaid = Unpaid
    Jobs = {j1}
    Title <- MCTitle
    Location <- MCLocation
    Texts <- MCTexts
    Blank <- MCBlank
    Profile <- MCProfile
    ReadyThreshold = 70
    Fetchers = {f1}
    Parsers = {p1}
    Matchers = {m1}
    Unparsed = Unparsed
    MaxDisturbances = 1
INVARIANTS
    TypeOK
    NoJobIsLost
    BlankTextsAreRequested
    MatchesFollowRequirements
    ReadyIsAnnounced
    StatusHasItsRow
CHECK_DEADLOCK FALSE
