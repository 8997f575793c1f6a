\* The list of alerts in one browser, with a session that may end at any time.
SPECIFICATION FairListSpec
CONSTANTS
    mine = mine
    disk = disk
    Filters = {mine}
    Searches = {disk}
    None = None
    MaxPage = 3
    Links <- MCLinks
    Nothing = Nothing
INVARIANTS
    ListTypeOK
    UrlKeepsTheList
PROPERTIES
    AnswerKeepsPageThere
    ListCatchesUp
