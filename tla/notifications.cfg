SPECIFICATION DSpec
CONSTANTS
    Null = Null
    Gone = Gone
    q1 = q1
    q2 = q2
    r1 = r1
    r2 = r2
    chat = chat
    mail = mail
    hook = hook
    ann = ann
    ops = ops
    official = official
    relay = relay
    tls = tls
    gateway = gateway
    RuleIds = {r1, r2}
    DestinationIds = {chat, mail, hook}
    Teams = {}
    Addresses = {ops}
    Users = {ann}
    Urls = {official}
    FitsUrl <- MCFitsUrl
    Accounts = {relay, tls, gateway}
    SignsIn <- MCSignsIn
    Requests = {q1, q2}
    NewRules <- MCNewRules
    RulePatches <- MCRulePatches
    NewDestinations <- MCNewDestinations
    DestinationPatches <- MCDestinationPatches
    SavedRules <- MCSavedRules
    SavedDestinations <- MCSavedDestinations
    SavedServers <- MCSavedServers
    MaxRequests = 2
    AlertTeam = Null
    AlertPriority = 3
    MaxEvents = 2
CHECK_DEADLOCK FALSE
SYMMETRY MCSymmetry
INVARIANTS
    TypeOK
    PasswordIsTheAccounts
    MailGoesThroughLoadedServer
    MessageIsNotOlder
    OneMessageEach
PROPERTIES
    LosesRecipientsOnlyByRace
