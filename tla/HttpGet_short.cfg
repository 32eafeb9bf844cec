SPECIFICATION FairSpec
CONSTANTS
    Req = {r1}
    Url <- Urls
    NormalUrl <- NormalUrls
    Credential <- Credentials
    None = None
    Address = {1, 2}
    Private = {1}
    AllowPrivate = {20}
    ServersOf <- Servers
    MaxBody = 1
INVARIANT
    SucceededIsComplete
CHECK_DEADLOCK FALSE
