SPECIFICATION MCSpec
CONSTANTS
    Codes = {0, 399, 40000, 40101, 50310, 59999, 60000}
    Statuses = {200, 399, 400, 404, 422, 500, 503, 599, 600}
    Fields = {"Request", "email"}
    MaxErrors = 2
    MaxDepth = 2
    Defaults <- MCDefaults
    Timeouts = {"readTimeout", "writeTimeout", "connectTimeout", "dialTimeout", "lifetime", "idleTimeout"}
    Files <- MCFiles
    Ids = {"id", "user"}
    Digest = Digest
    Limit = 128
    Blank = Blank
    Tokens <- MCTokens
    Identities <- MCIdentities
    Hosts = {"example.com"}
    Spelling <- MCSpelling
    None = None
INVARIANTS
    StatusIsInCode
    LoadSuffices
    RenameIsRight
CHECK_DEADLOCK FALSE
