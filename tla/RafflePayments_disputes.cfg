SPECIFICATION Spec
CONSTANTS
    CONFIRMATION_DELAY = 1
    MAX_BLOCKHASH_WINDOW = 2
    MIN_PROVIDER_STAKE = 4
    UNBONDING_PERIOD = 1
    CHANNEL_UNLOCK_PERIOD = 1
    DISPUTE_RESPONSE_WINDOW = 3
    ROUND_STALE_TIMEOUT = 4
    MAX_ROUND_SIZE = 1
    SLASH_BPS = 5000
    BLOCKHASH_HISTORY = 2
    MaxBlock = 5
    client = client
    prov = prov
    prov2 = prov2
    Senders = {client}
    Recipients = {prov}
    Deposits = {1}
    Payouts = {}
    MaxDeposited = 1
    Providers = {prov}
    Stakes = {5}
    Unstakes = {1}
    Slashes = {}
    MaxStake = 5
    RoundIds = {1}
    Taus = {1}
    FaceValues = {1}
    Secrets = {1}
    TicketValues = {1}
    MaxNonce = 1
    Tickets <- MCTickets
    LocalIndices = {0, 1}
    OwnerActs = {}
INVARIANTS
    PendingMatchesOpen
PROPERTIES
    OutcomeIsFinal
CHECK_DEADLOCK FALSE
