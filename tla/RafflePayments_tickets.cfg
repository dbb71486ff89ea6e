SPECIFICATION Spec
CONSTANTS
    CONFIRMATION_DELAY = 1
    MAX_BLOCKHASH_WINDOW = 2
    MIN_PROVIDER_STAKE = 5
    UNBONDING_PERIOD = 1
    CHANNEL_UNLOCK_PERIOD = 1
    DISPUTE_RESPONSE_WINDOW = 3
    ROUND_STALE_TIMEOUT = 4
    MAX_ROUND_SIZE = 1
    SLASH_BPS = 2000
    BLOCKHASH_HISTORY = 2
    MaxBlock = 3
    client = client
    prov = prov
    prov2 = prov2
    Senders = {client}
    Recipients = {prov}
    Deposits = {1}
    Payouts = {}
    MaxDeposited = 2
    Providers = {prov}
    Stakes = {5}
    Unstakes = {}
    Slashes = {}
    MaxStake = 5
    RoundIds = {1}
    Taus = {1}
    FaceValues = {1}
    Secrets = {1}
    TicketValues = {1, 2}
    MaxNonce = 1
    Tickets <- MCTickets
    LocalIndices = {0}
    OwnerActs = {"wire", "pause"}
INVARIANTS
    PaidForTickets
    NoticeBeforeWithdrawal
    SettledIsClean
    
CHECK_DEADLOCK FALSE
