\* One message at a time, since messages share nothing but the process: every
\* kind of result, and three processes, each configured freely. Results come
\* from the bot or, after a restart, from Telegram's cache.
SPECIFICATION FairSpec
CONSTANTS
    m1 = m1
    Messages = {m1}
    Results = {"ai", "classic", "promo", "say"}
    MaxOffers = 1
    MaxLives = 3
\* The last process has ended, or has nothing left to do.
CHECK_DEADLOCK FALSE
INVARIANTS
    PlaceholderExplained
    
PROPERTIES
    TakenIsHandled
