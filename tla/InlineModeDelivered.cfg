\* One message at a time, since messages share nothing but the process: every
\* kind of result, and one process, configured freely.
SPECIFICATION Spec
CONSTANTS
    m1 = m1
    Messages = {m1}
    Results = {"ai", "classic", "promo", "say"}
    MaxOffers = 1
    MaxLives = 1
\* The last process has ended, or has nothing left to do.
CHECK_DEADLOCK FALSE
INVARIANTS
    RecordedIsDelivered
