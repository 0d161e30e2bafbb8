\* One AI joke is enough: it is recorded between the two loads of totalAneksAI.
SPECIFICATION Spec
CONSTANTS
    joke = joke
    question = question
    chat = chat
    u1 = u1
    u2 = u2
    p1 = p1
    p2 = p2
    Users = {u1, u2}
    NoUser = NoUser
    MaxTrackedUsers = 1
    Handlers = {joke, question, chat}
    Calls <- MCCalls
    ProvidersOf <- MCProvidersOf
\* The last life ends.
CHECK_DEADLOCK FALSE
INVARIANTS
    AITotalWithinTotal
