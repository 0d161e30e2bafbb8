\* Three handlers, at most two of which can share the table's one row, run while
\* the admins read, the state is exported, and the next process starts from it.
SPECIFICATION Spec
CONSTANTS
    joke = joke
    question = question
    chat = chat
    u1 = u1
    u2 = u2
    p1 = p1
    p2 = p2
    Users = {u1, u2}
    NoUser = NoUser
    MaxTrackedUsers = 1
    Handlers = {joke, question, chat}
    Calls <- MCCalls
    ProvidersOf <- MCProvidersOf
\* The last life ends.
CHECK_DEADLOCK FALSE
INVARIANTS
    UsersWithinTotals
    ProvidersWithinTotals
    AIWithinRequests
    RowsMatchTotalUsers
