\* A page of a browser, two calls at a time, three tokens.
SPECIFICATION Spec
CONSTANTS
    User = {u1}
    Tab = {t1}
    Call = {c1, c2}
    None = None
    MaxTokens = 3
    MaxFailures = 1
INVARIANTS TypeOK CookieIsUsable ShownUserIsCurrent
PROPERTIES SessionsDoNotMultiply LoadingEnds
CHECK_DEADLOCK FALSE
