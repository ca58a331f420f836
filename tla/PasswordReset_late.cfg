CONSTANTS
    Confirms = {c1}
    Requests = {q1}
    Logins = {s1}
    Tokens = {t1}
    Nobody = Nobody
    NoToken = NoToken
    Original = Original
    IpMax = 2
    AccountMax = 1
SPECIFICATION Spec
PROPERTY ResetRevokesEverySession
CHECK_DEADLOCK FALSE
