CONSTANTS
    Confirms = {c1, c2}
    Requests = {q1, q2}
    Logins = {s1}
    Tokens = {t1, t2}
    Nobody = Nobody
    NoToken = NoToken
    Original = Original
    IpMax = 1
    AccountMax = 1
SPECIFICATION FairSpec
PROPERTIES ResetIsWhole ConfirmEnds
CHECK_DEADLOCK FALSE
