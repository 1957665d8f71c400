CONSTANTS
    Tokens = {t1, t2}
    Refreshers = {f1}
SPECIFICATION SessionsSpec
PROPERTIES ReuseEndsSessions
