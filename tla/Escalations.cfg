SPECIFICATION MCSpec
CONSTANTS
    s1 = s1
    s2 = s2
    u1 = u1
    u2 = u2
    m1 = m1
    m2 = m2
    t1 = t1
    a1 = a1
    email = email
    Updaters = {s1}
    Triggers = {t1}
    Multiple = {}
    Depends <- NoDependency
    Actions = {a1}
    Conditions <- OnProblem
    Switched = {t1}
    MaxEvents = 3
    None = None
    Users = {u1, u2}
    Media <- EmailForU1
    Msgs = {m1, m2}
    Operations <- OneMessage
    EscPeriod = {a1}
    RecoveryMsg = {a1}
    ALERT_MAX_RETRIES = 2
    MaxRestarts = 0
    MaxAlerts = 6
INVARIANTS
    TriggerMatchesEvents
    StepsOnce
    RecoveryToTheTold
PROPERTIES
    DueIsWorkedOn
    AlertsSettled
CHECK_DEADLOCK FALSE
