SPECIFICATION MCSpec
CONSTANTS
    NoKey = NoKey
    NoRow = NoRow
PROPERTIES
    SpendIsLearnt
    LiveDelivery
    CardSettles
    ExpiredGo
    DamageFound
CHECK_DEADLOCK FALSE
