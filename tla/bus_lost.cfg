SPECIFICATION Spec
CONSTANTS
    Subscriber = {s1, s2}
    Publisher = {q1}
    Instance = {i1, i2, i3}
    NoInstance = NoInstance
INVARIANT SubscriptionNeverLost
