SPECIFICATION Spec
CONSTANTS
    CommandLines <- Typed
    RcFiles <- Written
    Chains <- Presented
INVARIANTS EffectiveOptions AuthenticatedIfAlone
CHECK_DEADLOCK FALSE
