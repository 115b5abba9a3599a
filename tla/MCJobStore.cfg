\* One job, two workers and one dispatcher: takeovers, replays, lost replies.
SPECIFICATION Spec
CONSTANTS
    Job = {j1}
    Worker = {w1, w2}
    Dispatcher = {d1}
    Budgets = {0, 1}
    Delays = {1}
    LeaseTime = 2
    RepublishAfter = 1
    MaxGeneration = 2
    None = None
    Second = 2
    Width = 12
    MaxRetry = 16
SYMMETRY Perms
INVARIANTS DurableIntent RetryIntentOwnsDelivery IntentKeyAvailable BudgetRespected PublishedWasSent DelaysBackOff
PROPERTIES LeaseHolderDecides TerminalUntilReplay AuditTrail ImplementsLifecycle
