CONSTANT Requests = {"first", "second"}

SPECIFICATION FairSpec

INVARIANT IInv
INVARIANT OnlyInventoryTooEarly
INVARIANT SubscriptionKept
PROPERTY NobodyOnlyEarly
PROPERTY Wired
PROPERTY WiringIsAtomic
