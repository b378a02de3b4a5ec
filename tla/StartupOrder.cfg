CONSTANT Requests = {"first", "second"}

SPECIFICATION Spec

INVARIANT SubscribesRegistered
