CONSTANTS
  s1 = s1
  s2 = s2
  s3 = s3
  s4 = s4
  s5 = s5
  s6 = s6
  early = early
  late = late
  NoEvent = NoEvent
  EventNames <- MCEventNames
  Events <- MCEvents
  NameOf <- MCNameOf
  LateEvents <- MCLate
  Subscribers <- MCSubscribers
  SubscribeTo <- MCSubscribeTo
  EngineCap = 1
  AddressCap = 1
  MaxPartitionSize = 4

SPECIFICATION Spec

SYMMETRY MCSymmetry

INVARIANT InOrder
INVARIANT ExactlyOnce
