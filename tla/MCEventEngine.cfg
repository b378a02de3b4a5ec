CONSTANTS
  created = created
  failed = failed
  inventory = inventory
  audit = audit
  product = product
  c1 = c1
  c2 = c2
  f1 = f1
  NoEvent = NoEvent
  EventNames <- MCEventNames
  Events <- MCEvents
  NameOf <- MCNameOf
  LateEvents <- MCLate
  Subscribers <- MCSubscribers
  SubscribeTo <- MCSubscribeTo
  EngineCap = 1
  AddressCap = 1
  MaxPartitionSize = 4

SPECIFICATION FairSpec

INVARIANT IndInv
INVARIANT NothingOwedAtExit
INVARIANT PanicCauses
PROPERTY BusSpec
PROPERTY EveryPromiseSeen
PROPERTY HandlersReleased
