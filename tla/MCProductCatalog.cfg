CONSTANTS
  r1 = r1
  r2 = r2
  r3 = r3
  r4 = r4
  chair = chair
  desk = desk
  lamp = lamp
  NoEvent = NoEvent
  NoProduct = NoProduct
  Requests <- MCThree
  ProductName <- MCNames3
  Failures <- MCAnyFailure
  EngineCap = 1
  AddressCap = 1
  MaxPartitionSize = 4

SPECIFICATION FairSpec

INVARIANT IInv
INVARIANT NoSilentOrphan
INVARIANT CleanExit
INVARIANT StockHasProduct
PROPERTY ShopSpec
PROPERTY Settles
PROPERTY ShutdownEnds
