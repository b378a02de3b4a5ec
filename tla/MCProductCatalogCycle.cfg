CONSTANTS
  r1 = r1
  r2 = r2
  r3 = r3
  r4 = r4
  chair = chair
  desk = desk
  lamp = lamp
  NoEvent = NoEvent
  NoProduct = NoProduct
  Requests <- MCFour
  ProductName <- MCNames4
  Failures <- MCFail
  EngineCap = 1
  AddressCap = 1
  MaxPartitionSize = 4

SPECIFICATION FairSpec

PROPERTY AddressChsClosed
