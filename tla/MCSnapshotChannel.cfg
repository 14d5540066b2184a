CONSTANTS
  MaxPacketSize = 4
  HeaderSize = 1
  DataSizes = {2, 4, 6}
  MapLimit = 2
  SizeTBytes = 8
  WordBase = 16
  MaxGroup = 3
  MaxDuplicates = 1
SPECIFICATION Spec
PROPERTY CompleteOnesAreDelivered
