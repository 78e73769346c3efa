CONSTANTS
  Bytes = {0, 1, 2}
  MaxFrame = 2
  ClientMax = 1
  MaxChunk = 5
  MaxInput = 10
  Block = 5
  LengthSize = 2
  Encoded = 7
SPECIFICATION StreamSpec
CHECK_DEADLOCK FALSE
INVARIANTS ServerInvertsFrame ClientInvertsFrame EncodingsInvert DigestIsOfTheStream
