\* Datagrams of up to 80 bytes, whole, cut and forged.
SPECIFICATION Spec
CONSTANTS
  Base = 16
  Marker <- MCMarker
  Comma = 2
  Numbers = {3, 4}
  Str = 5
  Blob = 6
  Bare = {7}
  Datagrams <- MCDatagrams
  Messages <- MCMessages
INVARIANTS TypeOK ReadsInside NestingBounded AcceptedIsEncoding RoundTrip
PROPERTIES Advances Terminates
