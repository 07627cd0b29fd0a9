\* Two connections with up to two frames each, one of which does not fit into
\* the buffer.
CONSTANTS
  short = short  long = long
  Connections = {1, 2}
  Frames = {short, long}
  HeaderSize = 2
  PayloadSize <- Sizes
  BufferSize = 3
  MaxFrames = 2
SPECIFICATION TSpec
INVARIANTS NeverThrows
PROPERTIES ImplementsChannel ArrivedIsDelivered
