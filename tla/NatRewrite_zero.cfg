SPECIFICATION RSpec
CONSTANTS
  Base = 4
PROPERTY UdpChecksumKept
