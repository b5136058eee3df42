SPECIFICATION BufferSpec
CONSTANTS
  MAX_COMMANDS = 2
  MaxCommands = 3
  Commands <- MCCommands
INVARIANT RoundTrip
INVARIANT CutIsPrefix
