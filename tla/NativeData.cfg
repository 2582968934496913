SPECIFICATION Spec
CONSTANTS
  PartNames = {"message", "buffers", "tree", "heap", "events", "stream", "randoms", "hello",
               "keyshare", "probe", "config", "lexer", "handshake", "http", "date"}
  Msgs = {a, b, c}
SYMMETRY Symm
CHECK_DEADLOCK FALSE
INVARIANTS
  MessagesSound HeapsExact TlsExact  ConfigExact HttpExact
