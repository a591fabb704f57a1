\* Strings of every kind, two daemons, and a client.
CONSTANTS
  Tokens = {"[", "]", ":", "*", "0", "1", "9", "x", "-", "+", " ", "v4", "/", "NUL"}
  SunPath = 4
  PortMax = 19
  Word = 100
  MaxText = 5
  MaxPort = 4
  Strings <- SomeStrings
  Pairs <- SomePairs
  Daemons = {d1, d2}
  Faults = {"socket", "fcntl", "option", "listen"}
SPECIFICATION Spec
INVARIANTS
  SplitMatchesGrammar
  ParseMatchesGrammar
  
  RefusedBindHasHolder
  OneDaemonPerAddress
CHECK_DEADLOCK FALSE
