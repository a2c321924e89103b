SPECIFICATION FairSpec
CONSTANTS
  Header = 2
  LastFragment = 10
  Calls <- MCCalls
INVARIANTS TypeOK IInv
PROPERTIES ImplementsPipe CallAnswered
