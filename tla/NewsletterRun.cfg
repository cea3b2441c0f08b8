CONSTANTS
  first = first
  second = second
  ann = ann
  bob = bob
  eve = eve
  Runs = {first, second}
  Chats = {ann, bob, eve}
  None = None
  Digest = Digest
  Torn = Torn
  Requests <- MCRequests
  MaxFaults = 1
SPECIFICATION Spec
INVARIANT TypeOK
INVARIANT CorpusIsComplete
INVARIANT CompletedMeansDelivered
INVARIANT MailIsOfItsRun
INVARIANT EditionsAreOfOneText
PROPERTY ImplementsRunRecord
