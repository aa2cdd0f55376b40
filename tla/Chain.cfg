\* Two clients race two blocks of up to two transactions of one sender, and a
\* reader looks in.
CONSTANTS
  Clients = {c1, c2}
  Readers = {r1}
  alice = alice
  Senders = {alice}
  Txs <- SequenceTxs
  NoOne = NoOne
  MaxTxs = 2
  MaxBlocks = 2
  MaxReads = 1
SPECIFICATION FairSpec
INVARIANTS NoncesInSequence AnswersAreTrue HashCoversStore HeightCoversEntries
PROPERTIES ImplementsLedger EveryoneIsAnswered
CHECK_DEADLOCK FALSE
