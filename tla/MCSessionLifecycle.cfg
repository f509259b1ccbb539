\* The life of a session, closed from any side
SPECIFICATION FairSpec
CONSTANTS
  Conns = {c1, c2}
  Handles = {h1, h2}
  Senders = {tick}
  MaxPlayers = 1
  None = None
INVARIANTS
  PendingCountsOps
  UnregisteredOnce
  NoOpOutlivesSession
  NeverDeaf
 
\* every connection may have gone
CHECK_DEADLOCK FALSE
