\* A handler on a session the other queue has released
SPECIFICATION Spec
CONSTANTS
  Conns = {c1, c2}
  Handles = {h1, h2}
  Senders = {tick}
  MaxPlayers = 1
  None = None
INVARIANT NoUseAfterDestroy
\* every connection may have gone
CHECK_DEADLOCK FALSE
