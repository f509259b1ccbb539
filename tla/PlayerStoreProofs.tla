------------------------- MODULE PlayerStoreProofs --------------------------
(***************************************************************************)
(* Theorems about PlayerStore, for any accounts, sessions, stashes, grids, *)
(* tickets, lifetime and clock: the grids are whole, the tickets good      *)
(* once, and the progress is the account's own, whatever fails and         *)
(* whenever the process dies; the progress, unless a flush overtook a      *)
(* login of the account.                                                   *)
(***************************************************************************)
EXTENDS PlayerStore, TLAPS

(* A save that has not failed has written a part of the client's grid and  *)
(* has the rest of it still to write.                                      *)
SaveInProgress ==
  txn.of # None /\ txn.ok => txn.rows \cup txn.rest \in Grids

(* A ticket that is not consumed was never accepted. *)
UnusedTickets == \A t \in Tickets : ~ticket[t].consumed => uses[t].times = 0

(* A login belongs to the handler at work, and only a login has loaded a   *)
(* place.                                                                  *)
LoginHandled ==
  /\ login # "none" => handled # None
  /\ login # "place" => loaded = None

(* A session is in the middle of a login. *)
LoggingIn(s) == handled = s /\ login # "none"

(* A place that is an account's own: where its play led, or the spawn      *)
(* point.                                                                  *)
Own(a) == {a, Spawn}

(* What a login has loaded is the account's own. *)
OwnLoaded ==
  login = "place" /\ loaded # None =>
    /\ account[handled] # None
    /\ account[handled] \notin torn => loaded \in Own(account[handled])

(* A logged-in player stands at a place of the account's own, once the     *)
(* login is finished.                                                      *)
OwnPosition ==
  \A s \in Sessions :
    account[s] \notin torn \cup {None} /\ ~LoggingIn(s) => position[s] \in Own(account[s])

Placing == LoginHandled /\ OwnLoaded /\ OwnPosition /\ ProgressIsOwn

IInv ==
  /\ TypeOK
  /\ SaveInProgress /\ GridWhole
  /\ UnusedTickets /\ TicketOnce
  /\ Placing

LEMMA InitIInv == Init => IInv
<1> SUFFICES ASSUME Init PROVE IInv
  OBVIOUS
<1> USE StoreAssumption DEF Init, NoTxn, NoTicket, NeverUsed
<1>1. TypeOK
  BY DEF TypeOK, Positions
<1>2. SaveInProgress /\ GridWhole
  BY DEF SaveInProgress, GridWhole
<1>3. UnusedTickets /\ TicketOnce
  BY DEF UnusedTickets, TicketOnce
<1>4. Placing
  BY DEF Placing, LoginHandled, OwnLoaded, OwnPosition, ProgressIsOwn
<1> QED BY <1>1, <1>2, <1>3, <1>4 DEF IInv

(* Taking an account over begins a login, so nothing is claimed of the     *)
(* session's place until it ends.                                          *)
LEMMA TakeOverKeeps ==
  ASSUME IInv, NEW s \in Sessions, NEW a \in Accounts \cup {None}, Handling(s), TakeOver(s, a),
         UNCHANGED <<position, handled, loaded, progress, torn>>
  PROVE  /\ account' \in [Sessions -> Accounts \cup {None}]
         /\ login' \in {"none", "load", "place"}
         /\ Placing'
<1> USE DEF IInv, TypeOK, TakeOver, Handling, Placing
<1>1. /\ account' \in [Sessions -> Accounts \cup {None}]
      /\ \A u \in Sessions : u # s => account'[u] = account[u]
      /\ login' = "load" /\ handled = s /\ login = "none"
  OBVIOUS
<1>2. s # None
  BY StoreAssumption
<1>3. LoginHandled' /\ OwnLoaded'
  BY <1>1, <1>2 DEF LoginHandled, OwnLoaded
<1>4. OwnPosition'
  BY <1>1 DEF OwnPosition, LoggingIn, Own
<1>5. ProgressIsOwn'
  BY DEF ProgressIsOwn
<1> QED BY <1>1, <1>3, <1>4, <1>5

(* A place saved for an account is its progress. *)
LEMMA SaveProgressKeeps ==
  ASSUME IInv, NEW a \in Accounts, NEW p \in Positions, SaveProgress(a, p),
         torn \subseteq torn', a \in torn' \/ p \in Own(a)
  PROVE  progress' \in [Accounts -> Positions \cup {None}] /\ ProgressIsOwn'
BY DEF IInv, Placing, TypeOK, SaveProgress, ProgressIsOwn, Own

LEMMA StepIInv == IInv /\ [Next]_vars => IInv'
<1> SUFFICES ASSUME IInv, [Next]_vars PROVE IInv'
  OBVIOUS
<1> USE StoreAssumption
<1>1. TypeOK /\ SaveInProgress /\ GridWhole /\ UnusedTickets /\ TicketOnce /\ Placing
  BY DEF IInv
<1>2. LoginHandled /\ OwnLoaded /\ OwnPosition /\ ProgressIsOwn
  BY <1>1 DEF Placing
(* What a step that does not write to it leaves alone. *)
<1>3. ASSUME UNCHANGED <<grid, txn, saved>> PROVE SaveInProgress' /\ GridWhole'
  BY <1>1, <1>3 DEF SaveInProgress, GridWhole
<1>4. ASSUME UNCHANGED <<ticket, uses>> PROVE UnusedTickets' /\ TicketOnce'
  BY <1>1, <1>4 DEF UnusedTickets, TicketOnce
<1>5. ASSUME UNCHANGED <<account, position, handled, login, loaded, progress, torn>>
      PROVE  Placing'
  BY <1>2, <1>5 DEF Placing, LoginHandled, OwnLoaded, OwnPosition, ProgressIsOwn, LoggingIn, Own
<1>6. ASSUME NEW s \in Sessions, Connect(s) PROVE IInv'
  <2>1. /\ UNCHANGED <<handled, login, loaded, flush, registered, progress, grid, txn, ticket,
                       now, saved, uses, torn>>
        /\ online' = online \cup {s} /\ handled # s
        /\ account' = [account EXCEPT ![s] = None]
        /\ position' = [position EXCEPT ![s] = Elsewhere]
    BY <1>6 DEF Connect, database, history
  <2>2. TypeOK'
    BY <1>1, <2>1 DEF TypeOK, Positions
  <2>3. \A u \in Sessions : u # s => account'[u] = account[u] /\ position'[u] = position[u]
    BY <1>1, <2>1 DEF TypeOK
  <2>4. account'[s] = None
    BY <1>1, <2>1 DEF TypeOK
  <2>5. OwnLoaded'
    <3>1. login = "place" => handled \in Sessions /\ handled # s
      BY <1>1, <1>2, <2>1 DEF LoginHandled, TypeOK
    <3> QED BY <1>2, <2>1, <2>3, <3>1 DEF OwnLoaded, Own
  <2>6. OwnPosition'
    BY <1>2, <2>1, <2>3, <2>4 DEF OwnPosition, LoggingIn, Own
  <2>7. Placing'
    BY <1>2, <2>1, <2>5, <2>6 DEF Placing, LoginHandled, ProgressIsOwn
  <2> QED BY <1>3, <1>4, <2>1, <2>2, <2>7 DEF IInv
<1>7. ASSUME NEW s \in Sessions, Handle(s) PROVE IInv'
  <2>1. /\ UNCHANGED <<online, account, position, login, loaded, flush, registered, progress,
                       grid, txn, ticket, now, saved, uses, torn>>
        /\ handled = None /\ handled' = s
    BY <1>7 DEF Handle, database, history
  <2>2. login = "none"
    BY <1>2, <2>1 DEF LoginHandled
  <2>3. TypeOK'
    BY <1>1, <2>1 DEF TypeOK
  <2>4. Placing'
    BY <1>2, <2>1, <2>2
    DEF Placing, LoginHandled, OwnLoaded, OwnPosition, ProgressIsOwn, LoggingIn, Own
  <2> QED BY <1>3, <1>4, <2>1, <2>3, <2>4 DEF IInv
<1>8. ASSUME HandlerDone PROVE IInv'
  <2>1. /\ UNCHANGED <<online, account, position, login, loaded, flush, registered, progress,
                       grid, txn, ticket, now, saved, uses, torn>>
        /\ login = "none" /\ handled' = None
    BY <1>8 DEF HandlerDone, database, history
  <2>2. TypeOK'
    BY <1>1, <2>1 DEF TypeOK
  <2>3. Placing'
    BY <1>2, <2>1
    DEF Placing, LoginHandled, OwnLoaded, OwnPosition, ProgressIsOwn, LoggingIn, Own
  <2> QED BY <1>3, <1>4, <2>1, <2>2, <2>3 DEF IInv
<1>9. ASSUME NEW s \in Sessions, LoadProgress(s) PROVE IInv'
  <2>1. /\ UNCHANGED <<online, account, position, handled, flush, registered, progress, grid,
                       txn, ticket, now, saved, uses, torn>>
        /\ handled = s /\ login = "load" /\ login' = "place" /\ account[s] \in Accounts \cup {None}
        /\ loaded' \in IF account[s] = None THEN {None} ELSE {progress[account[s]], None}
    BY <1>1, <1>9 DEF LoadProgress, database, history, TypeOK
  <2>2. loaded' # None => /\ account[s] \in Accounts
                          /\ loaded' = progress[account[s]]
    BY <2>1
  <2>3. TypeOK'
    BY <1>1, <2>1, <2>2 DEF TypeOK
  <2>4. OwnLoaded'
    BY <1>2, <2>1, <2>2 DEF OwnLoaded, ProgressIsOwn, Own
  <2>5. Placing'
    BY <1>2, <2>1, <2>4 DEF Placing, LoginHandled, OwnPosition, ProgressIsOwn, LoggingIn, Own
  <2> QED BY <1>3, <1>4, <2>1, <2>3, <2>5 DEF IInv
<1>10. ASSUME NEW s \in Sessions, FinishLogin(s) PROVE IInv'
  <2> DEFINE place == IF loaded # None THEN loaded ELSE Spawn
  <2>1. /\ UNCHANGED <<online, account, handled, flush, registered, progress, grid, txn, ticket,
                       now, saved, uses, torn>>
        /\ handled = s /\ login = "place" /\ login' = "none" /\ loaded' = None
        /\ position' = [position EXCEPT ![s] = place]
    BY <1>10 DEF FinishLogin, database, history
  <2>2. /\ place \in Positions
        /\ account[s] \notin torn \cup {None} => place \in Own(account[s])
    BY <1>1, <1>2, <2>1 DEF TypeOK, OwnLoaded, Own, Positions
  <2> HIDE DEF place
  <2>3. TypeOK'
    BY <1>1, <2>1, <2>2 DEF TypeOK
  <2>4. /\ position'[s] = place
        /\ \A u \in Sessions : u # s => position'[u] = position[u]
    BY <1>1, <2>1 DEF TypeOK
  <2>5. OwnPosition'
    BY <1>2, <2>1, <2>2, <2>4 DEF OwnPosition, LoggingIn, Own
  <2>6. Placing'
    BY <1>2, <2>1, <2>5 DEF Placing, LoginHandled, OwnLoaded, ProgressIsOwn
  <2> QED BY <1>3, <1>4, <2>1, <2>3, <2>6 DEF IInv
<1>11. ASSUME NEW s \in Sessions, NEW a \in Accounts, Register(s, a) PROVE IInv'
  <2>1. /\ UNCHANGED <<online, position, handled, loaded, flush, progress, grid, txn, ticket, now,
                       saved, uses, torn>>
        /\ registered' = registered \cup {a} /\ Handling(s)
    BY <1>11 DEF Register, history
  <2>2. /\ account' \in [Sessions -> Accounts \cup {None}]
        /\ login' \in {"none", "load", "place"}
        /\ Placing'
    <3>1. CASE TakeOver(s, a)
      BY <2>1, <3>1, TakeOverKeeps
    <3>2. CASE UNCHANGED <<account, login>>
      BY <1>1, <1>5, <2>1, <3>2 DEF TypeOK
    <3> QED BY <1>11, <3>1, <3>2 DEF Register
  <2>3. TypeOK'
    BY <1>1, <2>1, <2>2 DEF TypeOK
  <2> QED BY <1>3, <1>4, <2>1, <2>2, <2>3 DEF IInv
<1>12. ASSUME NEW s \in Sessions, NEW a \in Accounts \cup {None}, Authenticate(s, a) PROVE IInv'
  <2>1. /\ UNCHANGED <<online, position, handled, loaded, flush, registered, progress, grid, txn,
                       ticket, now, saved, uses, torn>>
        /\ Handling(s) /\ TakeOver(s, a)
    BY <1>12 DEF Authenticate, database, history
  <2>2. /\ account' \in [Sessions -> Accounts \cup {None}]
        /\ login' \in {"none", "load", "place"}
        /\ Placing'
    BY <2>1, TakeOverKeeps
  <2>3. TypeOK'
    BY <1>1, <2>1, <2>2 DEF TypeOK
  <2> QED BY <1>3, <1>4, <2>1, <2>2, <2>3 DEF IInv
<1>13. ASSUME NEW s \in Sessions, MoveInput(s) PROVE IInv'
  <2> DEFINE place == IF account[s] = None THEN Elsewhere ELSE account[s]
  <2>1. /\ UNCHANGED <<online, account, handled, login, loaded, flush, registered, grid, txn,
                       ticket, now, saved, uses, torn>>
        /\ position' = [position EXCEPT ![s] = place]
        /\ account[s] \in Accounts \cup {None}
    BY <1>1, <1>13 DEF MoveInput, history, TypeOK
  <2>2. progress' \in [Accounts -> Positions \cup {None}] /\ ProgressIsOwn'
    <3>1. CASE account[s] = None
      BY <1>1, <1>2, <1>13, <2>1, <3>1 DEF MoveInput, TypeOK, ProgressIsOwn
    <3>2. CASE account[s] # None
      <4>1. /\ SaveProgress(account[s], account[s]) /\ account[s] \in Accounts
            /\ account[s] \in Positions /\ account[s] \in Own(account[s])
        BY <1>13, <2>1, <3>2 DEF MoveInput, Positions, Own
      <4> QED BY <2>1, <4>1, SaveProgressKeeps
    <3> QED BY <3>1, <3>2
  <2>3. /\ place \in Positions
        /\ account[s] # None => place \in Own(account[s])
    BY <2>1 DEF Positions, Own
  <2> HIDE DEF place
  <2>4. TypeOK'
    BY <1>1, <2>1, <2>2, <2>3 DEF TypeOK
  <2>5. /\ position'[s] = place
        /\ \A u \in Sessions : u # s => position'[u] = position[u]
    BY <1>1, <2>1 DEF TypeOK
  <2>6. OwnPosition'
    BY <1>2, <2>1, <2>3, <2>5 DEF OwnPosition, LoggingIn, Own
  <2>7. Placing'
    BY <1>2, <2>1, <2>2, <2>6 DEF Placing, LoginHandled, OwnLoaded, Own
  <2> QED BY <1>3, <1>4, <2>1, <2>4, <2>7 DEF IInv
<1>14. ASSUME NEW s \in Sessions, Disconnect(s) PROVE IInv'
  <2>1. /\ UNCHANGED <<account, position, handled, login, loaded, registered, progress, grid, txn,
                       ticket, now, saved, uses, torn>>
        /\ online' = online \ {s}
        /\ flush' = [flush EXCEPT ![s] = account[s]]
    BY <1>14 DEF Disconnect, database, history
  <2>2. TypeOK'
    BY <1>1, <2>1 DEF TypeOK
  <2> QED BY <1>3, <1>4, <1>5, <2>1, <2>2 DEF IInv
(* A flush saves the account's own place, or the account is one of the     *)
(* torn.                                                                   *)
<1>15. ASSUME NEW s \in Sessions, Flush(s) PROVE IInv'
  <2>1. /\ UNCHANGED <<online, account, position, handled, login, loaded, registered, grid, txn,
                       ticket, now, saved, uses>>
        /\ flush[s] \in Accounts
        /\ SaveProgress(flush[s], position[s])
        /\ flush' = [flush EXCEPT ![s] = None]
        /\ torn' = IF account[s] # flush[s] \/ LoggingIn(s) THEN torn \cup {flush[s]} ELSE torn
    BY <1>1, <1>15 DEF Flush, LoggingIn, TypeOK
  <2>2. torn \subseteq torn' /\ torn' \subseteq Accounts
    BY <1>1, <2>1 DEF TypeOK
  <2>3. position[s] \in Positions
    BY <1>1 DEF TypeOK
  <2>4. flush[s] \in torn' \/ position[s] \in Own(flush[s])
    <3>1. CASE account[s] # flush[s] \/ LoggingIn(s)
      BY <2>1, <3>1
    <3>2. CASE account[s] = flush[s] /\ ~LoggingIn(s)
      BY <1>2, <2>1, <3>2 DEF OwnPosition
    <3> QED BY <3>1, <3>2
  <2>5. progress' \in [Accounts -> Positions \cup {None}] /\ ProgressIsOwn'
    BY <2>1, <2>2, <2>3, <2>4, SaveProgressKeeps
  <2>6. TypeOK'
    BY <1>1, <2>1, <2>2, <2>5 DEF TypeOK
  <2>7. LoginHandled' /\ OwnLoaded' /\ OwnPosition'
    BY <1>2, <2>1, <2>2 DEF LoginHandled, OwnLoaded, OwnPosition, LoggingIn, Own
  <2> QED BY <1>3, <1>4, <2>1, <2>5, <2>6, <2>7 DEF IInv, Placing
<1>16. ASSUME NEW of \in Owned, NEW rows \in Grids, Replace(of, rows) PROVE IInv'
  <2>1. UNCHANGED <<online, account, position, handled, login, loaded, flush, registered,
                    progress, grid, ticket, now, saved, uses, torn>>
    BY <1>16 DEF Replace, sessionVars, history
  <2>2. PICK ok \in BOOLEAN :
          txn' = [of |-> of, rows |-> IF ok THEN {} ELSE grid[of], rest |-> rows, ok |-> ok]
    BY <1>16 DEF Replace
  <2>3. grid[of] \in SUBSET Items /\ rows \in SUBSET Items
    BY <1>1 DEF TypeOK, Items
  <2>4. /\ txn' \in [of : Owned \cup {None}, rows : SUBSET Items, rest : SUBSET Items,
                     ok : BOOLEAN]
        /\ SaveInProgress'
    <3>1. CASE ok
      BY <2>2, <2>3, <3>1 DEF SaveInProgress
    <3>2. CASE ~ok
      BY <2>2, <2>3, <3>2 DEF SaveInProgress
    <3> QED BY <3>1, <3>2
  <2>5. TypeOK'
    BY <1>1, <2>1, <2>4 DEF TypeOK
  <2>6. GridWhole'
    BY <1>1, <2>1 DEF GridWhole
  <2> QED BY <1>4, <1>5, <2>1, <2>4, <2>5, <2>6 DEF IInv
<1>17. ASSUME NEW i \in Items, SaveInsert(i) PROVE IInv'
  <2>1. /\ UNCHANGED <<online, account, position, handled, login, loaded, flush, registered,
                       progress, grid, ticket, now, saved, uses, torn>>
        /\ txn.of # None /\ txn.ok /\ i \in txn.rest
    BY <1>17 DEF SaveInsert, sessionVars, history
  <2>2. /\ txn' \in [of : Owned \cup {None}, rows : SUBSET Items, rest : SUBSET Items,
                     ok : BOOLEAN]
        /\ SaveInProgress'
    <3>1. CASE txn' = [txn EXCEPT !.rows = @ \cup {i}, !.rest = @ \ {i}]
      <4>1. txn'.rows \cup txn'.rest = txn.rows \cup txn.rest
        BY <1>1, <2>1, <3>1 DEF TypeOK
      <4>2. txn.rows \cup txn.rest \in Grids
        BY <1>1, <2>1 DEF SaveInProgress
      <4>3. SaveInProgress'
        BY <4>1, <4>2 DEF SaveInProgress
      <4> QED BY <1>1, <3>1, <4>3 DEF TypeOK
    <3>2. CASE txn' = [txn EXCEPT !.ok = FALSE]
      BY <1>1, <3>2 DEF TypeOK, SaveInProgress
    <3> QED BY <1>17, <3>1, <3>2 DEF SaveInsert
  <2>3. TypeOK'
    BY <1>1, <2>1, <2>2 DEF TypeOK
  <2>4. GridWhole'
    BY <1>1, <2>1 DEF GridWhole
  <2> QED BY <1>4, <1>5, <2>1, <2>2, <2>3, <2>4 DEF IInv
<1>18. ASSUME SaveEnd PROVE IInv'
  <2>1. /\ UNCHANGED <<online, account, position, handled, login, loaded, flush, registered,
                       progress, ticket, now, uses, torn>>
        /\ txn' = NoTxn /\ txn.of \in Owned /\ txn.of # None
    BY <1>1, <1>18 DEF SaveEnd, sessionVars, TypeOK
  <2>2. SaveInProgress'
    BY <2>1 DEF SaveInProgress, NoTxn
  <2>3. grid' \in [Owned -> SUBSET Items] /\ saved' \in SUBSET Owned /\ GridWhole'
    <3>1. CASE /\ txn.ok /\ txn.rest = {}
               /\ grid' = [grid EXCEPT ![txn.of] = txn.rows]
               /\ saved' = saved \cup {txn.of}
      <4>1. txn.rows \in Grids /\ txn.rows \in SUBSET Items
        <5>1. txn.rows \in SUBSET Items
          BY <1>1 DEF TypeOK
        <5>2. txn.rows \cup txn.rest = txn.rows
          BY <3>1, <5>1
        <5> QED BY <1>1, <2>1, <3>1, <5>1, <5>2 DEF SaveInProgress
      <4> QED BY <1>1, <2>1, <3>1, <4>1 DEF GridWhole, TypeOK
    <3>2. CASE UNCHANGED <<grid, saved>>
      BY <1>1, <3>2 DEF GridWhole, TypeOK
    <3> QED BY <1>18, <3>1, <3>2 DEF SaveEnd
  <2>4. TypeOK'
    BY <1>1, <2>1, <2>3 DEF TypeOK, NoTxn
  <2> QED BY <1>4, <1>5, <2>1, <2>2, <2>3, <2>4 DEF IInv
<1>19. ASSUME NEW s \in Sessions, NEW t \in Tickets, RequestMatch(s, t) PROVE IInv'
  <2>1. /\ UNCHANGED <<online, account, position, handled, login, loaded, flush, registered,
                       progress, grid, txn, now, saved, uses, torn>>
        /\ account[s] \in Accounts /\ ticket[t] = NoTicket
        /\ ticket' = [ticket EXCEPT ![t] = [account |-> account[s], expires |-> now + Lifetime,
                                            consumed |-> FALSE]]
    BY <1>1, <1>19
    DEF RequestMatch, GenerateMatchTicket, LoggedIn, sessionVars, history, TypeOK
  <2>2. uses[t].times = 0
    BY <1>1, <2>1 DEF UnusedTickets, NoTicket
  <2>3. TypeOK'
    <3>1. now + Lifetime \in 0 .. MaxTime + Lifetime
      BY <1>1 DEF TypeOK
    <3> QED BY <1>1, <2>1, <3>1 DEF TypeOK
  <2>4. UnusedTickets'
    BY <1>1, <2>1, <2>2 DEF UnusedTickets, TypeOK
  <2>5. TicketOnce'
    <3>1. \A u \in Tickets : u # t => ticket'[u] = ticket[u]
      BY <1>1, <2>1 DEF TypeOK
    <3> QED BY <1>1, <2>1, <2>2, <3>1 DEF TicketOnce
  <2> QED BY <1>3, <1>5, <2>1, <2>3, <2>4, <2>5 DEF IInv
<1>20. ASSUME NEW s \in Sessions, NEW t \in Tickets, JoinMatch(s, t) PROVE IInv'
  <2>1. /\ UNCHANGED <<online, position, handled, loaded, flush, registered, progress, grid, txn,
                       now, saved, torn>>
        /\ Handling(s) /\ ~ticket[t].consumed /\ ticket[t].expires > now
        /\ ticket' = [ticket EXCEPT ![t].consumed = TRUE]
    BY <1>20 DEF JoinMatch, Redeemable
  <2>2. uses[t].times = 0
    BY <1>1, <2>1 DEF UnusedTickets
  <2>3. /\ ticket' \in [Tickets -> [account : Accounts \cup {None},
                                    expires : 0 .. MaxTime + Lifetime, consumed : BOOLEAN]]
        /\ ticket'[t].consumed /\ ticket'[t].expires = ticket[t].expires
        /\ ticket'[t].account = ticket[t].account
        /\ \A u \in Tickets : u # t => ticket'[u] = ticket[u]
    <3> DEFINE Ticket == [account : Accounts \cup {None}, expires : 0 .. MaxTime + Lifetime,
                          consumed : BOOLEAN]
               used == [ticket[t] EXCEPT !.consumed = TRUE]
    <3>1. ticket \in [Tickets -> Ticket] /\ ticket[t] \in Ticket
      BY <1>1 DEF TypeOK
    <3>2. /\ used \in Ticket /\ used.consumed /\ used.expires = ticket[t].expires
          /\ used.account = ticket[t].account
      BY <3>1
    <3>3. ticket' = [ticket EXCEPT ![t] = used]
      BY <2>1
    <3> HIDE DEF Ticket, used
    <3>4. ticket' \in [Tickets -> Ticket] /\ ticket'[t] = used
      BY <3>1, <3>2, <3>3
    <3>5. \A u \in Tickets : u # t => ticket'[u] = ticket[u]
      BY <3>1, <3>3
    <3> QED BY <3>2, <3>4, <3>5 DEF Ticket
  <2>4. /\ uses' \in [Tickets -> [times : Nat, account : Accounts \cup {None}, at : 0 .. MaxTime]]
        /\ \A u \in Tickets : u # t => uses'[u] = uses[u]
        /\ uses'[t].times > 0 => /\ uses'[t].times = 1
                                 /\ uses'[t].at = now
                                 /\ uses'[t].account = ticket[t].account
        /\ account' \in [Sessions -> Accounts \cup {None}]
        /\ login' \in {"none", "load", "place"}
        /\ Placing'
    <3>1. CASE UNCHANGED <<uses, account, login>>
      BY <1>1, <1>5, <2>1, <2>2, <3>1 DEF TypeOK
    <3>2. CASE /\ uses' = [uses EXCEPT ![t] = [times |-> @.times + 1,
                                               account |-> ticket[t].account, at |-> now]]
               /\ TakeOver(s, ticket[t].account)
      <4>1. ticket[t].account \in Accounts \cup {None} /\ now \in 0 .. MaxTime
        BY <1>1 DEF TypeOK
      <4>2. uses' = [uses EXCEPT ![t] = [times |-> 1, account |-> ticket[t].account, at |-> now]]
        BY <2>2, <3>2
      <4>3. /\ uses' \in [Tickets -> [times : Nat, account : Accounts \cup {None}, at : 0 .. MaxTime]]
            /\ uses'[t] = [times |-> 1, account |-> ticket[t].account, at |-> now]
            /\ \A u \in Tickets : u # t => uses'[u] = uses[u]
        BY <1>1, <4>1, <4>2 DEF TypeOK
      <4> QED BY <2>1, <3>2, <4>1, <4>3, TakeOverKeeps
    <3> QED BY <1>20, <3>1, <3>2 DEF JoinMatch
  <2>5. TypeOK'
    BY <1>1, <2>1, <2>3, <2>4 DEF TypeOK
  <2>6. UnusedTickets' /\ TicketOnce'
    <3>1. ASSUME NEW u \in Tickets, u # t
          PROVE  /\ ~ticket'[u].consumed => uses'[u].times = 0
                 /\ uses'[u].times > 0 => /\ uses'[u].times = 1
                                          /\ uses'[u].at < ticket'[u].expires
                                          /\ uses'[u].account = ticket'[u].account
      BY <1>1, <2>3, <2>4, <3>1 DEF UnusedTickets, TicketOnce
    <3>2. now < ticket[t].expires
      BY <1>1, <2>1 DEF TypeOK
    <3> QED BY <2>3, <2>4, <3>1, <3>2 DEF UnusedTickets, TicketOnce
  <2> QED BY <1>3, <2>1, <2>4, <2>5, <2>6 DEF IInv
<1>21. ASSUME Clock PROVE IInv'
  <2>1. /\ UNCHANGED <<online, account, position, handled, login, loaded, flush, registered,
                       progress, grid, txn, ticket, saved, uses, torn>>
        /\ now' \in 0 .. MaxTime
    BY <1>1, <1>21 DEF Clock, sessionVars, database, history, TypeOK
  <2>2. TypeOK'
    BY <1>1, <2>1 DEF TypeOK
  <2> QED BY <1>3, <1>4, <1>5, <2>1, <2>2 DEF IInv
<1>22. ASSUME Crash PROVE IInv'
  <2>1. /\ UNCHANGED <<registered, progress, grid, ticket, now, saved, uses, torn>>
        /\ online' = {} /\ txn' = NoTxn
        /\ account' = [s \in Sessions |-> None] /\ position' = [s \in Sessions |-> Elsewhere]
        /\ handled' = None /\ login' = "none" /\ loaded' = None
        /\ flush' = [s \in Sessions |-> None]
    BY <1>22 DEF Crash, history
  <2>2. TypeOK'
    BY <1>1, <2>1 DEF TypeOK, NoTxn, Positions
  <2>3. SaveInProgress' /\ GridWhole'
    BY <1>1, <2>1 DEF NoTxn, SaveInProgress, GridWhole
  <2>4. Placing'
    BY <1>2, <2>1 DEF Placing, LoginHandled, OwnLoaded, OwnPosition, ProgressIsOwn
  <2> QED BY <1>4, <2>1, <2>2, <2>3, <2>4 DEF IInv
<1>23. CASE UNCHANGED vars
  <2>1. TypeOK'
    BY <1>1, <1>23 DEF vars, sessionVars, database, history, TypeOK
  <2> QED BY <1>3, <1>4, <1>5, <1>23, <2>1 DEF vars, sessionVars, database, history, IInv
(* A client saves rows of its own account: each table has a save of its own. *)
<1>24. ASSUME NEW s \in Sessions, NEW rows \in Grids,
              \/ OnSaveInventory(s, rows)
              \/ OnSaveEquipment(s, rows)
              \/ OnSaveQuickSlots(s, rows)
              \/ \E n \in Stashes : OnSaveStash(s, n, rows)
       PROVE  IInv'
  <2>1. account[s] \in Accounts
    BY <1>1, <1>24 DEF OnSaveInventory, OnSaveEquipment, OnSaveQuickSlots, OnSaveStash, LoggedIn,
                       TypeOK
  <2>2. \A table \in Tables : <<account[s], table>> \in Owned
    BY <2>1 DEF Owned
  <2>3. CASE OnSaveInventory(s, rows)
    BY <1>16, <2>2, <2>3 DEF OnSaveInventory, SaveInventory, Tables
  <2>4. CASE OnSaveEquipment(s, rows)
    BY <1>16, <2>2, <2>4 DEF OnSaveEquipment, SaveEquipment, Tables
  <2>5. CASE OnSaveQuickSlots(s, rows)
    BY <1>16, <2>2, <2>5 DEF OnSaveQuickSlots, SaveQuickSlots, Tables
  <2>6. ASSUME NEW n \in Stashes, OnSaveStash(s, n, rows) PROVE IInv'
    BY <1>16, <2>2, <2>6 DEF OnSaveStash, SaveStash, Tables
  <2> QED BY <1>24, <2>3, <2>4, <2>5, <2>6
<1> QED
  BY <1>6, <1>7, <1>8, <1>9, <1>10, <1>11, <1>12, <1>13, <1>14, <1>15, <1>17, <1>18, <1>19, <1>20,
     <1>21, <1>22, <1>23, <1>24
  DEF Next

-----------------------------------------------------------------------------
(* Every variable of the store keeps its type. *)
THEOREM StoreTypeCorrect == Spec => []TypeOK
<1>1. IInv => TypeOK
  BY DEF IInv
<1> QED BY <1>1, InitIInv, StepIInv, PTL DEF Spec

(* A grid is always one its client sent, whatever statement fails and      *)
(* wherever the process dies (the Save functions of Database.cpp).         *)
THEOREM GridsStayWhole == Spec => []GridWhole
<1>1. IInv => GridWhole
  BY DEF IInv
<1> QED BY <1>1, InitIInv, StepIInv, PTL DEF Spec

(* A ticket lets one session in, in time and for its own account, however  *)
(* many show it and however often (ConsumeMatchTicket).                    *)
THEOREM TicketsGoodOnce == Spec => []TicketOnce
<1>1. IInv => TicketOnce
  BY DEF IInv
<1> QED BY <1>1, InitIInv, StepIInv, PTL DEF Spec

(* No account's progress is another's, although connections log in to one  *)
(* after the other and their last position is saved when they go, but for  *)
(* the accounts that a flush overtook in the middle of a login             *)
(* (FinishAuthenticatedLogin, FlushProgress).                              *)
THEOREM ProgressStaysOwn == Spec => []ProgressIsOwn
<1>1. IInv => ProgressIsOwn
  BY DEF IInv, Placing
<1> QED BY <1>1, InitIInv, StepIInv, PTL DEF Spec
=============================================================================
