----------------------------- MODULE PlayerStore -----------------------------
(***************************************************************************)
(* What an account owns in the database and how sessions write it:         *)
(* progress, the item grids, match tickets.  Network/Database.cpp, the     *)
(* login, save and ticket handlers of Network/Session.cpp, FlushProgress.  *)
(*                                                                         *)
(* Database::lock_ is held for a whole call, so a call is one action; a    *)
(* full-replace save is cut into its SQL statements, since each can fail   *)
(* and the process can die between them.  One thread runs all handlers,    *)
(* under the session's lock_; UnregisterSession takes none, and its        *)
(* FlushProgress, on another thread, may fall between any two steps of the *)
(* session's own handler.  SQL Server is external: a statement happens or  *)
(* fails, an open transaction dies with its connection.  The columns of an *)
(* item row are not told apart; of the progress only the position (with    *)
(* the look) is kept, not the weapon.                                      *)
(***************************************************************************)
EXTENDS Integers, FiniteSets

CONSTANTS
  Accounts, Sessions,
  Stashes,    \* the indices of an account's stashes
  Grids,      \* the grids clients save: sets of item rows
  Tickets,    \* the random ticket strings
  Lifetime,   \* kMatchTicketLifetimeMs, in ticks of the clock
  MaxTime,    \* bound on the clock
  MaxSaved,   \* bound on the grids that are ever saved
  Spawn,      \* the default spawn point
  Elsewhere,  \* where a guest's play led, or the origin a session is made at
  None        \* no account: a guest; no row; no session

ASSUME StoreAssumption ==
  /\ None \notin Accounts \cup Sessions
  /\ Spawn \notin Accounts \cup {None} /\ Elsewhere \notin Accounts \cup {None, Spawn}
  /\ IsFiniteSet(Grids) /\ \A g \in Grids : IsFiniteSet(g)
  /\ Lifetime \in Nat \ {0} /\ MaxTime \in Nat /\ MaxSaved \in Nat

(* The rows a grid can have. *)
Items == UNION Grids

(* The tables of items, and an account's rows in one of them; a stash is   *)
(* the rows of its index.                                                  *)
Inventory == <<"PlayerInventoryItems", 0>>
Equipment == <<"PlayerEquipment", 0>>
QuickSlots == <<"PlayerQuickSlots", 0>>
Stash(n) == <<"PlayerStash", n>>
Tables == {Inventory, Equipment, QuickSlots} \cup {Stash(n) : n \in Stashes}

Owned == Accounts \X Tables

(* Where a player stands, told apart by whose play led there. *)
Positions == Accounts \cup {Spawn, Elsewhere}

VARIABLES
  online,     \* the sessions connected
  account,    \* accountId_
  position,   \* position_, with look_
  handled,    \* the session whose OnRecvCompletion is being run
  login,      \* how far FinishAuthenticatedLogin of its handler is
  loaded,     \* that function's savedPosition, None if there is none
  flush,      \* the accountId_ that FlushProgress of a session has read
  registered, \* dbo.Accounts
  progress,   \* dbo.PlayerProgress: a position, or no row (None)
  grid,       \* the item rows of each account in each table, as committed
  txn,        \* the full-replace save under way
  ticket,     \* dbo.PendingMatchTicket
  now,        \* NowUnixMs
  saved,      \* history: whose rows of which table ever had a save committed
  uses,       \* history: how often, for whom and when a ticket was accepted
  torn        \* history: the accounts flushed in the middle of a login

sessionVars == <<online, account, position, handled, login, loaded, flush>>
database == <<registered, progress, grid, txn, ticket>>
history == <<saved, uses, torn>>
vars == <<sessionVars, database, now, history>>

NoTxn == [of |-> None, rows |-> {}, rest |-> {}, ok |-> TRUE]
NoTicket == [account |-> None, expires |-> 0, consumed |-> FALSE]
NeverUsed == [times |-> 0, account |-> None, at |-> 0]

TypeOK ==
  /\ online \subseteq Sessions
  /\ account \in [Sessions -> Accounts \cup {None}]
  /\ position \in [Sessions -> Positions]
  /\ handled \in Sessions \cup {None}
  /\ login \in {"none", "load", "place"}
  /\ loaded \in Positions \cup {None}
  /\ flush \in [Sessions -> Accounts \cup {None}]
  /\ registered \subseteq Accounts
  /\ progress \in [Accounts -> Positions \cup {None}]
  /\ grid \in [Owned -> SUBSET Items]
  /\ txn \in [of : Owned \cup {None}, rows : SUBSET Items, rest : SUBSET Items, ok : BOOLEAN]
  /\ ticket \in [Tickets -> [account : Accounts \cup {None},
                             expires : 0 .. MaxTime + Lifetime, consumed : BOOLEAN]]
  /\ now \in 0 .. MaxTime
  /\ saved \subseteq Owned
  /\ uses \in [Tickets -> [times : Nat, account : Accounts \cup {None}, at : 0 .. MaxTime]]
  /\ torn \subseteq Accounts

Init ==
  /\ online = {}
  /\ account = [s \in Sessions |-> None]
  /\ position = [s \in Sessions |-> Elsewhere]
  /\ handled = None /\ login = "none" /\ loaded = None
  /\ flush = [s \in Sessions |-> None]
  /\ registered = {}
  /\ progress = [a \in Accounts |-> None]
  /\ grid = [of \in Owned |-> {}]
  /\ txn = NoTxn
  /\ ticket = [t \in Tickets |-> NoTicket]
  /\ now = 0
  /\ saved = {}
  /\ uses = [t \in Tickets |-> NeverUsed]
  /\ torn = {}

(* Database::lock_ is free. *)
DbFree == txn = NoTxn

-----------------------------------------------------------------------------
(* A new session; its number stands for one that is gone for good.         *)
Connect(s) ==
  /\ s \notin online /\ handled # s /\ flush[s] = None
  /\ online' = online \cup {s}
  /\ account' = [account EXCEPT ![s] = None]
  /\ position' = [position EXCEPT ![s] = Elsewhere]
  /\ UNCHANGED <<handled, login, loaded, flush, database, now, history>>

(* OnRecvCompletion begins, and handles packets one by one. *)
Handle(s) ==
  /\ handled = None /\ s \in online
  /\ handled' = s
  /\ UNCHANGED <<online, account, position, login, loaded, flush, database, now, history>>

(* Its thread takes the next packet, also of a session that has been       *)
(* unregistered meanwhile; it is not in a call of the database.            *)
Handling(s) == handled = s /\ login = "none" /\ DbFree

HandlerDone ==
  /\ handled # None /\ login = "none" /\ DbFree
  /\ handled' = None
  /\ UNCHANGED <<online, account, position, login, loaded, flush, database, now, history>>

(* FinishAuthenticatedLogin takes the account over first. *)
TakeOver(s, a) ==
  /\ account' = [account EXCEPT ![s] = a]
  /\ login' = "load"

(* Then it loads the account's progress, or finds none; it may fail to.    *)
(* The rows it also loads are only sent.                                   *)
LoadProgress(s) ==
  /\ handled = s /\ login = "load" /\ DbFree
  /\ loaded' \in IF account[s] = None THEN {None} ELSE {progress[account[s]], None}
  /\ login' = "place"
  /\ UNCHANGED <<online, account, position, handled, flush, database, now, history>>

(* Mutation of FinishLogin: without saved progress the session stays where *)
(* it was.                                                                 *)
FinishLoginInPlace(s) ==
  /\ handled = s /\ login = "place"
  /\ position' = [position EXCEPT ![s] = IF loaded # None THEN loaded ELSE @]
  /\ login' = "none" /\ loaded' = None
  /\ UNCHANGED <<online, account, handled, flush, database, now, history>>

(* Last, the player is put there, or at the spawn point. *)
FinishLogin(s) ==
  /\ handled = s /\ login = "place"
  /\ position' = [position EXCEPT ![s] = IF loaded # None THEN loaded ELSE Spawn]
  /\ login' = "none" /\ loaded' = None
  /\ UNCHANGED <<online, account, handled, flush, database, now, history>>

(* C2S_Login for a new account, an old one, or a guest, who names none or  *)
(* comes while the database is away.  A refused login changes nothing, but *)
(* for the account of one whose new id could not be fetched.  A connection *)
(* may log in again, for another account.                                  *)
Register(s, a) ==
  /\ Handling(s) /\ a \notin registered
  /\ registered' = registered \cup {a}
  /\ TakeOver(s, a) \/ UNCHANGED <<account, login>>
  /\ UNCHANGED <<online, position, handled, loaded, flush, progress, grid, txn, ticket, now,
                 history>>

Authenticate(s, a) ==
  /\ Handling(s) /\ a \in registered \cup {None}
  /\ TakeOver(s, a)
  /\ UNCHANGED <<online, position, handled, loaded, flush, database, now, history>>

(* SaveProgress: an upsert, or an error. *)
SaveProgress(a, p) ==
  \/ progress' = [progress EXCEPT ![a] = p]
  \/ UNCHANGED progress

(* C2S_MoveInput, with its throttled save. *)
MoveInput(s) ==
  /\ Handling(s)
  /\ IF account[s] = None
       THEN position' = [position EXCEPT ![s] = Elsewhere] /\ UNCHANGED progress
       ELSE position' = [position EXCEPT ![s] = account[s]] /\ SaveProgress(account[s], account[s])
  /\ UNCHANGED <<online, account, handled, login, loaded, flush, registered, grid, txn, ticket,
                 now, history>>

(* UnregisterSession, which may overtake the session's own handler, and    *)
(* FlushProgress up to its read of accountId_.                             *)
Disconnect(s) ==
  /\ s \in online
  /\ online' = online \ {s}
  /\ flush' = [flush EXCEPT ![s] = account[s]]
  /\ UNCHANGED <<account, position, handled, login, loaded, database, now, history>>

(* Its SaveProgress reads the position when it has Database::lock_: by     *)
(* then, or since the account was taken over, it may be another account's. *)
Flush(s) ==
  /\ flush[s] # None /\ DbFree
  /\ SaveProgress(flush[s], position[s])
  /\ flush' = [flush EXCEPT ![s] = None]
  /\ torn' = IF account[s] # flush[s] \/ (handled = s /\ login # "none")
             THEN torn \cup {flush[s]} ELSE torn
  /\ UNCHANGED <<online, account, position, handled, login, loaded, registered, grid, txn, ticket,
                 now, saved, uses>>

-----------------------------------------------------------------------------
(***************************************************************************)
(* A full-replace save: in one transaction, the account's rows of a table  *)
(* go and the client's rows come.                                          *)
(***************************************************************************)
Replace(of, rows) ==
  /\ of \in saved \/ Cardinality(saved) < MaxSaved
  /\ \E ok \in BOOLEAN :
       txn' = [of |-> of, rows |-> IF ok THEN {} ELSE grid[of], rest |-> rows, ok |-> ok]
  /\ UNCHANGED <<sessionVars, registered, progress, grid, ticket, now, history>>

SaveInventory(a, rows) == Replace(<<a, Inventory>>, rows)
SaveEquipment(a, rows) == Replace(<<a, Equipment>>, rows)
SaveQuickSlots(a, rows) == Replace(<<a, QuickSlots>>, rows)
SaveStash(a, n, rows) == Replace(<<a, Stash(n)>>, rows)

LoggedIn(s) == Handling(s) /\ account[s] # None

(* The clients' saves; a guest's are ignored. *)
OnSaveInventory(s, rows) == LoggedIn(s) /\ SaveInventory(account[s], rows)
OnSaveEquipment(s, rows) == LoggedIn(s) /\ SaveEquipment(account[s], rows)
OnSaveQuickSlots(s, rows) == LoggedIn(s) /\ SaveQuickSlots(account[s], rows)
OnSaveStash(s, n, rows) == LoggedIn(s) /\ SaveStash(account[s], n, rows)

(* The next INSERT; a duplicate key fails like any other error. *)
SaveInsert(i) ==
  /\ txn.of # None /\ txn.ok /\ i \in txn.rest
  /\ \/ txn' = [txn EXCEPT !.rows = @ \cup {i}, !.rest = @ \ {i}]
     \/ txn' = [txn EXCEPT !.ok = FALSE]
  /\ UNCHANGED <<sessionVars, registered, progress, grid, ticket, now, history>>

(* Mutation of SaveEnd: what was written is committed in any case. *)
SaveEndCommits ==
  /\ txn.of # None /\ (~txn.ok \/ txn.rest = {})
  /\ grid' = [grid EXCEPT ![txn.of] = txn.rows]
  /\ saved' = saved \cup {txn.of}
  /\ txn' = NoTxn
  /\ UNCHANGED <<sessionVars, registered, progress, ticket, now, uses, torn>>

(* SQLEndTran: a commit, whose own failure nobody looks at, or a rollback. *)
SaveEnd ==
  /\ txn.of # None
  /\ \/ /\ txn.ok /\ txn.rest = {}
        /\ grid' = [grid EXCEPT ![txn.of] = txn.rows]
        /\ saved' = saved \cup {txn.of}
     \/ /\ ~txn.ok \/ txn.rest = {}
        /\ UNCHANGED <<grid, saved>>
  /\ txn' = NoTxn
  /\ UNCHANGED <<sessionVars, registered, progress, ticket, now, uses, torn>>

-----------------------------------------------------------------------------
(* 128 random bits: a string that was never a ticket. *)
GenerateMatchTicket(t) == ticket[t] = NoTicket

(* C2S_RequestMatch: a fresh ticket for the session's account. *)
RequestMatch(s, t) ==
  /\ LoggedIn(s)
  /\ GenerateMatchTicket(t)
  /\ ticket' = [ticket EXCEPT ![t] = [account |-> account[s], expires |-> now + Lifetime,
                                      consumed |-> FALSE]]
  /\ UNCHANGED <<sessionVars, registered, progress, grid, txn, now, history>>

(* Mutation of Redeemable: the flag is not looked at. *)
RedeemableAgain(t) == ticket[t] # NoTicket /\ ticket[t].expires > now

(* The WHERE of ConsumeMatchTicket's UPDATE. *)
Redeemable(t) ==
  ticket[t] # NoTicket /\ ~ticket[t].consumed /\ ticket[t].expires > now

(* C2S_JoinMatch: one UPDATE checks and consumes the ticket, then the      *)
(* session logs in to the account it was issued for, or is refused because *)
(* the account could not be fetched.                                       *)
JoinMatch(s, t) ==
  /\ Handling(s) /\ Redeemable(t)
  /\ ticket' = [ticket EXCEPT ![t].consumed = TRUE]
  /\ \/ /\ uses' = [uses EXCEPT ![t] = [times |-> @.times + 1, account |-> ticket[t].account,
                                        at |-> now]]
        /\ TakeOver(s, ticket[t].account)
     \/ UNCHANGED <<uses, account, login>>
  /\ UNCHANGED <<online, position, handled, loaded, flush, registered, progress, grid, txn, now,
                 saved, torn>>

Clock ==
  /\ now < MaxTime /\ now' = now + 1
  /\ UNCHANGED <<sessionVars, database, history>>

(* The server process dies: nobody is flushed, an open transaction is      *)
(* rolled back.                                                            *)
Crash ==
  /\ online' = {} /\ txn' = NoTxn
  /\ account' = [s \in Sessions |-> None] /\ position' = [s \in Sessions |-> Elsewhere]
  /\ handled' = None /\ login' = "none" /\ loaded' = None
  /\ flush' = [s \in Sessions |-> None]
  /\ UNCHANGED <<registered, progress, grid, ticket, now, history>>

Next ==
  \/ \E s \in Sessions :
       \/ Connect(s) \/ Handle(s) \/ MoveInput(s) \/ Disconnect(s) \/ Flush(s)
       \/ \E a \in Accounts : Register(s, a)
       \/ \E a \in Accounts \cup {None} : Authenticate(s, a)
       \/ LoadProgress(s) \/ FinishLogin(s)
       \/ \E rows \in Grids :
            \/ OnSaveInventory(s, rows) \/ OnSaveEquipment(s, rows) \/ OnSaveQuickSlots(s, rows)
            \/ \E n \in Stashes : OnSaveStash(s, n, rows)
       \/ \E t \in Tickets : RequestMatch(s, t) \/ JoinMatch(s, t)
  \/ \E i \in Items : SaveInsert(i)
  \/ HandlerDone \/ SaveEnd \/ Clock \/ Crash

Spec == Init /\ [][Next]_vars

-----------------------------------------------------------------------------
(* What an account has in a table is a grid its client sent for that very  *)
(* table, whole, or nothing before the first: whichever statement failed,  *)
(* or wherever the process died, it is never half-empty, never a mixture   *)
(* of two, and never touched by the save of another table or stash         *)
(* (SaveInventory: "keeps a mid-failure from leaving the account's         *)
(* inventory half-empty"; SaveStash: "the OTHER stash's rows are           *)
(* untouched").                                                            *)
GridWhole ==
  \A of \in Owned : IF of \in saved THEN grid[of] \in Grids ELSE grid[of] = {}

(* A ticket is accepted once at most, before it expires, for the account   *)
(* it was issued to (ConsumeMatchTicket).                                  *)
TicketOnce ==
  \A t \in Tickets :
    uses[t].times > 0 => /\ uses[t].times = 1
                         /\ uses[t].at < ticket[t].expires
                         /\ uses[t].account = ticket[t].account

(***************************************************************************)
(* The progress saved for an account is a place its own play led to, or    *)
(* the spawn point, although a connection can log in to one account after  *)
(* another and is saved when it goes, at whatever moment that is           *)
(* (FinishAuthenticatedLogin, SaveProgress, FlushProgress).  Only a flush  *)
(* that overtakes a login of its own session saves, for the one account,   *)
(* the place of the other, or the origin: the torn.                        *)
(***************************************************************************)
ProgressIsOwn == \A a \in Accounts \ torn : progress[a] \in {a, Spawn, None}
=============================================================================
