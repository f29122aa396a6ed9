---------------------------- MODULE WalletProvider --------------------------
(***************************************************************************)
(* The wallet context of packages/react/src/wallet/WalletProvider.tsx with *)
(* the persisted session of storage.ts.  The public key and connectedAt    *)
(* are set and cleared with the wallet's id.                               *)
(***************************************************************************)
EXTENDS Integers

CONSTANTS
  Ids,         \* the wallets of the registry
  NoId,
  Connects,    \* calls of the context that may be under way together
  NoConnect,
  MaxConnects  \* bound: calls and page loads in all

ASSUME ProviderAssumption ==
  NoId \notin Ids /\ NoConnect \notin Connects /\ MaxConnects \in Nat

VARIABLES
  activeId,      \* activeWalletId
  stored,        \* the session in localStorage
  isConnecting, walletError,
  timeoutRef,    \* connectTimeoutRef: the connect that set its timer last
  armed,         \* connects under way whose timer runs
  stray,         \* the timer of a connect that has returned still runs
  conns,
  late,          \* wallets still asked for a connect that timed out
  reconnecting,  \* the wallet of the session restored on mount
  started,
  crossed        \* history: two connects were under way at once

providerVars == <<activeId, stored, isConnecting, walletError, timeoutRef,
                  armed, stray, conns, late, reconnecting, started, crossed>>

\* next: the second wallet of connectWithFallback.
Idle == [phase |-> "idle", id |-> NoId, next |-> NoId]
Pending(id, next) == [phase |-> "pending", id |-> id, next |-> next]

ProviderTypeOK ==
  /\ activeId \in Ids \cup {NoId} /\ stored \in Ids \cup {NoId}
  /\ isConnecting \in BOOLEAN
  /\ walletError \in {"none", "timeout", "failed"}
  /\ timeoutRef \in Connects \cup {NoConnect} /\ armed \subseteq Connects
  /\ stray \in BOOLEAN
  /\ conns \in [Connects ->
       [phase : {"idle", "pending", "leaving", "switching"},
        id : Ids \cup {NoId}, next : Ids \cup {NoId}]]
  /\ late \subseteq Ids /\ reconnecting \in Ids \cup {NoId}
  /\ started \in 0..MaxConnects /\ crossed \in BOOLEAN

-----------------------------------------------------------------------------
(* connect.                                                                *)

Start == started < MaxConnects /\ started' = started + 1

\* The start of connect: the timer that the ref holds is cleared, whosever
\* it is.
Ask(c, id, next) ==
  /\ isConnecting' = TRUE /\ walletError' = "none"
  /\ armed' = (armed \ {timeoutRef}) \cup {c}
  /\ timeoutRef' = c
  /\ conns' = [conns EXCEPT ![c] = Pending(id, next)]
  /\ crossed' = (crossed \/ \E d \in Connects \ {c} : conns[d].phase = "pending")

\* finally clears the timer that the ref holds; a timer of c that the ref no
\* longer holds goes on.
ClearsTimer(c) ==
  /\ armed' = armed \ {timeoutRef, c}
  /\ stray' = (stray \/ (c \in armed /\ timeoutRef # c))

\* The catch of connect, and the next wallet of a fallback chain.
GiveUp(c, error) ==
  IF conns[c].next # NoId
  THEN /\ isConnecting' = TRUE /\ walletError' = "none"
       /\ armed' = (armed \ {timeoutRef}) \cup {c}
       /\ timeoutRef' = c
       /\ conns' = [conns EXCEPT ![c] = Pending(conns[c].next, NoId)]
       /\ crossed' = (crossed
                       \/ \E d \in Connects \ {c} : conns[d].phase = "pending")
  ELSE /\ isConnecting' = FALSE /\ walletError' = error
       /\ armed' = armed \ {timeoutRef, c}
       /\ conns' = [conns EXCEPT ![c] = Idle]
       /\ UNCHANGED <<timeoutRef, crossed>>

\* The wallet answered, and the session is saved with it.
Activate(id) == activeId' = id /\ stored' = id

ConnectWallet(c, id, next) ==
  /\ conns[c].phase = "idle" /\ next # id
  /\ Start
  /\ Ask(c, id, next)
  /\ UNCHANGED <<activeId, stored, stray, late, reconnecting>>

WalletAnswers(c) ==
  /\ conns[c].phase = "pending"
  /\ Activate(conns[c].id)
  /\ isConnecting' = FALSE
  /\ ClearsTimer(c)
  /\ conns' = [conns EXCEPT ![c] = Idle]
  /\ UNCHANGED <<walletError, timeoutRef, late, reconnecting, started, crossed>>

WalletRefuses(c) ==
  /\ conns[c].phase = "pending"
  /\ GiveUp(c, "failed")
  /\ stray' = (stray \/ (c \in armed /\ timeoutRef # c))
  /\ UNCHANGED <<activeId, stored, late, reconnecting, started>>

\* The timer rejects; the wallet is still being asked.
ConnectionTimeout(c) ==
  /\ conns[c].phase = "pending" /\ c \in armed
  /\ late' = late \cup {conns[c].id}
  /\ GiveUp(c, "timeout")
  /\ UNCHANGED <<stray, activeId, stored, reconnecting, started>>

\* Mutation: the late answer runs the finally of its connect again.
LateFinally == armed \ {timeoutRef}
\* An answer after the timeout leaves the timers alone.
LateTimers == armed

LateWalletAnswers(id) ==
  /\ id \in late
  /\ late' = late \ {id}
  /\ armed' = LateTimers
  /\ Activate(id) \/ UNCHANGED <<activeId, stored>>
  /\ UNCHANGED <<isConnecting, walletError, timeoutRef, stray, conns,
                 reconnecting, started, crossed>>

\* A stray timer reports the timeout of a connect that has returned.
StrayTimer ==
  /\ stray /\ stray' = FALSE
  /\ isConnecting' = FALSE /\ walletError' = "timeout"
  /\ UNCHANGED <<activeId, stored, timeoutRef, armed, conns, late, reconnecting,
                 started, crossed>>

-----------------------------------------------------------------------------
(* disconnect, switchWallet, and the session.                              *)

DisconnectWallet(c) ==
  /\ conns[c].phase = "idle"
  /\ Start
  /\ conns' = [conns EXCEPT ![c] = [Idle EXCEPT !.phase = "leaving"]]
  /\ UNCHANGED <<activeId, stored, isConnecting, walletError, timeoutRef, armed,
                 stray, late, reconnecting, crossed>>

\* The finally of disconnect, whatever the wallet said and whoever is
\* active by then.
WalletLeaves(c) ==
  /\ conns[c].phase = "leaving"
  /\ activeId' = NoId /\ stored' = NoId
  /\ conns' = [conns EXCEPT ![c] = Idle]
  /\ UNCHANGED <<isConnecting, walletError, timeoutRef, armed, stray, late,
                 reconnecting, started, crossed>>

\* switchWallet leaves the current wallet before it connects the next, and
\* forgets nothing in between.
SwitchWallet(c, id) ==
  /\ conns[c].phase = "idle" /\ activeId # NoId
  /\ Start
  /\ conns' = [conns EXCEPT ![c] =
       [phase |-> "switching", id |-> id, next |-> NoId]]
  /\ UNCHANGED <<activeId, stored, isConnecting, walletError, timeoutRef, armed,
                 stray, late, reconnecting, crossed>>

SwitchConnects(c) ==
  /\ conns[c].phase = "switching"
  /\ Ask(c, conns[c].id, NoId)
  /\ UNCHANGED <<activeId, stored, stray, late, reconnecting, started>>

\* The page is loaded again; a session older than sessionTimeoutMs is
\* discarded.
ReloadPage ==
  /\ Start
  /\ activeId' = NoId /\ isConnecting' = FALSE /\ walletError' = "none"
  /\ timeoutRef' = NoConnect /\ armed' = {} /\ stray' = FALSE
  /\ late' = {}
  /\ conns' = [c \in Connects |-> Idle]
  /\ \/ stored' = stored
     \/ stored' = NoId
  /\ reconnecting' = stored'
  /\ crossed' = FALSE

\* The reconnect on mount, which has no timeout.
Reconnected ==
  /\ reconnecting # NoId
  /\ reconnecting' = NoId
  /\ \/ Activate(reconnecting)
     \/ stored' = NoId /\ UNCHANGED activeId
  /\ UNCHANGED <<isConnecting, walletError, timeoutRef, armed, stray, conns,
                 late, started, crossed>>

ProviderInit ==
  /\ activeId = NoId /\ stored \in Ids \cup {NoId}
  /\ isConnecting = FALSE /\ walletError = "none"
  /\ timeoutRef = NoConnect /\ armed = {} /\ stray = FALSE /\ late = {}
  /\ conns = [c \in Connects |-> Idle]
  /\ reconnecting = stored /\ started = 0
  /\ crossed = FALSE

ProviderNext ==
  \/ \E c \in Connects :
       \/ \E id \in Ids, next \in Ids \cup {NoId} : ConnectWallet(c, id, next)
       \/ WalletAnswers(c)
       \/ WalletRefuses(c)
       \/ ConnectionTimeout(c)
       \/ DisconnectWallet(c)
       \/ WalletLeaves(c)
       \/ \E id \in Ids : SwitchWallet(c, id)
       \/ SwitchConnects(c)
  \/ \E id \in Ids : LateWalletAnswers(id)
  \/ StrayTimer
  \/ ReloadPage
  \/ Reconnected

-----------------------------------------------------------------------------
(* Properties.                                                             *)

\* A connect that no other connect crosses returns at the latest when its
\* timer fires: neither an answer that comes too late, nor a disconnect, nor
\* the reconnect on mount takes its timer away.
LoneConnectReturns ==
  \A c \in Connects :
    conns[c].phase = "pending"
      ~> conns[c].phase # "pending" \/ crossed
=============================================================================
