---------------------------- MODULE WalletManager ---------------------------
(***************************************************************************)
(* WalletManager of packages/wallet-adapters/src/manager.ts with its        *)
(* adapters, used by an application that may start a call while another is  *)
(* under way.  A connect that timed out goes on inside its adapter.         *)
(***************************************************************************)
EXTENDS FreighterAdapter, RabetAdapter, LedgerAdapter, Sequences

CONSTANTS
  Registered,   \* ids of the registered adapters
  NoWallet,
  MaxBegun,     \* bound: calls in all
  MaxEvents     \* bound: events of wallets and devices, and page loads

Wallets == {"freighter", "rabet", "ledger", "xbull", "lobstr", "albedo"}
Simple  == {"xbull", "lobstr", "albedo"}   \* state: the public key alone

ASSUME WalletAssumption ==
  /\ Registered \subseteq Wallets
  /\ NoWallet \notin Wallets
  /\ MaxBegun \in Nat /\ MaxEvents \in Nat

VARIABLES
  active,      \* this.active
  relays,      \* activeUnsubscribes: the adapters that are relayed
  status,      \* the status that the manager emitted last
  calls,
  freighter, rabet, ledger, keys,
  begun, events,
  overlapped   \* history: two calls of the manager were under way at once

managerVars == <<active, relays, status>>
adapterVars == <<freighter, rabet, ledger, keys>>
vars == <<managerVars, calls, adapterVars, begun, events, overlapped>>

\* kind: connect, disconnect, signTransaction or restoreSession; phase: pending
\* until the caller's promise settles; stage: how far the adapter is;
\* cleaning: the disconnect that a timeout started; held: the transport in
\* hand; closes: the transport that its disconnect closes.
CallRecords ==
  [kind : {"connect", "disconnect", "sign", "restore"},
   wallet : Wallets, timed : BOOLEAN,
   phase : {"idle", "pending", "timedout"},
   stage : {"none", "allowed", "asking", "network", "request",
            "opening", "loading", "closing"},
   cleaning : BOOLEAN, held : 0..MaxTransports, closes : 0..MaxTransports]

NoCallYet ==
  [kind |-> "connect", wallet |-> "freighter", timed |-> TRUE,
   phase |-> "idle", stage |-> "none", cleaning |-> FALSE,
   held |-> NoTransport, closes |-> NoTransport]

TypeOK ==
  /\ active \in Wallets \cup {NoWallet}
  /\ relays \in Seq({"freighter"})
  /\ status \in {"none", "connecting", "connected", "disconnected", "error"}
  /\ calls \in [Calls -> CallRecords]
  /\ freighter \in Sessions /\ rabet \in Iframes /\ ledger \in Devices
  /\ keys \in [Simple -> BOOLEAN]
  /\ begun \in 0..MaxBegun /\ events \in 0..MaxEvents
  /\ overlapped \in BOOLEAN

-----------------------------------------------------------------------------
(* Calls and what the manager emits.                                       *)

\* connect and disconnect go through the manager.
UnderWay(c) ==
  calls[c].phase = "pending" /\ calls[c].kind \in {"connect", "disconnect"}

Free(c) ==
  calls[c].phase # "pending" /\ calls[c].stage = "none" /\ ~calls[c].cleaning

Begin(c) == Free(c) /\ begun < MaxBegun /\ begun' = begun + 1

BeginInManager(c) ==
  /\ Begin(c)
  /\ overlapped' = (overlapped \/ \E d \in Calls : UnderWay(d))

\* A status of Freighter reaches the manager's listeners by its relays.
Relayed(s) == status' = IF relays = <<>> THEN status ELSE s

\* The transport that a disconnect would close.
Remembered(w) == IF w = "ledger" THEN ledger.transport ELSE NoTransport

Call(kind, w, timed, stage, held) ==
  [kind |-> kind, wallet |-> w, timed |-> timed, phase |-> "pending",
   stage |-> stage, cleaning |-> FALSE, held |-> held,
   closes |-> IF kind = "disconnect" THEN Remembered(w) ELSE NoTransport]

\* Where getApp starts.
LedgerStage ==
  IF ledger.app # NoTransport THEN "asking"
  ELSE IF ledger.transport # NoTransport THEN "loading" ELSE "opening"
LedgerHandle ==
  IF ledger.app # NoTransport THEN ledger.app ELSE ledger.transport

-----------------------------------------------------------------------------
(* connect.                                                                *)

\* Mutation: the relays of the previous wallet stay.
StillAttached == relays
\* detachFromActive unsubscribes everything that was attached.
Detached == <<>>

\* detachFromActive, emitStatus, adapter.connect(); Rabet's extension may be
\* there or not.
Connect(c, w, timed) ==
  /\ BeginInManager(c)
  /\ relays' = Detached /\ status' = "connecting"
  /\ \/ /\ w \in Simple \cup {"freighter"}
        /\ calls' = [calls EXCEPT ![c] =
                       Call("connect", w, timed, "asking", NoTransport)]
        /\ UNCHANGED rabet
     \/ /\ w = "rabet"
        /\ \/ /\ calls' = [calls EXCEPT ![c] =
                             Call("connect", w, timed, "asking", NoTransport)]
              /\ UNCHANGED rabet
           \/ /\ calls' = [calls EXCEPT ![c] =
                             Call("connect", w, timed, "request", NoTransport)]
              /\ rabet' = Post([rabet EXCEPT !.mode = "iframe"], c)
     \/ /\ w = "ledger"
        /\ calls' = [calls EXCEPT ![c] =
                       Call("connect", w, timed, LedgerStage, LedgerHandle)]
        /\ UNCHANGED rabet
  /\ UNCHANGED <<active, freighter, ledger, keys, events>>

\* Mutation: a late answer counts.
LateCounts(c) == FALSE
\* settled of withTimeout: after a timeout the late answer changes nothing.
Settled(c) == calls[c].phase = "timedout"

\* The adapter has answered; its clean-up may still be under way.
Ends(c) ==
  calls' = [calls EXCEPT ![c] =
              IF @.cleaning THEN [@ EXCEPT !.stage = "none"] ELSE NoCallYet]

\* withTimeout resolves: the adapter becomes active and, if it reports
\* changes, is relayed.
Resolve(c) ==
  /\ Ends(c)
  /\ IF Settled(c)
     THEN UNCHANGED <<active, relays>>
     ELSE /\ active' = calls[c].wallet
          /\ relays' = IF calls[c].wallet = "freighter"
                       THEN Append(relays, "freighter") ELSE relays

\* The last status of an answer: the manager's, or the relayed one.
Emitted(c, s) ==
  IF Settled(c) THEN UNCHANGED status ELSE status' = s
FreighterEmitted(c, s) ==
  IF Settled(c) THEN Relayed(s) ELSE status' = s

Reject(c) == Ends(c) /\ UNCHANGED <<active, relays>>

Connecting(c, w) ==
  calls[c].kind = "connect" /\ calls[c].wallet = w

FreighterAnswers(c) ==
  /\ Connecting(c, "freighter") /\ calls[c].stage = "asking"
  /\ \/ /\ Resolve(c)
        /\ freighter' = Connected(freighter)
        /\ FreighterEmitted(c, "connected")
     \/ /\ Reject(c)
        /\ FreighterEmitted(c, "error")
        /\ UNCHANGED freighter
  /\ UNCHANGED <<rabet, ledger, keys, begun, events, overlapped>>

\* xBull and LOBSTR keep the key before they ask for the network.
KeyKept(c) ==
  /\ calls[c].stage = "asking" /\ calls[c].wallet # "albedo"
  /\ calls' = [calls EXCEPT ![c].stage = "network"]
  /\ keys' = [keys EXCEPT ![calls[c].wallet] = TRUE]
  /\ UNCHANGED managerVars

\* Albedo names no network.
AlbedoAnswers(c) ==
  /\ calls[c].stage = "asking" /\ calls[c].wallet = "albedo"
  /\ keys' = [keys EXCEPT !["albedo"] = TRUE]

SimpleAnswers(c) ==
  /\ calls[c].kind = "connect" /\ calls[c].wallet \in Simple
  /\ \/ KeyKept(c)
     \/ /\ \/ calls[c].stage = "network" /\ UNCHANGED keys
           \/ AlbedoAnswers(c)
        /\ Resolve(c)
        /\ Emitted(c, "connected")
     \/ /\ calls[c].stage = "asking"
        /\ Reject(c)
        /\ Emitted(c, "error")
        /\ UNCHANGED keys
  /\ UNCHANGED <<freighter, rabet, ledger, begun, events, overlapped>>

RabetExtensionAnswers(c) ==
  /\ Connecting(c, "rabet") /\ calls[c].stage = "asking"
  /\ \/ /\ Resolve(c)
        /\ rabet' = [rabet EXCEPT !.mode = "extension", !.key = TRUE]
        /\ Emitted(c, "connected")
     \/ /\ Reject(c)
        /\ Emitted(c, "error")
        /\ UNCHANGED rabet
  /\ UNCHANGED <<freighter, ledger, keys, begun, events, overlapped>>

\* connectViaIframe after its request was answered, refused or timed out.
ConnectViaIframe(c, answered) ==
  \/ /\ answered
     /\ Resolve(c)
     /\ rabet' = [Cleanup(rabet, c) EXCEPT !.key = TRUE]
     /\ Emitted(c, "connected")
  \/ /\ Reject(c)
     /\ rabet' = [Teardown(Cleanup(rabet, c)) EXCEPT !.mode = "none"]
     /\ Emitted(c, "error")

LedgerAnswers(c) ==
  /\ Connecting(c, "ledger") /\ calls[c].stage = "asking"
  /\ \/ /\ calls[c].held \in ledger.open
        /\ Resolve(c)
        /\ ledger' = [ledger EXCEPT !.key = TRUE]
        /\ Emitted(c, "connected")
     \/ /\ Reject(c)
        /\ Emitted(c, "error")
        /\ UNCHANGED ledger
  /\ UNCHANGED <<freighter, rabet, keys, begun, events, overlapped>>

\* getTransport and getApp of a connect or a signature.
LedgerOpens(c) ==
  /\ calls[c].stage = "opening"
  /\ \/ /\ ledger.opened < MaxTransports
        /\ ledger' = Opened(ledger)
        /\ calls' = [calls EXCEPT ![c].stage = "loading",
                                  ![c].held = ledger.opened + 1]
        /\ UNCHANGED managerVars
     \/ /\ Reject(c)
        /\ IF calls[c].kind = "connect" THEN Emitted(c, "error")
                                        ELSE UNCHANGED status
        /\ UNCHANGED ledger
  /\ UNCHANGED <<freighter, rabet, keys, begun, events, overlapped>>

LedgerLoads(c) ==
  /\ calls[c].stage = "loading"
  /\ ledger' = Loaded(ledger, calls[c].held)
  /\ calls' = [calls EXCEPT ![c].stage = "asking"]
  /\ UNCHANGED <<managerVars, freighter, rabet, keys, begun, events, overlapped>>

-----------------------------------------------------------------------------
(* disconnect, and the timeout of connect.                                 *)

\* Adapters whose disconnect waits for an answer.
ClosesLater(w) ==
  \/ w = "xbull"
  \/ w = "rabet" /\ rabet.mode = "extension"
  \/ w = "ledger" /\ ledger.transport # NoTransport

\* adapter.disconnect() has done its work, at once or after it waited for the
\* wallet; t: the transport that was closed.
AdapterLeaves(w, t, waited) ==
  /\ freighter' = IF w = "freighter" THEN Disconnected(freighter) ELSE freighter
  /\ rabet' = IF w = "rabet" THEN Left(rabet, waited) ELSE rabet
  /\ ledger' = IF w = "ledger" THEN Forgotten(ledger, t) ELSE ledger
  /\ keys' = IF w \in Simple THEN [keys EXCEPT ![w] = FALSE] ELSE keys

\* What disconnect does after the await, whatever has become active.
Leave ==
  /\ relays' = Detached /\ active' = NoWallet /\ status' = "disconnected"

Disconnect(c) ==
  /\ active # NoWallet
  /\ BeginInManager(c)
  /\ \/ /\ ClosesLater(active)
        /\ calls' = [calls EXCEPT ![c] =
             Call("disconnect", active, FALSE, "closing", NoTransport)]
        /\ UNCHANGED <<managerVars, adapterVars>>
     \/ /\ ~ClosesLater(active)
        /\ AdapterLeaves(active, NoTransport, FALSE)
        /\ Leave
        /\ UNCHANGED calls
  /\ UNCHANGED events

Disconnects(c) ==
  /\ calls[c].kind = "disconnect" /\ calls[c].stage = "closing"
  /\ AdapterLeaves(calls[c].wallet, calls[c].closes, TRUE)
  /\ Leave
  /\ Ends(c)
  /\ UNCHANGED <<begun, events, overlapped>>

ConnectTimesOut(c) ==
  /\ calls[c].kind = "connect" /\ calls[c].timed
  /\ calls[c].phase = "pending"
  /\ status' = "error"
  /\ \/ /\ ClosesLater(calls[c].wallet)
        /\ calls' = [calls EXCEPT ![c].phase = "timedout",
                                  ![c].cleaning = TRUE,
                                  ![c].closes = Remembered(calls[c].wallet)]
        /\ UNCHANGED adapterVars
     \/ /\ ~ClosesLater(calls[c].wallet)
        /\ AdapterLeaves(calls[c].wallet, NoTransport, FALSE)
        /\ calls' = [calls EXCEPT ![c].phase = "timedout"]
  /\ UNCHANGED <<active, relays, begun, events, overlapped>>

\* The clean-up after a timeout ends; a later connect may be using the
\* adapter by then.
Cleaned(c) ==
  /\ calls[c].cleaning
  /\ AdapterLeaves(calls[c].wallet, calls[c].closes, TRUE)
  /\ calls' = [calls EXCEPT ![c] =
       IF @.stage = "none" THEN NoCallYet ELSE [@ EXCEPT !.cleaning = FALSE]]
  /\ UNCHANGED <<managerVars, begun, events, overlapped>>

-----------------------------------------------------------------------------
(* signTransaction of the active adapter, and the requests of the iframe.  *)

Sign(c) ==
  /\ active # NoWallet
  /\ Begin(c)
  /\ \/ /\ active = "rabet" /\ rabet.mode = "iframe"
        /\ rabet' = Post(rabet, c)
        /\ calls' = [calls EXCEPT ![c] =
             Call("sign", active, FALSE, "request", NoTransport)]
     \/ /\ active = "rabet" /\ rabet.mode = "extension"
        /\ calls' = [calls EXCEPT ![c] =
             Call("sign", active, FALSE, "asking", NoTransport)]
        /\ UNCHANGED rabet
     \/ /\ active = "ledger" /\ ledger.key
        /\ calls' = [calls EXCEPT ![c] =
             Call("sign", active, FALSE, LedgerStage, LedgerHandle)]
        /\ UNCHANGED rabet
     \/ /\ active \in Simple \cup {"freighter"}
        /\ calls' = [calls EXCEPT ![c] =
             Call("sign", active, FALSE, "asking", NoTransport)]
        /\ UNCHANGED rabet
     \/ /\ \/ active = "rabet" /\ rabet.mode = "none"
           \/ active = "ledger" /\ ~ledger.key
        /\ UNCHANGED <<calls, rabet>>
  /\ UNCHANGED <<managerVars, freighter, ledger, keys, events, overlapped>>

WalletSigns(c) ==
  /\ calls[c].kind = "sign" /\ calls[c].stage = "asking"
  /\ Ends(c)
  /\ UNCHANGED <<managerVars, adapterVars, begun, events, overlapped>>

\* signTransaction tears the iframe down whatever came of its request.
SignViaIframe(c) ==
  /\ rabet' = Teardown(Cleanup(rabet, c))
  /\ Ends(c)
  /\ UNCHANGED managerVars

IframeSettles(c, answered) ==
  /\ calls[c].stage = "request"
  /\ \/ calls[c].kind = "connect" /\ ConnectViaIframe(c, answered)
     \/ calls[c].kind = "sign" /\ SignViaIframe(c)
  /\ UNCHANGED <<freighter, ledger, keys, begun, events, overlapped>>

IframeAnswers(c)  == CanAnswer(rabet, c) /\ IframeSettles(c, TRUE)
IframeTimesOut(c) == CanTimeOut(rabet, c) /\ IframeSettles(c, FALSE)

-----------------------------------------------------------------------------
(* Events of Freighter, the device, and the page.                          *)

Event == events < MaxEvents /\ events' = events + 1

FreighterEvent ==
  /\ Event /\ freighter.handlers > 0
  /\ \/ freighter' = AccountChanged(freighter) /\ UNCHANGED status
     \/ freighter' = NetworkChanged(freighter) /\ UNCHANGED status
     \/ freighter' = Disconnected(freighter) /\ Relayed("disconnected")
  /\ UNCHANGED <<active, relays, calls, rabet, ledger, keys, begun, overlapped>>

AccountLookup ==
  /\ freighter.accounts > 0
  /\ \/ freighter' = AccountFound(freighter)  /\ Relayed("connected")
     \/ freighter' = AccountEmpty(freighter)  /\ Relayed("disconnected")
     \/ freighter' = AccountFailed(freighter) /\ Relayed("error")
  /\ UNCHANGED <<active, relays, calls, rabet, ledger, keys, begun, events, overlapped>>

NetworkLookup ==
  /\ freighter.networks > 0
  /\ freighter' = NetworkAnswered(freighter)
  /\ UNCHANGED status \/ Relayed("error")
  /\ UNCHANGED <<active, relays, calls, rabet, ledger, keys, begun, events, overlapped>>

DeviceEvent ==
  /\ Event
  /\ \E t \in ledger.open : ledger' = DeviceGone(ledger, t)
  /\ UNCHANGED <<managerVars, calls, freighter, rabet, keys, begun, overlapped>>

\* The page is loaded again.
Reload ==
  /\ Event
  /\ active' = NoWallet /\ relays' = <<>> /\ status' = "none"
  /\ calls' = [c \in Calls |-> NoCallYet]
  /\ freighter' = LoadedPage(freighter.stored)
  /\ rabet' = NoIframe /\ ledger' = NoDevice
  /\ keys' = [w \in Simple |-> FALSE]
  /\ overlapped' = FALSE
  /\ UNCHANGED begun

\* restoreSession of Freighter, which does not go through the manager.
RestoreSession(c) ==
  /\ freighter.stored
  /\ Begin(c)
  /\ calls' = [calls EXCEPT ![c] =
       Call("restore", "freighter", FALSE, "allowed", NoTransport)]
  /\ UNCHANGED <<managerVars, adapterVars, events, overlapped>>

\* isAllowed said no or failed three times, or it let connect begin.
AllowedAnswers(c) ==
  /\ calls[c].stage = "allowed"
  /\ \/ /\ Ends(c)
        /\ freighter' = SessionForgotten(freighter)
        /\ UNCHANGED status
     \/ /\ calls' = [calls EXCEPT ![c].stage = "asking"]
        /\ Relayed("connecting")
        /\ UNCHANGED freighter
  /\ UNCHANGED <<active, relays, rabet, ledger, keys, begun, events, overlapped>>

SessionRestored(c) ==
  /\ calls[c].kind = "restore" /\ calls[c].stage = "asking"
  /\ Ends(c)
  /\ \/ freighter' = Connected(freighter) /\ Relayed("connected")
     \/ freighter' = SessionForgotten(freighter) /\ Relayed("error")
  /\ UNCHANGED <<active, relays, rabet, ledger, keys, begun, events, overlapped>>

-----------------------------------------------------------------------------

Init ==
  /\ active = NoWallet /\ relays = <<>> /\ status = "none"
  /\ calls = [c \in Calls |-> NoCallYet]
  /\ freighter \in {LoadedPage(b) : b \in BOOLEAN}
  /\ rabet = NoIframe /\ ledger = NoDevice
  /\ keys = [w \in Simple |-> FALSE]
  /\ begun = 0 /\ events = 0 /\ overlapped = FALSE

Next ==
  \/ \E c \in Calls :
       \/ \E w \in Registered, timed \in BOOLEAN : Connect(c, w, timed)
       \/ FreighterAnswers(c)
       \/ SimpleAnswers(c)
       \/ RabetExtensionAnswers(c)
       \/ LedgerAnswers(c)
       \/ LedgerOpens(c)
       \/ LedgerLoads(c)
       \/ Disconnect(c)
       \/ Disconnects(c)
       \/ ConnectTimesOut(c)
       \/ Cleaned(c)
       \/ Sign(c)
       \/ WalletSigns(c)
       \/ IframeAnswers(c)
       \/ IframeTimesOut(c)
       \/ RestoreSession(c)
       \/ AllowedAnswers(c)
       \/ SessionRestored(c)
  \/ FreighterEvent
  \/ AccountLookup
  \/ NetworkLookup
  \/ DeviceEvent
  \/ Reload

\* The only things that are sure to happen are the two timers.
Spec ==
  /\ Init /\ [][Next]_vars
  /\ \A c \in Calls : WF_vars(ConnectTimesOut(c)) /\ WF_vars(IframeTimesOut(c))

-----------------------------------------------------------------------------
(* Properties.                                                             *)

\* As long as the application makes one call of the manager at a time, the
\* manager relays nobody but the active wallet, and once: no status of a
\* wallet that was left, or of one whose connect failed, gets through.
RelaysFollowActive ==
  ~overlapped => relays = <<>> \/ relays = <<active>>

\* While no call of the manager is under way, the active wallet stays, and
\* the status changes only when a relayed wallet reports a change: an answer
\* that comes after CONNECTION_TIMEOUT does not revive the connection.
Quiet == \A c \in Calls : ~UnderWay(c)
Reloaded == status' = "none"
LateAnswersAreIgnored ==
  [][Quiet /\ Quiet' /\ begun' = begun /\ ~Reloaded =>
       /\ active' = active /\ relays' = relays
       /\ status' # status => relays # <<>>]_vars

\* Every connect that was given a timeout returns, and every request to
\* Rabet's iframe is settled, even when another request has removed its
\* listener or its iframe, or the page is gone.
CallsReturn ==
  \A c \in Calls :
    /\ calls[c].phase = "pending" /\ calls[c].kind = "connect" /\ calls[c].timed
         ~> calls[c].phase # "pending"
    /\ calls[c].stage = "request" ~> calls[c].stage # "request"
=============================================================================
