-------------------------- MODULE FreighterAdapter --------------------------
(***************************************************************************)
(* The session state of FreighterAdapter in                                *)
(* packages/wallet-adapters/src/adapters/freighter.ts and what its handlers *)
(* do to it.  The wallet's address is abstracted to whether there is one.  *)
(***************************************************************************)
EXTENDS Integers

CONSTANT MaxHandlers   \* bound: registrations and lookups counted

ASSUME FreighterAssumption == MaxHandlers \in Nat \ {0}

\* address: this.address is set; stored: STORAGE_KEY is in localStorage;
\* handlers: registrations of attachListeners on the extension;
\* accounts, networks: lookups that an event started and that are still out.
Sessions ==
  [address : BOOLEAN, stored : BOOLEAN, handlers : 0..MaxHandlers,
   accounts : 0..MaxHandlers, networks : 0..MaxHandlers]

\* A page load: only localStorage survives.
LoadedPage(stored) ==
  [address |-> FALSE, stored |-> stored, handlers |-> 0,
   accounts |-> 0, networks |-> 0]

UpTo(n) == IF n > MaxHandlers THEN MaxHandlers ELSE n

\* connect once the extension has answered; each success registers again.
Connected(f) ==
  [f EXCEPT !.address = TRUE, !.stored = TRUE, !.handlers = UpTo(@ + 1)]

\* disconnect.
Disconnected(f) ==
  [f EXCEPT !.address = FALSE, !.stored = FALSE, !.handlers = 0]

\* accountChange and networkChange: every registration looks up on its own.
AccountChanged(f) == [f EXCEPT !.accounts = UpTo(@ + f.handlers)]
NetworkChanged(f) == [f EXCEPT !.networks = UpTo(@ + f.handlers)]

\* The lookup of onAccountChange found an address, none, or failed.
AccountFound(f) ==
  [f EXCEPT !.accounts = @ - 1, !.address = TRUE]
AccountEmpty(f) ==
  Disconnected([f EXCEPT !.accounts = @ - 1])
AccountFailed(f) ==
  [f EXCEPT !.accounts = @ - 1]
NetworkAnswered(f) ==
  [f EXCEPT !.networks = @ - 1]

\* restoreSession was refused or failed.
SessionForgotten(f) == [f EXCEPT !.stored = FALSE]
=============================================================================
