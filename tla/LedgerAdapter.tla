---------------------------- MODULE LedgerAdapter ---------------------------
(***************************************************************************)
(* The device handles of LedgerAdapter in                                  *)
(* packages/wallet-adapters/src/adapters/ledger.ts.  Transports are        *)
(* numbered in the order in which they were opened.                        *)
(***************************************************************************)
EXTENDS Integers

CONSTANT MaxTransports   \* bound: transports opened

ASSUME LedgerAssumption == MaxTransports \in Nat \ {0}

Transports == 1..MaxTransports
NoTransport == 0

\* transport and app: the cached handles, the app by its transport;
\* open: transports that are open, whether the adapter remembers them or not.
Devices ==
  [transport : 0..MaxTransports, app : 0..MaxTransports, key : BOOLEAN,
   open : SUBSET Transports, opened : 0..MaxTransports]

NoDevice ==
  [transport |-> NoTransport, app |-> NoTransport, key |-> FALSE,
   open |-> {}, opened |-> 0]

\* getTransport once the device has been opened: two calls that both found no
\* transport open one each, and the later one is remembered.
Opened(d) ==
  [d EXCEPT !.opened = @ + 1, !.transport = d.opened + 1,
            !.open = @ \cup {d.opened + 1}]

\* getApp once the module has been loaded.
Loaded(d, t) == [d EXCEPT !.app = t]

\* The disconnect event of any transport clears what is remembered.
DeviceGone(d, t) ==
  [d EXCEPT !.transport = NoTransport, !.app = NoTransport,
            !.open = @ \ {t}]

\* disconnect: the transport remembered when it began is closed; what is
\* remembered when the close ends is forgotten.
Forgotten(d, t) ==
  [d EXCEPT !.transport = NoTransport, !.app = NoTransport, !.key = FALSE,
            !.open = @ \ {t}]
=============================================================================
