-------------------------- MODULE FrontEnd_proofs ---------------------------
(***************************************************************************)
(* The wallet manager and the parts of the front end, for every set of calls, *)
(* wallets, transactions and bounds.                                       *)
(***************************************************************************)
EXTENDS WalletManager, FrontEnd, Sifting_proofs, SequenceTheorems, TLAPS

-----------------------------------------------------------------------------
(* The wallet manager.                                                     *)

Sensible(r) ==
  /\ r.phase = "idle" => r.stage = "none" /\ ~r.cleaning
  /\ r.cleaning => r.phase = "timedout"
  /\ r.phase = "timedout" => r.kind = "connect"

Busy(r) == r.phase = "pending" /\ r.kind \in {"connect", "disconnect"}

CallsMakeSense == \A c \in Calls : Sensible(calls[c])

\* One call at a time, whose connect finds everything detached.
Serial ==
  ~overlapped =>
    /\ \A c, d \in Calls : Busy(calls[c]) /\ Busy(calls[d]) => c = d
    /\ \A c \in Calls :
         Busy(calls[c]) /\ calls[c].kind = "connect" => relays = <<>>
    /\ relays = <<>> \/ relays = <<active>>

IInv == TypeOK /\ CallsMakeSense /\ Serial

-----------------------------------------------------------------------------
(* A step changes one call.                                                *)

LEMMA OneCall ==
  ASSUME calls \in [Calls -> CallRecords], CallsMakeSense,
         NEW c \in Calls, NEW r \in CallRecords, Sensible(r),
         calls' = [calls EXCEPT ![c] = r]
  PROVE  calls' \in [Calls -> CallRecords] /\ CallsMakeSense'
<1>1. calls' \in [Calls -> CallRecords]
  OBVIOUS
<1>2. \A d \in Calls : calls'[d] = IF d = c THEN r ELSE calls[d]
  OBVIOUS
<1>3. CallsMakeSense'
  <2> SUFFICES ASSUME NEW d \in Calls PROVE Sensible(calls'[d])
    BY DEF CallsMakeSense, Sensible
  <2> QED BY <1>2 DEF CallsMakeSense
<1> QED BY <1>1, <1>3

\* The manager is not touched, and no call of it begins.
LEMMA SerialKept ==
  ASSUME calls \in [Calls -> CallRecords], Serial,
         NEW c \in Calls, NEW r \in CallRecords,
         calls' = [calls EXCEPT ![c] = r],
         Busy(r) => Busy(calls[c]) /\ r.kind = calls[c].kind,
         UNCHANGED <<active, relays, overlapped>>
  PROVE  Serial'
<1>1. \A d \in Calls : calls'[d] = IF d = c THEN r ELSE calls[d]
  OBVIOUS
<1>2. \A d \in Calls : Busy(calls'[d]) =>
        Busy(calls[d]) /\ calls'[d].kind = calls[d].kind
  BY <1>1
<1> QED BY <1>2 DEF Serial, Busy

LEMMA SerialIdle ==
  ASSUME Serial, UNCHANGED <<calls, active, relays, overlapped>>
  PROVE  Serial'
BY DEF Serial, Busy

\* A call of the manager that waited has ended, and it left the manager
\* detached or attached to the active wallet only.
LEMMA SerialEnds ==
  ASSUME calls \in [Calls -> CallRecords], Serial,
         NEW c \in Calls, NEW r \in CallRecords, Busy(calls[c]), ~Busy(r),
         calls' = [calls EXCEPT ![c] = r], UNCHANGED overlapped,
         ~overlapped => relays' = <<>> \/ relays' = <<active'>>
  PROVE  Serial'
<1>1. \A d \in Calls : calls'[d] = IF d = c THEN r ELSE calls[d]
  OBVIOUS
<1> SUFFICES ASSUME ~overlapped'
    PROVE  /\ \A b, d \in Calls : Busy(calls'[b]) /\ Busy(calls'[d]) => b = d
           /\ \A d \in Calls :
                Busy(calls'[d]) /\ calls'[d].kind = "connect" => relays' = <<>>
           /\ relays' = <<>> \/ relays' = <<active'>>
  BY DEF Serial, Busy
<1>2. \A d \in Calls : ~Busy(calls'[d])
  BY <1>1 DEF Serial
<1> QED BY <1>2

\* A call of the manager begins.
LEMMA SerialBegins ==
  ASSUME calls \in [Calls -> CallRecords], Serial,
         NEW c \in Calls, NEW r \in CallRecords, BeginInManager(c),
         calls' = [calls EXCEPT ![c] = r],
         relays' = <<>>
  PROVE  Serial'
<1>1. \A d \in Calls : calls'[d] = IF d = c THEN r ELSE calls[d]
  OBVIOUS
<1> SUFFICES ASSUME ~overlapped'
    PROVE  /\ \A b, d \in Calls : Busy(calls'[b]) /\ Busy(calls'[d]) => b = d
           /\ \A d \in Calls :
                Busy(calls'[d]) /\ calls'[d].kind = "connect" => relays' = <<>>
           /\ relays' = <<>> \/ relays' = <<active'>>
  BY DEF Serial, Busy
<1>2. \A d \in Calls : ~Busy(calls[d])
  BY DEF BeginInManager, UnderWay, Busy
<1>3. \A d \in Calls : Busy(calls'[d]) => d = c
  BY <1>1, <1>2
<1> QED BY <1>3

-----------------------------------------------------------------------------
(* The adapters keep their types.                                          *)

LEMMA FreighterTypes ==
  ASSUME NEW f \in Sessions
  PROVE  /\ Connected(f) \in Sessions /\ Disconnected(f) \in Sessions
         /\ AccountChanged(f) \in Sessions /\ NetworkChanged(f) \in Sessions
         /\ SessionForgotten(f) \in Sessions
         /\ f.accounts > 0 => /\ AccountFound(f) \in Sessions
                              /\ AccountEmpty(f) \in Sessions
                              /\ AccountFailed(f) \in Sessions
         /\ f.networks > 0 => NetworkAnswered(f) \in Sessions
         /\ \A b \in BOOLEAN : LoadedPage(b) \in Sessions
<1> USE FreighterAssumption
<1>1. \A g \in Sessions : /\ [g EXCEPT !.address = TRUE] \in Sessions
                          /\ [g EXCEPT !.address = FALSE] \in Sessions
                          /\ [g EXCEPT !.stored = TRUE] \in Sessions
                          /\ [g EXCEPT !.stored = FALSE] \in Sessions
  BY DEF Sessions
<1>2. \A g \in Sessions : \A n \in 0..MaxHandlers :
        /\ [g EXCEPT !.handlers = n] \in Sessions
        /\ [g EXCEPT !.accounts = n] \in Sessions
        /\ [g EXCEPT !.networks = n] \in Sessions
  BY DEF Sessions
<1>3. /\ f.handlers \in 0..MaxHandlers /\ f.accounts \in 0..MaxHandlers
      /\ f.networks \in 0..MaxHandlers
  BY DEF Sessions
<1>4. 0 \in 0..MaxHandlers /\ \A n \in Nat : UpTo(n) \in 0..MaxHandlers
  BY DEF UpTo
<1>5. Connected(f) \in Sessions
  <2>1. [f EXCEPT !.address = TRUE] \in Sessions
    BY <1>1
  <2>2. [f EXCEPT !.address = TRUE, !.stored = TRUE] \in Sessions
    BY <1>1, <2>1
  <2>3. UpTo(f.handlers + 1) \in 0..MaxHandlers
    BY <1>3, <1>4
  <2>4. [[f EXCEPT !.address = TRUE, !.stored = TRUE] EXCEPT
            !.handlers = UpTo(f.handlers + 1)] \in Sessions
    BY <1>2, <2>2, <2>3
  <2> QED BY <2>4 DEF Connected, Sessions
<1>6. \A g \in Sessions : Disconnected(g) \in Sessions
  <2> TAKE g \in Sessions
  <2>1. [g EXCEPT !.address = FALSE] \in Sessions
    BY <1>1
  <2>2. [g EXCEPT !.address = FALSE, !.stored = FALSE] \in Sessions
    BY <1>1, <2>1
  <2>3. [[g EXCEPT !.address = FALSE, !.stored = FALSE] EXCEPT
            !.handlers = 0] \in Sessions
    BY <1>2, <1>4, <2>2
  <2> QED BY <2>3 DEF Disconnected
<1>7. AccountChanged(f) \in Sessions /\ NetworkChanged(f) \in Sessions
  <2>1. /\ UpTo(f.accounts + f.handlers) \in 0..MaxHandlers
        /\ UpTo(f.networks + f.handlers) \in 0..MaxHandlers
    BY <1>3, <1>4
  <2>2. [f EXCEPT !.accounts = UpTo(f.accounts + f.handlers)] \in Sessions
    BY <1>2, <2>1
  <2>3. [f EXCEPT !.networks = UpTo(f.networks + f.handlers)] \in Sessions
    BY <1>2, <2>1
  <2> QED BY <2>2, <2>3 DEF AccountChanged, NetworkChanged
<1>8. SessionForgotten(f) \in Sessions
  BY <1>1 DEF SessionForgotten
<1>9. f.accounts > 0 => /\ AccountFailed(f) \in Sessions
                        /\ AccountFound(f) \in Sessions
                        /\ AccountEmpty(f) \in Sessions
  <2> SUFFICES ASSUME f.accounts > 0
      PROVE  /\ AccountFailed(f) \in Sessions
             /\ AccountFound(f) \in Sessions
             /\ AccountEmpty(f) \in Sessions
    OBVIOUS
  <2>0. f.accounts - 1 \in 0..MaxHandlers
    BY <1>3
  <2>1. [f EXCEPT !.accounts = f.accounts - 1] \in Sessions
    BY <1>2, <2>0
  <2>2. [[f EXCEPT !.accounts = f.accounts - 1] EXCEPT !.address = TRUE]
          \in Sessions
    BY <1>1, <2>1
  <2> QED BY <1>6, <2>1, <2>2 DEF AccountFailed, AccountFound, AccountEmpty
<1>10. f.networks > 0 => NetworkAnswered(f) \in Sessions
  <2> SUFFICES ASSUME f.networks > 0 PROVE NetworkAnswered(f) \in Sessions
    OBVIOUS
  <2>1. f.networks - 1 \in 0..MaxHandlers
    BY <1>3
  <2>2. [f EXCEPT !.networks = f.networks - 1] \in Sessions
    BY <1>2, <2>1
  <2> QED BY <2>2 DEF NetworkAnswered
<1>11. \A b \in BOOLEAN : LoadedPage(b) \in Sessions
  BY DEF Sessions, LoadedPage
<1> QED BY <1>5, <1>6, <1>7, <1>8, <1>9, <1>10, <1>11

LEMMA RabetTypes ==
  ASSUME NEW r \in Iframes, NEW c \in Calls
  PROVE  /\ Post(r, c) \in Iframes
         /\ Post([r EXCEPT !.mode = "iframe"], c) \in Iframes
         /\ [r EXCEPT !.mode = "extension", !.key = TRUE] \in Iframes
         /\ [Cleanup(r, c) EXCEPT !.key = TRUE] \in Iframes
         /\ [Teardown(Cleanup(r, c)) EXCEPT !.mode = "none"] \in Iframes
         /\ Teardown(Cleanup(r, c)) \in Iframes
         /\ \A waited \in BOOLEAN : Left(r, waited) \in Iframes
         /\ NoIframe \in Iframes
<1>1. Post(r, c) \in Iframes /\ Post([r EXCEPT !.mode = "iframe"], c) \in Iframes
  BY DEF Iframes, Post
<1>2. [r EXCEPT !.mode = "extension", !.key = TRUE] \in Iframes
  BY DEF Iframes
<1>3. Cleanup(r, c) \in Iframes
  BY DEF Iframes, Cleanup
<1>4. [Cleanup(r, c) EXCEPT !.key = TRUE] \in Iframes
  BY <1>3 DEF Iframes
<1>5. \A q \in Iframes : Teardown(q) \in Iframes
  BY DEF Iframes, Teardown
<1>6. Teardown(Cleanup(r, c)) \in Iframes
  BY <1>3, <1>5
<1>7. [Teardown(Cleanup(r, c)) EXCEPT !.mode = "none"] \in Iframes
  BY <1>6 DEF Iframes
<1>8. ASSUME NEW waited \in BOOLEAN
      PROVE  (IF r.mode = "iframe" /\ ~waited THEN Teardown(r) ELSE r) \in Iframes
  BY <1>5
<1>9. \A waited \in BOOLEAN : Left(r, waited) \in Iframes
  BY <1>8 DEF Iframes, Left
<1>10. NoIframe \in Iframes
  BY DEF Iframes, NoIframe
<1> QED BY <1>1, <1>2, <1>4, <1>6, <1>7, <1>9, <1>10

LEMMA LedgerTypes ==
  ASSUME NEW d \in Devices
  PROVE  /\ d.opened < MaxTransports => Opened(d) \in Devices
         /\ \A t \in 0..MaxTransports : /\ Loaded(d, t) \in Devices
                                        /\ DeviceGone(d, t) \in Devices
                                        /\ Forgotten(d, t) \in Devices
         /\ [d EXCEPT !.key = TRUE] \in Devices
         /\ NoDevice \in Devices
<1> USE LedgerAssumption DEF NoTransport, Transports
<1>1. \A g \in Devices : \A t \in 0..MaxTransports :
        /\ [g EXCEPT !.transport = t] \in Devices
        /\ [g EXCEPT !.app = t] \in Devices
        /\ [g EXCEPT !.opened = t] \in Devices
  BY DEF Devices
<1>2. \A g \in Devices : \A s \in SUBSET Transports :
        [g EXCEPT !.open = s] \in Devices
  BY DEF Devices
<1>3. \A g \in Devices : /\ [g EXCEPT !.key = TRUE] \in Devices
                         /\ [g EXCEPT !.key = FALSE] \in Devices
  BY DEF Devices
<1>4. d.open \in SUBSET Transports /\ d.opened \in 0..MaxTransports
  BY DEF Devices
<1>5. d.opened < MaxTransports => Opened(d) \in Devices
  <2> SUFFICES ASSUME d.opened < MaxTransports PROVE Opened(d) \in Devices
    OBVIOUS
  <2> DEFINE n == d.opened + 1
  <2>1. n \in 0..MaxTransports /\ d.open \cup {n} \in SUBSET Transports
    BY <1>4
  <2>2. [d EXCEPT !.opened = n] \in Devices
    BY <1>1, <2>1
  <2>3. [d EXCEPT !.opened = n, !.transport = n] \in Devices
    BY <1>1, <2>1, <2>2
  <2>4. [[d EXCEPT !.opened = n, !.transport = n] EXCEPT
            !.open = d.open \cup {n}] \in Devices
    BY <1>2, <2>1, <2>3
  <2> QED BY <2>4 DEF Opened, Devices
<1>6. \A t \in 0..MaxTransports : Loaded(d, t) \in Devices
  BY <1>1 DEF Loaded
<1>7. [d EXCEPT !.transport = 0, !.app = 0] \in Devices
  <2>0. 0 \in 0..MaxTransports
    OBVIOUS
  <2>1. [d EXCEPT !.transport = 0] \in Devices
    BY <1>1, <2>0
  <2> QED BY <1>1, <2>0, <2>1
<1>8. \A t \in 0..MaxTransports : DeviceGone(d, t) \in Devices
  <2> TAKE t \in 0..MaxTransports
  <2>1. d.open \ {t} \in SUBSET Transports
    BY <1>4
  <2>2. [[d EXCEPT !.transport = 0, !.app = 0] EXCEPT
            !.open = d.open \ {t}] \in Devices
    BY <1>2, <1>7, <2>1
  <2> QED BY <2>2 DEF DeviceGone, Devices
<1>9. \A t \in 0..MaxTransports : Forgotten(d, t) \in Devices
  <2> TAKE t \in 0..MaxTransports
  <2>1. d.open \ {t} \in SUBSET Transports
    BY <1>4
  <2>2. [d EXCEPT !.transport = 0, !.app = 0, !.key = FALSE] \in Devices
    BY <1>3, <1>7
  <2>3. [[d EXCEPT !.transport = 0, !.app = 0, !.key = FALSE] EXCEPT
            !.open = d.open \ {t}] \in Devices
    BY <1>2, <2>1, <2>2
  <2> QED BY <2>3 DEF Forgotten, Devices
<1>10. NoDevice \in Devices
  BY DEF NoDevice, Devices
<1> QED BY <1>3, <1>5, <1>6, <1>8, <1>9, <1>10
-----------------------------------------------------------------------------
(* How calls end.                                                          *)

LEMMA NoCallYetTypes ==
  NoCallYet \in CallRecords /\ Sensible(NoCallYet) /\ ~Busy(NoCallYet)
BY LedgerAssumption
   DEF NoCallYet, CallRecords, Sensible, Busy, Wallets, NoTransport

LEMMA EndedCall ==
  ASSUME calls \in [Calls -> CallRecords], CallsMakeSense, NEW c \in Calls,
         Ends(c)
  PROVE  \E r \in CallRecords : /\ calls' = [calls EXCEPT ![c] = r]
                                /\ Sensible(r) /\ ~Busy(r)
<1> DEFINE r == IF calls[c].cleaning THEN [calls[c] EXCEPT !.stage = "none"]
                ELSE NoCallYet
<1>1. calls' = [calls EXCEPT ![c] = r]
  BY DEF Ends
<1>2. r \in CallRecords
  BY NoCallYetTypes DEF CallRecords
<1>3. Sensible(r) /\ ~Busy(r)
  <2>1. CASE calls[c].cleaning
    <3>1. calls[c] \in CallRecords /\ Sensible(calls[c])
      BY DEF CallsMakeSense
    <3>2. r.phase = calls[c].phase /\ r.kind = calls[c].kind
          /\ r.stage = "none" /\ r.cleaning = calls[c].cleaning
      BY <2>1, <3>1 DEF CallRecords
    <3>3. calls[c].phase = "timedout"
      BY <2>1, <3>1 DEF Sensible
    <3> QED BY <3>1, <3>2, <3>3 DEF Sensible, Busy
  <2>2. CASE ~calls[c].cleaning
    BY <2>2, NoCallYetTypes
  <2> QED BY <2>1, <2>2
<1> QED BY <1>1, <1>2, <1>3

\* An answer without effect on the manager.
LEMMA EndsQuietly ==
  ASSUME IInv, NEW c \in Calls, Ends(c), UNCHANGED <<active, relays, overlapped>>
  PROVE  calls' \in [Calls -> CallRecords] /\ CallsMakeSense' /\ Serial'
<1>1. calls \in [Calls -> CallRecords] /\ CallsMakeSense /\ Serial
  BY DEF IInv, TypeOK
<1>2. PICK r \in CallRecords : /\ calls' = [calls EXCEPT ![c] = r]
                               /\ Sensible(r) /\ ~Busy(r)
  BY <1>1, EndedCall
<1>3. calls' \in [Calls -> CallRecords] /\ CallsMakeSense'
  BY <1>1, <1>2, OneCall
<1>4. Serial'
  BY <1>1, <1>2, SerialKept
<1> QED BY <1>3, <1>4

\* An answer of an adapter's connect.
LEMMA Answered ==
  ASSUME IInv, NEW c \in Calls, Resolve(c) \/ Reject(c), UNCHANGED overlapped,
         calls[c].kind = "connect", calls[c].stage # "none"
  PROVE  /\ calls' \in [Calls -> CallRecords] /\ CallsMakeSense' /\ Serial'
         /\ active' \in Wallets \cup {NoWallet} /\ relays' \in Seq({"freighter"})
<1>1. /\ calls \in [Calls -> CallRecords] /\ CallsMakeSense /\ Serial
      /\ active \in Wallets \cup {NoWallet} /\ relays \in Seq({"freighter"})
  BY DEF IInv, TypeOK
<1>2. Ends(c)
  BY DEF Resolve, Reject
<1>3. PICK r \in CallRecords : /\ calls' = [calls EXCEPT ![c] = r]
                               /\ Sensible(r) /\ ~Busy(r)
  BY <1>1, <1>2, EndedCall
<1>4. calls' \in [Calls -> CallRecords] /\ CallsMakeSense'
  BY <1>1, <1>3, OneCall
<1>5. CASE UNCHANGED <<active, relays>>
  <2>1. Serial'
    BY <1>1, <1>3, <1>5, SerialKept
  <2> QED BY <1>1, <1>4, <1>5, <2>1
<1>6. CASE /\ ~Settled(c)
           /\ active' = calls[c].wallet
           /\ relays' = IF calls[c].wallet = "freighter"
                        THEN Append(relays, "freighter") ELSE relays
  <2>1. calls[c] \in CallRecords /\ Sensible(calls[c])
    BY <1>1 DEF CallsMakeSense
  <2>2. Busy(calls[c])
    BY <1>6, <2>1 DEF Settled, Sensible, Busy, CallRecords
  <2>3. calls[c].wallet \in Wallets
    BY <2>1 DEF CallRecords
  <2>4. ~overlapped => relays = <<>>
    BY <1>1, <2>2 DEF Serial
  <2>5. ~overlapped => relays' = <<>> \/ relays' = <<active'>>
    BY <1>6, <2>4
  <2>6. Serial'
    BY <1>1, <1>3, <2>2, <2>5, SerialEnds
  <2>7. relays' \in Seq({"freighter"})
    BY <1>1, <1>6
  <2> QED BY <1>4, <1>6, <2>3, <2>6, <2>7
<1> QED BY <1>5, <1>6 DEF Resolve, Reject

\* The phase and the kind of a call stay.
LEMMA StageMoves ==
  ASSUME IInv, NEW c \in Calls, NEW r \in CallRecords,
         calls' = [calls EXCEPT ![c] = r],
         r.phase = calls[c].phase, r.kind = calls[c].kind,
         r.cleaning = calls[c].cleaning, calls[c].stage # "none",
         UNCHANGED <<active, relays, overlapped>>
  PROVE  calls' \in [Calls -> CallRecords] /\ CallsMakeSense' /\ Serial'
<1>1. calls \in [Calls -> CallRecords] /\ CallsMakeSense /\ Serial
  BY DEF IInv, TypeOK
<1>2. Sensible(calls[c])
  BY <1>1 DEF CallsMakeSense
<1>3. Sensible(r)
  BY <1>2 DEF Sensible
<1>4. calls' \in [Calls -> CallRecords] /\ CallsMakeSense'
  BY <1>1, <1>3, OneCall
<1>5. Serial'
  BY <1>1, SerialKept DEF Busy
<1> QED BY <1>4, <1>5

\* A new call.
LEMMA CallTypes ==
  ASSUME TypeOK,
         NEW kind \in {"connect", "disconnect", "sign", "restore"},
         NEW w \in Wallets, NEW timed \in BOOLEAN,
         NEW stage \in {"none", "allowed", "asking", "network", "request",
                        "opening", "loading", "closing"},
         NEW held \in 0..MaxTransports
  PROVE  /\ Call(kind, w, timed, stage, held) \in CallRecords
         /\ Sensible(Call(kind, w, timed, stage, held))
         /\ Busy(Call(kind, w, timed, stage, held))
              => kind \in {"connect", "disconnect"}
<1>1. Remembered(w) \in 0..MaxTransports
  BY LedgerAssumption DEF TypeOK, Devices, Remembered, NoTransport
<1>2. (IF kind = "disconnect" THEN Remembered(w) ELSE NoTransport)
        \in 0..MaxTransports
  BY <1>1, LedgerAssumption DEF NoTransport
<1>3. Call(kind, w, timed, stage, held) \in CallRecords
  BY <1>2 DEF Call, CallRecords
<1> QED BY <1>3 DEF Call, Sensible, Busy

LEMMA LedgerStart ==
  ASSUME TypeOK
  PROVE  /\ LedgerStage \in {"asking", "loading", "opening"}
         /\ LedgerHandle \in 0..MaxTransports
         /\ NoTransport \in 0..MaxTransports
BY LedgerAssumption DEF TypeOK, Devices, LedgerStage, LedgerHandle, NoTransport

LEMMA Leaving ==
  ASSUME TypeOK, NEW w, NEW t \in 0..MaxTransports,
         NEW waited \in BOOLEAN, AdapterLeaves(w, t, waited)
  PROVE  /\ freighter' \in Sessions /\ rabet' \in Iframes
         /\ ledger' \in Devices /\ keys' \in [Simple -> BOOLEAN]
<1>1. freighter \in Sessions /\ rabet \in Iframes /\ ledger \in Devices
      /\ keys \in [Simple -> BOOLEAN]
  BY DEF TypeOK
<1>2. freighter' \in Sessions
  BY <1>1, FreighterTypes DEF AdapterLeaves
<1>3. rabet' \in Iframes
  <2>1. Left(rabet, waited) \in Iframes
    <3>1. \A q \in Iframes : Teardown(q) \in Iframes
      BY DEF Iframes, Teardown
    <3>2. (IF rabet.mode = "iframe" /\ ~waited THEN Teardown(rabet) ELSE rabet)
             \in Iframes
      BY <1>1, <3>1
    <3> QED BY <3>2 DEF Iframes, Left
  <2> QED BY <1>1, <2>1 DEF AdapterLeaves
<1>4. ledger' \in Devices
  BY <1>1, LedgerTypes DEF AdapterLeaves
<1>5. keys' \in [Simple -> BOOLEAN]
  BY <1>1 DEF AdapterLeaves
<1> QED BY <1>2, <1>3, <1>4, <1>5
-----------------------------------------------------------------------------
(* The steps.                                                              *)

Statuses == {"none", "connecting", "connected", "disconnected", "error"}

LEMMA Init_IInv == Init => IInv
<1> SUFFICES ASSUME Init PROVE IInv
  OBVIOUS
<1>1. freighter \in Sessions
  <2>1. \A b \in BOOLEAN : LoadedPage(b) \in Sessions
    BY FreighterAssumption DEF Sessions, LoadedPage
  <2> QED BY <2>1 DEF Init
<1>2. rabet \in Iframes /\ ledger \in Devices
  BY LedgerAssumption
     DEF Init, NoIframe, NoDevice, Iframes, Devices, NoTransport, Transports
<1>3. calls \in [Calls -> CallRecords]
  BY NoCallYetTypes DEF Init
<1>4. \A c \in Calls : calls[c] = NoCallYet
  BY DEF Init
<1>8. relays \in Seq({"freighter"}) /\ active \in Wallets \cup {NoWallet}
  BY DEF Init
<1>9. keys \in [Simple -> BOOLEAN] /\ overlapped \in BOOLEAN
  BY DEF Init
<1>10. begun \in 0..MaxBegun /\ events \in 0..MaxEvents
  BY WalletAssumption DEF Init
<1>11. status \in Statuses
  BY DEF Init, Statuses
<1>5. TypeOK
  BY <1>1, <1>2, <1>3, <1>8, <1>9, <1>10, <1>11 DEF TypeOK, Statuses
<1>6. CallsMakeSense
  BY <1>4, NoCallYetTypes DEF CallsMakeSense
<1>7. Serial
  BY <1>4, NoCallYetTypes DEF Serial, Init
<1> QED BY <1>5, <1>6, <1>7 DEF IInv

\* The counters of every step that is not a page load or an event.
LEMMA BegunTypes ==
  ASSUME TypeOK
  PROVE  /\ \A c \in Calls : Begin(c) => begun' \in 0..MaxBegun
         /\ Event => events' \in 0..MaxEvents
         /\ UNCHANGED begun => begun' \in 0..MaxBegun
         /\ UNCHANGED events => events' \in 0..MaxEvents
BY WalletAssumption DEF TypeOK, Begin, Event

LEMMA StepConnect ==
  ASSUME IInv, NEW c \in Calls, NEW w \in Registered, NEW timed \in BOOLEAN,
         Connect(c, w, timed)
  PROVE  IInv'
<1>1. TypeOK /\ CallsMakeSense /\ Serial
  BY DEF IInv
<1>2. w \in Wallets
  BY WalletAssumption
<1>3. PICK r \in CallRecords : calls' = [calls EXCEPT ![c] = r] /\ Sensible(r)
  BY <1>1, <1>2, CallTypes, LedgerStart DEF Connect
<1>4. calls' \in [Calls -> CallRecords] /\ CallsMakeSense'
  BY <1>1, <1>3, OneCall DEF TypeOK
<1>5. Serial'
  BY <1>1, <1>3, SerialBegins DEF Connect, Detached, TypeOK
<1>6. rabet' \in Iframes
  BY <1>1, RabetTypes DEF Connect, TypeOK
<1>7. begun' \in 0..MaxBegun /\ overlapped' \in BOOLEAN
  BY <1>1, BegunTypes DEF Connect, BeginInManager, TypeOK
<1>8. /\ active' \in Wallets \cup {NoWallet} /\ relays' \in Seq({"freighter"})
      /\ status' \in Statuses
  BY <1>1 DEF Connect, Detached, TypeOK, Statuses
<1>9. /\ freighter' \in Sessions /\ ledger' \in Devices
      /\ keys' \in [Simple -> BOOLEAN] /\ events' \in 0..MaxEvents
  BY <1>1 DEF Connect, TypeOK
<1> QED BY <1>4, <1>5, <1>6, <1>7, <1>8, <1>9 DEF IInv, TypeOK, Statuses

LEMMA StepFreighterAnswers ==
  ASSUME IInv, NEW c \in Calls, FreighterAnswers(c)
  PROVE  IInv'
<1>1. TypeOK
  BY DEF IInv
<1>2. Resolve(c) \/ Reject(c)
  BY DEF FreighterAnswers
<1>3. calls[c].kind = "connect" /\ calls[c].stage # "none"
      /\ UNCHANGED overlapped
  BY DEF FreighterAnswers, Connecting
<1>4. /\ calls' \in [Calls -> CallRecords] /\ CallsMakeSense' /\ Serial'
      /\ active' \in Wallets \cup {NoWallet} /\ relays' \in Seq({"freighter"})
  BY <1>2, <1>3, Answered
<1>5. freighter' \in Sessions
  BY <1>1, FreighterTypes DEF FreighterAnswers, TypeOK
<1>6. status' \in Statuses
  BY <1>1 DEF FreighterAnswers, FreighterEmitted, Relayed, TypeOK, Statuses
<1>7. /\ rabet' \in Iframes /\ ledger' \in Devices
      /\ keys' \in [Simple -> BOOLEAN] /\ overlapped' \in BOOLEAN
      /\ begun' \in 0..MaxBegun /\ events' \in 0..MaxEvents
  BY <1>1 DEF FreighterAnswers, TypeOK
<1> QED BY <1>4, <1>5, <1>6, <1>7 DEF IInv, TypeOK, Statuses

LEMMA StepSimpleAnswers ==
  ASSUME IInv, NEW c \in Calls, SimpleAnswers(c)
  PROVE  IInv'
<1>1. TypeOK
  BY DEF IInv
<1>2. keys' \in [Simple -> BOOLEAN]
  BY <1>1 DEF SimpleAnswers, KeyKept, AlbedoAnswers, TypeOK
<1>3. /\ freighter' \in Sessions /\ rabet' \in Iframes /\ ledger' \in Devices
      /\ overlapped' \in BOOLEAN
      /\ begun' \in 0..MaxBegun /\ events' \in 0..MaxEvents
      /\ UNCHANGED overlapped
  BY <1>1 DEF SimpleAnswers, KeyKept, AlbedoAnswers, TypeOK
<1>4. CASE /\ calls[c].stage = "asking"
           /\ calls' = [calls EXCEPT ![c].stage = "network"]
           /\ UNCHANGED managerVars
  <2> DEFINE r == [calls[c] EXCEPT !.stage = "network"]
  <2>1. calls[c] \in CallRecords
    BY <1>1 DEF TypeOK
  <2>2. r \in CallRecords /\ r.phase = calls[c].phase
        /\ r.kind = calls[c].kind /\ r.cleaning = calls[c].cleaning
    BY <2>1 DEF CallRecords
  <2>3. calls' = [calls EXCEPT ![c] = r]
    BY <1>4
  <2>4. calls[c].stage # "none" /\ UNCHANGED <<active, relays, overlapped>>
    BY <1>3, <1>4 DEF managerVars
  <2>5. calls' \in [Calls -> CallRecords] /\ CallsMakeSense' /\ Serial'
    BY <2>2, <2>3, <2>4, StageMoves
  <2>6. /\ active' \in Wallets \cup {NoWallet}
        /\ relays' \in Seq({"freighter"}) /\ status' \in Statuses
    BY <1>1, <1>4 DEF managerVars, TypeOK, Statuses
  <2> QED BY <1>2, <1>3, <2>5, <2>6 DEF IInv, TypeOK, Statuses
<1>5. CASE /\ calls[c].stage # "none"
           /\ Resolve(c) \/ Reject(c)
           /\ Emitted(c, "connected") \/ Emitted(c, "error")
  <2>1. calls[c].kind = "connect"
    BY DEF SimpleAnswers, KeyKept, AlbedoAnswers
  <2>2. /\ calls' \in [Calls -> CallRecords] /\ CallsMakeSense' /\ Serial'
        /\ active' \in Wallets \cup {NoWallet} /\ relays' \in Seq({"freighter"})
    BY <1>3, <1>5, <2>1, Answered
  <2>3. status' \in Statuses
    BY <1>1, <1>5 DEF Emitted, TypeOK, Statuses
  <2> QED BY <1>2, <1>3, <2>2, <2>3 DEF IInv, TypeOK, Statuses
<1> QED BY <1>4, <1>5 DEF SimpleAnswers, KeyKept, AlbedoAnswers

LEMMA StepRabetExtensionAnswers ==
  ASSUME IInv, NEW c \in Calls, RabetExtensionAnswers(c)
  PROVE  IInv'
<1>1. TypeOK
  BY DEF IInv
<1>2. Resolve(c) \/ Reject(c)
  BY DEF RabetExtensionAnswers
<1>3. calls[c].kind = "connect" /\ calls[c].stage # "none"
      /\ UNCHANGED overlapped
  BY DEF RabetExtensionAnswers, Connecting
<1>4. /\ calls' \in [Calls -> CallRecords] /\ CallsMakeSense' /\ Serial'
      /\ active' \in Wallets \cup {NoWallet} /\ relays' \in Seq({"freighter"})
  BY <1>2, <1>3, Answered
<1>5. rabet' \in Iframes
  BY <1>1, RabetTypes DEF RabetExtensionAnswers, TypeOK
<1>6. status' \in Statuses
  BY <1>1 DEF RabetExtensionAnswers, Emitted, TypeOK, Statuses
<1>7. /\ freighter' \in Sessions /\ ledger' \in Devices
      /\ keys' \in [Simple -> BOOLEAN] /\ overlapped' \in BOOLEAN
      /\ begun' \in 0..MaxBegun /\ events' \in 0..MaxEvents
  BY <1>1 DEF RabetExtensionAnswers, TypeOK
<1> QED BY <1>4, <1>5, <1>6, <1>7 DEF IInv, TypeOK, Statuses

LEMMA StepLedgerAnswers ==
  ASSUME IInv, NEW c \in Calls, LedgerAnswers(c)
  PROVE  IInv'
<1>1. TypeOK
  BY DEF IInv
<1>2. Resolve(c) \/ Reject(c)
  BY DEF LedgerAnswers
<1>3. calls[c].kind = "connect" /\ calls[c].stage # "none"
      /\ UNCHANGED overlapped
  BY DEF LedgerAnswers, Connecting
<1>4. /\ calls' \in [Calls -> CallRecords] /\ CallsMakeSense' /\ Serial'
      /\ active' \in Wallets \cup {NoWallet} /\ relays' \in Seq({"freighter"})
  BY <1>2, <1>3, Answered
<1>5. ledger' \in Devices
  BY <1>1, LedgerTypes DEF LedgerAnswers, TypeOK
<1>6. status' \in Statuses
  BY <1>1 DEF LedgerAnswers, Emitted, TypeOK, Statuses
<1>7. /\ freighter' \in Sessions /\ rabet' \in Iframes
      /\ keys' \in [Simple -> BOOLEAN] /\ overlapped' \in BOOLEAN
      /\ begun' \in 0..MaxBegun /\ events' \in 0..MaxEvents
  BY <1>1 DEF LedgerAnswers, TypeOK
<1> QED BY <1>4, <1>5, <1>6, <1>7 DEF IInv, TypeOK, Statuses
LEMMA StepLedgerOpens ==
  ASSUME IInv, NEW c \in Calls, LedgerOpens(c)
  PROVE  IInv'
<1>1. TypeOK
  BY DEF IInv
<1>2. /\ freighter' \in Sessions /\ rabet' \in Iframes
      /\ keys' \in [Simple -> BOOLEAN] /\ overlapped' \in BOOLEAN
      /\ begun' \in 0..MaxBegun /\ events' \in 0..MaxEvents
      /\ UNCHANGED <<active, relays, overlapped>>
  BY <1>1 DEF LedgerOpens, Reject, managerVars, TypeOK
<1>3. ledger' \in Devices
  BY <1>1, LedgerTypes DEF LedgerOpens, TypeOK
<1>4. status' \in Statuses
  BY <1>1 DEF LedgerOpens, Emitted, managerVars, TypeOK, Statuses
<1>5. calls' \in [Calls -> CallRecords] /\ CallsMakeSense' /\ Serial'
  <2>1. CASE Reject(c)
    BY <1>2, <2>1, EndsQuietly DEF Reject
  <2>2. CASE /\ ledger.opened < MaxTransports
             /\ calls' = [calls EXCEPT ![c].stage = "loading",
                                       ![c].held = ledger.opened + 1]
    <3> DEFINE r == [calls[c] EXCEPT !.stage = "loading",
                                     !.held = ledger.opened + 1]
    <3>1. calls[c] \in CallRecords /\ ledger.opened + 1 \in 0..MaxTransports
      BY <1>1, <2>2, LedgerAssumption DEF TypeOK, Devices
    <3>2. r \in CallRecords /\ r.phase = calls[c].phase
          /\ r.kind = calls[c].kind /\ r.cleaning = calls[c].cleaning
      BY <3>1 DEF CallRecords
    <3>3. calls' = [calls EXCEPT ![c] = r]
      BY <1>1, <2>2 DEF TypeOK
    <3>4. calls[c].stage # "none"
      BY DEF LedgerOpens
    <3> QED BY <1>2, <3>2, <3>3, <3>4, StageMoves
  <2> QED BY <2>1, <2>2 DEF LedgerOpens
<1> QED BY <1>1, <1>2, <1>3, <1>4, <1>5 DEF IInv, TypeOK, Statuses

LEMMA StepLedgerLoads ==
  ASSUME IInv, NEW c \in Calls, LedgerLoads(c)
  PROVE  IInv'
<1>1. TypeOK
  BY DEF IInv
<1>2. calls[c] \in CallRecords /\ calls[c].held \in 0..MaxTransports
  BY <1>1 DEF TypeOK, CallRecords
<1>3. ledger' \in Devices
  BY <1>1, <1>2, LedgerTypes DEF LedgerLoads, TypeOK
<1> DEFINE r == [calls[c] EXCEPT !.stage = "asking"]
<1>4. r \in CallRecords /\ r.phase = calls[c].phase
      /\ r.kind = calls[c].kind /\ r.cleaning = calls[c].cleaning
  BY <1>2 DEF CallRecords
<1>5. calls' = [calls EXCEPT ![c] = r] /\ calls[c].stage # "none"
      /\ UNCHANGED <<active, relays, overlapped>>
  BY DEF LedgerLoads, managerVars
<1>6. calls' \in [Calls -> CallRecords] /\ CallsMakeSense' /\ Serial'
  BY <1>4, <1>5, StageMoves
<1>7. /\ freighter' \in Sessions /\ rabet' \in Iframes
      /\ keys' \in [Simple -> BOOLEAN] /\ overlapped' \in BOOLEAN
      /\ begun' \in 0..MaxBegun /\ events' \in 0..MaxEvents
      /\ status' \in Statuses /\ active' \in Wallets \cup {NoWallet}
      /\ relays' \in Seq({"freighter"})
  BY <1>1 DEF LedgerLoads, managerVars, TypeOK, Statuses
<1> QED BY <1>3, <1>6, <1>7 DEF IInv, TypeOK, Statuses

LEMMA Left_Manager ==
  ASSUME Leave
  PROVE  /\ relays' = <<>> /\ relays' \in Seq({"freighter"})
         /\ active' \in Wallets \cup {NoWallet} /\ status' \in Statuses
BY DEF Leave, Detached, Statuses

LEMMA StepDisconnect ==
  ASSUME IInv, NEW c \in Calls, Disconnect(c)
  PROVE  IInv'
<1>1. TypeOK /\ CallsMakeSense /\ Serial
  BY DEF IInv
<1>2. active \in Wallets
  BY <1>1 DEF Disconnect, TypeOK
<1>3. /\ begun' \in 0..MaxBegun /\ events' \in 0..MaxEvents
      /\ overlapped' \in BOOLEAN
  BY <1>1, BegunTypes DEF Disconnect, BeginInManager, TypeOK
<1>4. CASE /\ calls' = [calls EXCEPT ![c] =
                Call("disconnect", active, FALSE, "closing", NoTransport)]
           /\ UNCHANGED <<managerVars, adapterVars>>
  <2> DEFINE r == Call("disconnect", active, FALSE, "closing", NoTransport)
  <2>1. r \in CallRecords /\ Sensible(r)
    BY <1>1, <1>2, CallTypes, LedgerStart
  <2>2. r.kind = "disconnect"
    BY DEF Call
  <2>3. calls \in [Calls -> CallRecords] /\ calls' = [calls EXCEPT ![c] = r]
    BY <1>1, <1>4 DEF TypeOK
  <2>4. calls' \in [Calls -> CallRecords] /\ CallsMakeSense'
    BY <1>1, <2>1, <2>3, OneCall
  <2>5. Serial'
    <3>1. \A d \in Calls : calls'[d] = IF d = c THEN r ELSE calls[d]
      BY <2>3
    <3>2. UNCHANGED <<active, relays>>
      BY <1>4 DEF managerVars
    <3> SUFFICES ASSUME ~overlapped'
        PROVE  /\ \A b, d \in Calls :
                    Busy(calls'[b]) /\ Busy(calls'[d]) => b = d
               /\ \A d \in Calls :
                    Busy(calls'[d]) /\ calls'[d].kind = "connect"
                      => relays' = <<>>
               /\ relays' = <<>> \/ relays' = <<active'>>
      BY DEF Serial, Busy
    <3>3. ~overlapped /\ \A d \in Calls : ~Busy(calls[d])
      BY DEF Disconnect, BeginInManager, UnderWay, Busy
    <3>4. \A d \in Calls : Busy(calls'[d]) => d = c
      BY <3>1, <3>3
    <3>5. calls'[c].kind = "disconnect"
      BY <2>2, <3>1
    <3>6. relays = <<>> \/ relays = <<active>>
      BY <1>1, <3>3 DEF Serial
    <3> QED BY <3>2, <3>4, <3>5, <3>6
  <2>6. /\ freighter' \in Sessions /\ rabet' \in Iframes
        /\ ledger' \in Devices /\ keys' \in [Simple -> BOOLEAN]
        /\ status' \in Statuses /\ active' \in Wallets \cup {NoWallet}
        /\ relays' \in Seq({"freighter"})
    BY <1>1, <1>4 DEF managerVars, adapterVars, TypeOK, Statuses
  <2> QED BY <1>3, <2>4, <2>5, <2>6 DEF IInv, TypeOK, Statuses
<1>5. CASE AdapterLeaves(active, NoTransport, FALSE) /\ Leave /\ UNCHANGED calls
  <2>1. /\ freighter' \in Sessions /\ rabet' \in Iframes
        /\ ledger' \in Devices /\ keys' \in [Simple -> BOOLEAN]
    BY <1>1, <1>5, LedgerStart, Leaving
  <2>2. calls' \in [Calls -> CallRecords] /\ CallsMakeSense'
    BY <1>1, <1>5 DEF TypeOK, CallsMakeSense, Sensible
  <2>3. Serial'
    <3> SUFFICES ASSUME ~overlapped'
        PROVE  /\ \A b, d \in Calls :
                    Busy(calls'[b]) /\ Busy(calls'[d]) => b = d
               /\ \A d \in Calls :
                    Busy(calls'[d]) /\ calls'[d].kind = "connect"
                      => relays' = <<>>
               /\ relays' = <<>> \/ relays' = <<active'>>
      BY DEF Serial, Busy
    <3>1. \A d \in Calls : ~Busy(calls'[d])
      BY <1>5 DEF Disconnect, BeginInManager, UnderWay, Busy
    <3> QED BY <1>5, <3>1, Left_Manager
  <2> QED BY <1>3, <1>5, <2>1, <2>2, <2>3, Left_Manager
          DEF IInv, TypeOK, Statuses
<1> QED BY <1>4, <1>5 DEF Disconnect

LEMMA StepDisconnects ==
  ASSUME IInv, NEW c \in Calls, Disconnects(c)
  PROVE  IInv'
<1>1. TypeOK /\ CallsMakeSense /\ Serial
  BY DEF IInv
<1>2. calls[c] \in CallRecords /\ Sensible(calls[c])
  BY <1>1 DEF TypeOK, CallsMakeSense
<1>3. Busy(calls[c])
  <2>1. calls[c].kind = "disconnect" /\ calls[c].stage = "closing"
    BY DEF Disconnects
  <2>2. calls[c].phase \in {"idle", "pending", "timedout"}
    BY <1>2 DEF CallRecords
  <2> QED BY <1>2, <2>1, <2>2 DEF Sensible, Busy
<1>4. PICK r \in CallRecords : /\ calls' = [calls EXCEPT ![c] = r]
                               /\ Sensible(r) /\ ~Busy(r)
  BY <1>1, EndedCall DEF Disconnects, TypeOK
<1>5. calls' \in [Calls -> CallRecords] /\ CallsMakeSense'
  BY <1>1, <1>4, OneCall DEF TypeOK
<1>6. Serial'
  BY <1>1, <1>3, <1>4, SerialEnds, Left_Manager DEF Disconnects, TypeOK
<1>7. /\ freighter' \in Sessions /\ rabet' \in Iframes
      /\ ledger' \in Devices /\ keys' \in [Simple -> BOOLEAN]
  <2>1. calls[c].closes \in 0..MaxTransports
    BY <1>2 DEF CallRecords
  <2> QED BY <1>1, <2>1, Leaving DEF Disconnects
<1>8. /\ begun' \in 0..MaxBegun /\ events' \in 0..MaxEvents
      /\ overlapped' \in BOOLEAN
  BY <1>1 DEF Disconnects, TypeOK
<1>9. /\ relays' \in Seq({"freighter"}) /\ status' \in Statuses
      /\ active' \in Wallets \cup {NoWallet}
  BY Left_Manager DEF Disconnects
<1> QED BY <1>5, <1>6, <1>7, <1>8, <1>9 DEF IInv, TypeOK, Statuses
LEMMA StepTimeout ==
  ASSUME IInv, NEW c \in Calls, ConnectTimesOut(c)
  PROVE  IInv'
<1>1. TypeOK /\ CallsMakeSense /\ Serial
  BY DEF IInv
<1>2. calls[c] \in CallRecords /\ Sensible(calls[c])
  BY <1>1 DEF TypeOK, CallsMakeSense
<1>3. calls[c].kind = "connect" /\ calls[c].phase = "pending"
  BY DEF ConnectTimesOut
<1>4. UNCHANGED <<active, relays, overlapped, begun, events>>
      /\ status' \in Statuses
  BY DEF ConnectTimesOut, Statuses
<1>5. PICK r \in CallRecords : /\ calls' = [calls EXCEPT ![c] = r]
                               /\ Sensible(r) /\ ~Busy(r)
  <2>1. CASE calls' = [calls EXCEPT ![c].phase = "timedout",
                                    ![c].cleaning = TRUE,
                                    ![c].closes = Remembered(calls[c].wallet)]
    <3> DEFINE r == [calls[c] EXCEPT !.phase = "timedout", !.cleaning = TRUE,
                                     !.closes = Remembered(calls[c].wallet)]
    <3>1. Remembered(calls[c].wallet) \in 0..MaxTransports
      BY <1>1, LedgerAssumption DEF TypeOK, Devices, Remembered, NoTransport
    <3>2. [calls[c] EXCEPT !.phase = "timedout"] \in CallRecords
      BY <1>2 DEF CallRecords
    <3>3. [calls[c] EXCEPT !.phase = "timedout", !.cleaning = TRUE]
            \in CallRecords
      BY <3>2 DEF CallRecords
    <3>4. r \in CallRecords
      BY <3>1, <3>3 DEF CallRecords
    <3>5. r.phase = "timedout" /\ r.kind = "connect"
      BY <1>2, <1>3 DEF CallRecords
    <3>6. calls' = [calls EXCEPT ![c] = r]
      BY <1>1, <2>1 DEF TypeOK
    <3> QED BY <3>4, <3>5, <3>6 DEF Sensible, Busy
  <2>2. CASE calls' = [calls EXCEPT ![c].phase = "timedout"]
    <3> DEFINE r == [calls[c] EXCEPT !.phase = "timedout"]
    <3>1. r \in CallRecords /\ r.phase = "timedout" /\ r.kind = "connect"
      BY <1>2, <1>3 DEF CallRecords
    <3>2. calls' = [calls EXCEPT ![c] = r]
      BY <2>2
    <3> QED BY <3>1, <3>2 DEF Sensible, Busy
  <2> QED BY <2>1, <2>2 DEF ConnectTimesOut
<1>6. calls' \in [Calls -> CallRecords] /\ CallsMakeSense'
  BY <1>1, <1>5, OneCall DEF TypeOK
<1>7. Serial'
  BY <1>1, <1>4, <1>5, SerialKept DEF TypeOK
<1>8. /\ freighter' \in Sessions /\ rabet' \in Iframes
      /\ ledger' \in Devices /\ keys' \in [Simple -> BOOLEAN]
  <2>1. CASE UNCHANGED adapterVars
    BY <1>1, <2>1 DEF adapterVars, TypeOK
  <2>2. CASE AdapterLeaves(calls[c].wallet, NoTransport, FALSE)
    BY <1>1, <2>2, LedgerStart, Leaving
  <2> QED BY <2>1, <2>2 DEF ConnectTimesOut
<1> QED BY <1>1, <1>4, <1>6, <1>7, <1>8 DEF IInv, TypeOK, Statuses

LEMMA StepCleaned ==
  ASSUME IInv, NEW c \in Calls, Cleaned(c)
  PROVE  IInv'
<1>1. TypeOK /\ CallsMakeSense /\ Serial
  BY DEF IInv
<1>2. calls[c] \in CallRecords /\ Sensible(calls[c])
  BY <1>1 DEF TypeOK, CallsMakeSense
<1>3. calls[c].phase = "timedout"
  BY <1>2 DEF Cleaned, Sensible
<1> DEFINE r == IF calls[c].stage = "none" THEN NoCallYet
                ELSE [calls[c] EXCEPT !.cleaning = FALSE]
<1>4. r \in CallRecords /\ Sensible(r) /\ ~Busy(r)
  <2>1. CASE calls[c].stage = "none"
    BY <2>1, NoCallYetTypes
  <2>2. CASE calls[c].stage # "none"
    <3>1. r \in CallRecords /\ r.phase = "timedout" /\ r.kind = calls[c].kind
          /\ ~r.cleaning
      BY <1>2, <1>3, <2>2 DEF CallRecords
    <3> QED BY <1>2, <1>3, <3>1 DEF Sensible, Busy
  <2> QED BY <2>1, <2>2
<1>5. calls' = [calls EXCEPT ![c] = r]
  BY DEF Cleaned
<1>6. UNCHANGED <<active, relays, overlapped>>
  BY DEF Cleaned, managerVars
<1>7. calls' \in [Calls -> CallRecords] /\ CallsMakeSense'
  BY <1>1, <1>4, <1>5, OneCall DEF TypeOK
<1>8. Serial'
  BY <1>1, <1>4, <1>5, <1>6, SerialKept DEF TypeOK
<1>9. /\ freighter' \in Sessions /\ rabet' \in Iframes
      /\ ledger' \in Devices /\ keys' \in [Simple -> BOOLEAN]
  <2>1. calls[c].closes \in 0..MaxTransports
    BY <1>2 DEF CallRecords
  <2> QED BY <1>1, <2>1, Leaving DEF Cleaned
<1>10. /\ begun' \in 0..MaxBegun /\ events' \in 0..MaxEvents
       /\ overlapped' \in BOOLEAN /\ status' \in Statuses
       /\ active' \in Wallets \cup {NoWallet} /\ relays' \in Seq({"freighter"})
  BY <1>1 DEF Cleaned, managerVars, TypeOK, Statuses
<1> QED BY <1>7, <1>8, <1>9, <1>10 DEF IInv, TypeOK, Statuses

\* A call that does not go through the manager.
LEMMA BeginsAside ==
  ASSUME IInv, NEW c \in Calls, NEW r \in CallRecords, Free(c),
         Sensible(r), ~Busy(r), calls' = [calls EXCEPT ![c] = r],
         UNCHANGED <<active, relays, overlapped>>
  PROVE  calls' \in [Calls -> CallRecords] /\ CallsMakeSense' /\ Serial'
<1>1. calls \in [Calls -> CallRecords] /\ CallsMakeSense /\ Serial
  BY DEF IInv, TypeOK
<1> QED BY <1>1, OneCall, SerialKept

LEMMA StepSign ==
  ASSUME IInv, NEW c \in Calls, Sign(c)
  PROVE  IInv'
<1>1. TypeOK /\ CallsMakeSense /\ Serial
  BY DEF IInv
<1>2. active \in Wallets
  BY <1>1 DEF Sign, TypeOK
<1>3. UNCHANGED <<active, relays, overlapped>> /\ Free(c)
  BY DEF Sign, Begin, managerVars
<1>4. calls' \in [Calls -> CallRecords] /\ CallsMakeSense' /\ Serial'
  <2>1. CASE UNCHANGED calls
    <3>1. Serial'
      BY <1>1, <1>3, <2>1, SerialIdle
    <3> QED BY <1>1, <2>1, <3>1 DEF TypeOK, CallsMakeSense, Sensible
  <2>2. CASE \E s \in {"request", "asking", "loading", "opening"},
                h \in 0..MaxTransports :
               calls' = [calls EXCEPT ![c] = Call("sign", active, FALSE, s, h)]
    <3>1. PICK s \in {"request", "asking", "loading", "opening"},
               h \in 0..MaxTransports :
               calls' = [calls EXCEPT ![c] = Call("sign", active, FALSE, s, h)]
      BY <2>2
    <3> DEFINE r == Call("sign", active, FALSE, s, h)
    <3>2. r \in CallRecords /\ Sensible(r) /\ ~Busy(r)
      BY <1>1, <1>2, CallTypes
    <3> QED BY <1>3, <3>1, <3>2, BeginsAside
  <2> QED BY <1>1, <2>1, <2>2, LedgerStart DEF Sign
<1>5. rabet' \in Iframes
  BY <1>1, RabetTypes DEF Sign, TypeOK
<1>6. begun' \in 0..MaxBegun
  BY <1>1, BegunTypes DEF Sign
<1>7. /\ freighter' \in Sessions /\ ledger' \in Devices
      /\ keys' \in [Simple -> BOOLEAN] /\ overlapped' \in BOOLEAN
      /\ events' \in 0..MaxEvents /\ status' \in Statuses
      /\ active' \in Wallets \cup {NoWallet} /\ relays' \in Seq({"freighter"})
  BY <1>1 DEF Sign, managerVars, TypeOK, Statuses
<1> QED BY <1>4, <1>5, <1>6, <1>7 DEF IInv, TypeOK, Statuses

LEMMA StepWalletSigns ==
  ASSUME IInv, NEW c \in Calls, WalletSigns(c)
  PROVE  IInv'
<1>1. TypeOK
  BY DEF IInv
<1>2. calls' \in [Calls -> CallRecords] /\ CallsMakeSense' /\ Serial'
  BY EndsQuietly DEF WalletSigns, managerVars
<1> QED BY <1>1, <1>2
        DEF WalletSigns, managerVars, adapterVars, IInv, TypeOK

LEMMA StepIframe ==
  ASSUME IInv, NEW c \in Calls, NEW answered, IframeSettles(c, answered)
  PROVE  IInv'
<1>1. TypeOK
  BY DEF IInv
<1>2. rabet' \in Iframes
  BY <1>1, RabetTypes
     DEF IframeSettles, ConnectViaIframe, SignViaIframe, TypeOK
<1>3. /\ freighter' \in Sessions /\ ledger' \in Devices
      /\ keys' \in [Simple -> BOOLEAN] /\ overlapped' \in BOOLEAN
      /\ begun' \in 0..MaxBegun /\ events' \in 0..MaxEvents
      /\ UNCHANGED overlapped
  BY <1>1 DEF IframeSettles, TypeOK
<1>4. CASE calls[c].kind = "connect" /\ ConnectViaIframe(c, answered)
  <2>1. calls[c].stage # "none" /\ (Resolve(c) \/ Reject(c))
    BY <1>4 DEF IframeSettles, ConnectViaIframe
  <2>2. /\ calls' \in [Calls -> CallRecords] /\ CallsMakeSense' /\ Serial'
        /\ active' \in Wallets \cup {NoWallet} /\ relays' \in Seq({"freighter"})
    BY <1>3, <1>4, <2>1, Answered
  <2>3. status' \in Statuses
    BY <1>1, <1>4 DEF ConnectViaIframe, Emitted, TypeOK, Statuses
  <2> QED BY <1>2, <1>3, <2>2, <2>3 DEF IInv, TypeOK, Statuses
<1>5. CASE SignViaIframe(c)
  <2>1. Ends(c) /\ UNCHANGED managerVars
    BY <1>5 DEF SignViaIframe
  <2>2. calls' \in [Calls -> CallRecords] /\ CallsMakeSense' /\ Serial'
    BY <1>3, <2>1, EndsQuietly DEF managerVars
  <2>3. /\ status' \in Statuses /\ active' \in Wallets \cup {NoWallet}
        /\ relays' \in Seq({"freighter"})
    BY <1>1, <2>1 DEF managerVars, TypeOK, Statuses
  <2> QED BY <1>2, <1>3, <2>2, <2>3 DEF IInv, TypeOK, Statuses
<1> QED BY <1>4, <1>5 DEF IframeSettles
\* Steps of Freighter's events that leave the calls alone.
LEMMA FreighterStep ==
  ASSUME IInv, freighter' \in Sessions, status' \in Statuses,
         begun' \in 0..MaxBegun, events' \in 0..MaxEvents,
         UNCHANGED <<active, relays, calls, rabet, ledger, keys, overlapped>>
  PROVE  IInv'
<1>1. TypeOK /\ CallsMakeSense /\ Serial
  BY DEF IInv
<1>2. Serial'
  BY <1>1, SerialIdle
<1>3. CallsMakeSense'
  BY <1>1 DEF CallsMakeSense, Sensible
<1>4. TypeOK'
  BY <1>1 DEF TypeOK, Statuses
<1> QED BY <1>2, <1>3, <1>4 DEF IInv

LEMMA StepEvents ==
  ASSUME IInv, FreighterEvent \/ AccountLookup \/ NetworkLookup
  PROVE  IInv'
<1>1. TypeOK
  BY DEF IInv
<1>2. freighter' \in Sessions
  BY <1>1, FreighterTypes
     DEF FreighterEvent, AccountLookup, NetworkLookup, TypeOK
<1>3. status' \in Statuses
  BY <1>1 DEF FreighterEvent, AccountLookup, NetworkLookup, Relayed,
              TypeOK, Statuses
<1>4. begun' \in 0..MaxBegun
  BY <1>1 DEF FreighterEvent, AccountLookup, NetworkLookup, TypeOK
<1>5. events' \in 0..MaxEvents
  BY <1>1, BegunTypes DEF FreighterEvent, AccountLookup, NetworkLookup
<1>6. UNCHANGED <<active, relays, calls, rabet, ledger, keys, overlapped>>
  BY DEF FreighterEvent, AccountLookup, NetworkLookup
<1> QED BY <1>2, <1>3, <1>4, <1>5, <1>6, FreighterStep

LEMMA StepDevice ==
  ASSUME IInv, DeviceEvent
  PROVE  IInv'
<1>1. TypeOK /\ CallsMakeSense /\ Serial
  BY DEF IInv
<1>2. UNCHANGED <<active, relays, status, calls, freighter, rabet, keys,
                  begun, overlapped>>
  BY DEF DeviceEvent, managerVars
<1>3. ledger' \in Devices
  <2>1. PICK t \in ledger.open : ledger' = DeviceGone(ledger, t)
    BY DEF DeviceEvent
  <2>2. t \in 0..MaxTransports
    BY <1>1, <2>1, LedgerAssumption DEF TypeOK, Devices, Transports
  <2> QED BY <1>1, <2>1, <2>2, LedgerTypes DEF TypeOK
<1>4. events' \in 0..MaxEvents
  BY <1>1, BegunTypes DEF DeviceEvent
<1>5. Serial'
  BY <1>1, <1>2, SerialIdle
<1>6. CallsMakeSense'
  BY <1>1, <1>2 DEF CallsMakeSense, Sensible
<1> QED BY <1>1, <1>2, <1>3, <1>4, <1>5, <1>6 DEF IInv, TypeOK

LEMMA StepReload ==
  ASSUME IInv, Reload
  PROVE  IInv'
<1>1. TypeOK
  BY DEF IInv
<1>2. freighter' \in Sessions
  <2>1. freighter.stored \in BOOLEAN
    BY <1>1 DEF TypeOK, Sessions
  <2>2. \A b \in BOOLEAN : LoadedPage(b) \in Sessions
    BY FreighterAssumption DEF Sessions, LoadedPage
  <2> QED BY <2>1, <2>2 DEF Reload
<1>3. rabet' \in Iframes /\ ledger' \in Devices
  BY LedgerAssumption
     DEF Reload, NoIframe, NoDevice, Iframes, Devices, NoTransport, Transports
<1>4. calls' = [c \in Calls |-> NoCallYet]
  BY DEF Reload
<1>5. calls' \in [Calls -> CallRecords] /\ \A c \in Calls : calls'[c] = NoCallYet
  BY <1>4, NoCallYetTypes
<1>6. CallsMakeSense'
  BY <1>5, NoCallYetTypes DEF CallsMakeSense, Sensible
<1>7. Serial'
  <2>1. \A c \in Calls : ~Busy(calls'[c])
    BY <1>5, NoCallYetTypes
  <2>2. relays' = <<>>
    BY DEF Reload
  <2> QED BY <2>1, <2>2 DEF Serial, Busy
<1>8. /\ active' \in Wallets \cup {NoWallet} /\ relays' \in Seq({"freighter"})
      /\ status' \in Statuses
  BY DEF Reload, Statuses
<1>10. keys' \in [Simple -> BOOLEAN] /\ overlapped' \in BOOLEAN
  BY DEF Reload
<1>9. begun' \in 0..MaxBegun /\ events' \in 0..MaxEvents
  BY <1>1, BegunTypes DEF Reload
<1> QED BY <1>2, <1>3, <1>5, <1>6, <1>7, <1>8, <1>9, <1>10 DEF IInv, TypeOK, Statuses

LEMMA StepRestoreSession ==
  ASSUME IInv, NEW c \in Calls, RestoreSession(c)
  PROVE  IInv'
<1>1. TypeOK
  BY DEF IInv
<1> DEFINE r == Call("restore", "freighter", FALSE, "allowed", NoTransport)
<1>2. r \in CallRecords /\ Sensible(r) /\ ~Busy(r)
  BY <1>1, CallTypes, LedgerStart DEF Wallets
<1>3. calls' \in [Calls -> CallRecords] /\ CallsMakeSense' /\ Serial'
  BY <1>2, BeginsAside DEF RestoreSession, Begin, managerVars
<1>4. begun' \in 0..MaxBegun
  BY <1>1, BegunTypes DEF RestoreSession
<1> QED BY <1>1, <1>3, <1>4
        DEF RestoreSession, managerVars, adapterVars, IInv, TypeOK

LEMMA StepAllowed ==
  ASSUME IInv, NEW c \in Calls, AllowedAnswers(c)
  PROVE  IInv'
<1>1. TypeOK
  BY DEF IInv
<1>2. UNCHANGED <<active, relays, overlapped, rabet, ledger, keys, begun, events>>
  BY DEF AllowedAnswers
<1>3. freighter' \in Sessions /\ status' \in Statuses
  BY <1>1, FreighterTypes DEF AllowedAnswers, Relayed, TypeOK, Statuses
<1>4. calls' \in [Calls -> CallRecords] /\ CallsMakeSense' /\ Serial'
  <2>1. CASE Ends(c)
    BY <1>2, <2>1, EndsQuietly
  <2>2. CASE calls' = [calls EXCEPT ![c].stage = "asking"]
    <3> DEFINE r == [calls[c] EXCEPT !.stage = "asking"]
    <3>1. calls[c] \in CallRecords
      BY <1>1 DEF TypeOK
    <3>2. r \in CallRecords /\ r.phase = calls[c].phase
          /\ r.kind = calls[c].kind /\ r.cleaning = calls[c].cleaning
      BY <3>1 DEF CallRecords
    <3>3. calls' = [calls EXCEPT ![c] = r] /\ calls[c].stage # "none"
      BY <2>2 DEF AllowedAnswers
    <3> QED BY <1>2, <3>2, <3>3, StageMoves
  <2> QED BY <2>1, <2>2 DEF AllowedAnswers
<1> QED BY <1>1, <1>2, <1>3, <1>4 DEF IInv, TypeOK, Statuses

LEMMA StepSessionRestored ==
  ASSUME IInv, NEW c \in Calls, SessionRestored(c)
  PROVE  IInv'
<1>1. TypeOK
  BY DEF IInv
<1>2. UNCHANGED <<active, relays, overlapped, rabet, ledger, keys, begun, events>>
  BY DEF SessionRestored
<1>3. freighter' \in Sessions /\ status' \in Statuses
  BY <1>1, FreighterTypes DEF SessionRestored, Relayed, TypeOK, Statuses
<1>4. calls' \in [Calls -> CallRecords] /\ CallsMakeSense' /\ Serial'
  BY <1>2, EndsQuietly DEF SessionRestored
<1> QED BY <1>1, <1>2, <1>3, <1>4 DEF IInv, TypeOK, Statuses

LEMMA StepStutters ==
  ASSUME IInv, UNCHANGED vars
  PROVE  IInv'
<1>1. UNCHANGED <<active, relays, status, calls, freighter, rabet, ledger,
                  keys, begun, events, overlapped>>
  BY DEF vars, managerVars, adapterVars
<1> QED BY <1>1 DEF IInv, TypeOK, CallsMakeSense, Serial, Sensible, Busy

-----------------------------------------------------------------------------
(* Theorems.                                                               *)

\* The invariant that the others rest on.
THEOREM Invariant == Spec => []IInv
<1>1. IInv /\ [Next]_vars => IInv'
  <2> SUFFICES ASSUME IInv, [Next]_vars PROVE IInv'
    OBVIOUS
  <2>1. CASE UNCHANGED vars
    BY <2>1, StepStutters
  <2>2. CASE \E c \in Calls, w \in Registered, timed \in BOOLEAN :
               Connect(c, w, timed)
    BY <2>2, StepConnect
  <2>3. CASE \E c \in Calls : \/ FreighterAnswers(c) \/ SimpleAnswers(c)
                              \/ RabetExtensionAnswers(c) \/ LedgerAnswers(c)
    BY <2>3, StepFreighterAnswers, StepSimpleAnswers,
       StepRabetExtensionAnswers, StepLedgerAnswers
  <2>4. CASE \E c \in Calls : LedgerOpens(c) \/ LedgerLoads(c)
    BY <2>4, StepLedgerOpens, StepLedgerLoads
  <2>5. CASE \E c \in Calls : \/ Disconnect(c) \/ Disconnects(c)
                              \/ ConnectTimesOut(c) \/ Cleaned(c)
    BY <2>5, StepDisconnect, StepDisconnects, StepTimeout, StepCleaned
  <2>6. CASE \E c \in Calls : Sign(c) \/ WalletSigns(c)
    BY <2>6, StepSign, StepWalletSigns
  <2>7. CASE \E c \in Calls : IframeAnswers(c) \/ IframeTimesOut(c)
    BY <2>7, StepIframe DEF IframeAnswers, IframeTimesOut
  <2>8. CASE \E c \in Calls : \/ RestoreSession(c) \/ AllowedAnswers(c)
                              \/ SessionRestored(c)
    BY <2>8, StepRestoreSession, StepAllowed, StepSessionRestored
  <2>9. CASE FreighterEvent \/ AccountLookup \/ NetworkLookup
    BY <2>9, StepEvents
  <2>10. CASE DeviceEvent
    BY <2>10, StepDevice
  <2>11. CASE Reload
    BY <2>11, StepReload
  <2> QED BY <2>1, <2>2, <2>3, <2>4, <2>5, <2>6, <2>7, <2>8, <2>9, <2>10,
             <2>11 DEF Next
<1> QED BY Init_IInv, <1>1, PTL DEF Spec

\* The variables keep their types.
THEOREM TypeCorrect == Spec => []TypeOK
<1>1. IInv => TypeOK
  BY DEF IInv
<1> QED BY Invariant, <1>1, PTL

\* Whoever makes one call at a time hears the active wallet only.
THEOREM OnlyActiveIsRelayed == Spec => []RelaysFollowActive
<1>1. IInv => RelaysFollowActive
  BY DEF IInv, Serial, RelaysFollowActive
<1> QED BY Invariant, <1>1, PTL

\* An answer after the timeout does not revive a connection.
THEOREM NoRevival == Spec => LateAnswersAreIgnored
<1> DEFINE Ignored ==
      Quiet /\ Quiet' /\ begun' = begun /\ ~Reloaded =>
        /\ active' = active /\ relays' = relays
        /\ status' # status => relays # <<>>
<1>1. IInv /\ [Next]_vars => Ignored
  <2> SUFFICES ASSUME IInv, [Next]_vars, Quiet, begun' = begun, ~Reloaded
      PROVE  /\ active' = active /\ relays' = relays
             /\ status' # status => relays # <<>>
    OBVIOUS
  <2>1. TypeOK /\ CallsMakeSense
    BY DEF IInv
  <2>2. \A c \in Calls : ~Begin(c)
    BY <2>1, WalletAssumption DEF Begin, TypeOK
  <2>3. \A c \in Calls : calls[c].kind = "connect" /\ calls[c].stage # "none"
                           => Settled(c)
    <3>1. \A c \in Calls : calls[c].phase \in {"idle", "pending", "timedout"}
      BY <2>1 DEF TypeOK, CallRecords
    <3> QED BY <2>1, <3>1 DEF CallsMakeSense, Sensible, Quiet, UnderWay, Settled
  <2>4. \A c \in Calls : calls[c].kind = "disconnect" => calls[c].stage = "none"
    <3>1. \A c \in Calls : calls[c].phase \in {"idle", "pending", "timedout"}
      BY <2>1 DEF TypeOK, CallRecords
    <3> QED BY <2>1, <3>1 DEF CallsMakeSense, Sensible, Quiet, UnderWay
  <2>5. CASE UNCHANGED vars
    BY <2>5 DEF vars, managerVars
  <2>6. ASSUME NEW c \in Calls,
               \/ \E w \in Registered, timed \in BOOLEAN : Connect(c, w, timed)
               \/ Disconnect(c) \/ Sign(c) \/ RestoreSession(c)
        PROVE FALSE
    BY <2>2, <2>6 DEF Connect, Disconnect, BeginInManager, Sign, RestoreSession
  <2>7. ASSUME NEW c \in Calls,
               \/ FreighterAnswers(c) \/ SimpleAnswers(c)
               \/ RabetExtensionAnswers(c) \/ LedgerAnswers(c)
        PROVE  /\ active' = active /\ relays' = relays
               /\ status' # status => relays # <<>>
    <3>1. calls[c].kind = "connect" /\ calls[c].stage # "none"
      BY <2>7 DEF FreighterAnswers, SimpleAnswers, KeyKept, AlbedoAnswers, RabetExtensionAnswers,
                  LedgerAnswers, Connecting
    <3>2. Settled(c)
      BY <2>3, <3>1
    <3> QED BY <2>7, <3>2
            DEF FreighterAnswers, SimpleAnswers, KeyKept, AlbedoAnswers, RabetExtensionAnswers,
                LedgerAnswers, Resolve, Reject, Emitted, FreighterEmitted,
                Relayed, managerVars
  <2>8. ASSUME NEW c \in Calls, LedgerOpens(c)
        PROVE  UNCHANGED managerVars
    <3>1. calls[c].kind = "connect" => Settled(c)
      BY <2>3, <2>8 DEF LedgerOpens
    <3> QED BY <2>8, <3>1 DEF LedgerOpens, Reject, Emitted, managerVars
  <2>9. ASSUME NEW c \in Calls, Disconnects(c) \/ ConnectTimesOut(c)
        PROVE FALSE
    BY <2>4, <2>9 DEF Disconnects, ConnectTimesOut, Quiet, UnderWay
  <2>10. ASSUME NEW c \in Calls, LedgerLoads(c) \/ Cleaned(c) \/ WalletSigns(c)
         PROVE  UNCHANGED managerVars
    BY <2>10 DEF LedgerLoads, Cleaned, WalletSigns
  <2>11. ASSUME NEW c \in Calls, IframeAnswers(c) \/ IframeTimesOut(c)
         PROVE  UNCHANGED managerVars
    <3>1. PICK answered \in BOOLEAN : IframeSettles(c, answered)
      BY <2>11 DEF IframeAnswers, IframeTimesOut
    <3>2. calls[c].kind = "connect" => Settled(c)
      BY <2>3, <3>1 DEF IframeSettles
    <3> QED BY <3>1, <3>2
            DEF IframeSettles, ConnectViaIframe, SignViaIframe,
                Resolve, Reject, Emitted, managerVars
  <2>12. ASSUME NEW c \in Calls, AllowedAnswers(c) \/ SessionRestored(c)
         PROVE  /\ active' = active /\ relays' = relays
                /\ status' # status => relays # <<>>
    BY <2>12 DEF AllowedAnswers, SessionRestored, Relayed
  <2>13. ASSUME FreighterEvent \/ AccountLookup \/ NetworkLookup
         PROVE  /\ active' = active /\ relays' = relays
                /\ status' # status => relays # <<>>
    BY <2>13 DEF FreighterEvent, AccountLookup, NetworkLookup, Relayed
  <2>14. CASE DeviceEvent
    BY <2>14 DEF DeviceEvent, managerVars
  <2>15. CASE Reload
    BY <2>15 DEF Reload, Reloaded
  <2> QED BY <2>5, <2>6, <2>7, <2>8, <2>9, <2>10, <2>11, <2>12, <2>13, <2>14,
             <2>15 DEF Next, managerVars
<1> QED BY Invariant, <1>1, PTL DEF Spec, LateAnswersAreIgnored, Reloaded

-----------------------------------------------------------------------------
(* The front end: a step of the page is a step of one part and leaves the  *)
(* others alone.                                                           *)

LEMMA PartsStep ==
  ASSUME [FrontEndNext]_frontEndVars
  PROVE  /\ [ComposableNext]_composableVars /\ [ProgressNext]_progressVars
         /\ [StoresNext]_storesVars /\ [HookNext]_hookVars
         /\ [WalletConnectNext]_walletConnectVars /\ [TelemetryNext]_telemetryVars
  BY DEF FrontEndNext, frontEndVars, UsesWallets, UsesRestore, ReportsProgress,
         KeepsStores, UsesHook, UsesWalletConnect, SendsTelemetry, ManagesWallets,
         pageVars

-----------------------------------------------------------------------------
(* The composables.                                                        *)

\* While one call is made at a time, what is shown is what the calls left,
\* and no error is shown while one is under way.
ComposableInv ==
  /\ uses \in [Uses -> {"idle", "checking", "simulating", "signing", "building",
                        "executing"}]
  /\ ui \in Uis /\ ended \in Outcomes /\ mixed \in BOOLEAN
  /\ ~mixed =>
       /\ \A u, v \in Uses : uses[u] # "idle" /\ uses[v] # "idle" => u = v
       /\ ~AllIdle => ~ui.error
  /\ OutcomeIsShown

\* A call that is under way moves on or ends.
LEMMA UseMoves ==
  ASSUME ComposableInv, NEW u \in Uses, uses[u] # "idle",
         NEW to \in {"idle", "signing", "building", "executing"},
         uses' = [uses EXCEPT ![u] = to], mixed' = mixed,
         ui' \in Uis, ended' \in Outcomes,
         ~mixed =>
           /\ ui'.isChecking = FALSE /\ ui'.isExecuting = (to # "idle")
           /\ ui'.needsRestore = ended'.needsRestore
           /\ ui'.lastResult = ended'.lastResult
           /\ IF to = "idle" THEN ui'.error = ended'.error ELSE ui'.error = FALSE
  PROVE  ComposableInv'
<1>1. /\ \A v \in Uses : uses'[v] = IF v = u THEN to ELSE uses[v]
      /\ uses' \in [Uses -> {"idle", "checking", "simulating", "signing", "building",
                              "executing"}]
  BY DEF ComposableInv
<1>2. ~mixed => \A v \in Uses : v # u => uses[v] = "idle"
  BY DEF ComposableInv
<1>3. ~mixed => \A v \in Uses : v # u => uses'[v] = "idle"
  BY <1>1, <1>2
<1>4. uses'[u] = to
  BY <1>1
<1>5. ~mixed' => OutcomeIsShown' /\ (~AllIdle' => ~ui'.error)
  BY <1>3, <1>4 DEF OutcomeIsShown, AllIdle
<1>6. mixed' => OutcomeIsShown'
  BY DEF OutcomeIsShown
<1> QED BY <1>1, <1>3, <1>5, <1>6 DEF ComposableInv

\* What is shown while one call is under way.
LEMMA WhileUsed ==
  ASSUME ComposableInv, NEW u \in Uses, uses[u] # "idle", ~mixed
  PROVE  /\ ui.isChecking <=> uses[u] = "checking"
         /\ ui.isExecuting <=> uses[u] # "checking"
         /\ ui.needsRestore = ended.needsRestore /\ ui.lastResult = ended.lastResult
         /\ ui.error = FALSE
<1>1. \A v \in Uses : v # u => uses[v] = "idle"
  BY DEF ComposableInv
<1>2. ~AllIdle
  BY DEF AllIdle
<1>3. ui.error = FALSE
  BY <1>2 DEF ComposableInv, Uis
<1> QED BY <1>1, <1>3 DEF ComposableInv, OutcomeIsShown

LEMMA NothingWhileIdle ==
  ComposableInv /\ ~mixed /\ AllIdle => ~ui.isChecking /\ ~ui.isExecuting
  BY DEF ComposableInv, OutcomeIsShown, AllIdle

LEMMA UseBegins ==
  ASSUME ComposableInv, NEW u \in Uses, NEW stage \in {"checking", "simulating"},
         Use(u, stage), ended' = ended, ui' \in Uis, ui'.error = FALSE,
         ~mixed /\ AllIdle => /\ ui'.isChecking <=> stage = "checking"
                              /\ ui'.isExecuting <=> stage = "simulating",
         ui'.needsRestore = ui.needsRestore, ui'.lastResult = ui.lastResult
  PROVE  ComposableInv'
<1>1. /\ uses' = [uses EXCEPT ![u] = stage] /\ uses[u] = "idle"
      /\ mixed' = (mixed \/ ~AllIdle)
  BY DEF Use
<1>2. ~mixed' => ~mixed /\ \A v \in Uses : uses[v] = "idle"
  BY <1>1 DEF AllIdle
<1>3. /\ \A v \in Uses : uses'[v] = IF v = u THEN stage ELSE uses[v]
      /\ uses' \in [Uses -> {"idle", "checking", "simulating", "signing", "building",
                              "executing"}]
  BY <1>1 DEF ComposableInv
<1>4. ~mixed' => \A v \in Uses : v # u => uses'[v] = "idle"
  BY <1>2, <1>3
<1>5. ~mixed' => /\ ui'.isChecking <=> stage = "checking"
                 /\ ui'.isExecuting <=> stage = "simulating"
  BY <1>1
<1>6. ~AllIdle' /\ mixed' \in BOOLEAN
  BY <1>1, <1>3 DEF AllIdle, ComposableInv
<1>7. OutcomeIsShown'
  <2> SUFFICES ASSUME ~mixed' PROVE OutcomeIsShown'
    BY DEF OutcomeIsShown
  <2>1. ui.needsRestore = ended.needsRestore /\ ui.lastResult = ended.lastResult
    BY <1>2 DEF ComposableInv, OutcomeIsShown
  <2>2. uses'[u] = stage
    BY <1>3
  <2> QED BY <1>4, <1>5, <1>6, <2>1, <2>2 DEF OutcomeIsShown
<1> QED BY <1>3, <1>4, <1>6, <1>7 DEF ComposableInv

LEMMA ComposableStep ==
  ASSUME ComposableInv, [ComposableNext]_composableVars
  PROVE  ComposableInv'
<1>1. ui \in Uis /\ ended \in Outcomes
  BY DEF ComposableInv
<1>2. ASSUME NEW u \in Uses, CheckTransaction(u)
      PROVE  ComposableInv'
  <2>1. Use(u, "checking") /\ ended' = ended
        /\ ui' = [ui EXCEPT !.isChecking = TRUE, !.error = FALSE]
    BY <1>2 DEF CheckTransaction, NoError
  <2>2. /\ ui' \in Uis /\ ui'.error = FALSE /\ ui'.isChecking = TRUE
        /\ ui'.isExecuting = ui.isExecuting
        /\ ui'.needsRestore = ui.needsRestore /\ ui'.lastResult = ui.lastResult
    BY <1>1, <2>1 DEF Uis
  <2>3. ~mixed /\ AllIdle => /\ ui'.isChecking <=> "checking" = "checking"
                             /\ ui'.isExecuting <=> "checking" = "simulating"
    BY <2>2, NothingWhileIdle
  <2> QED BY <2>1, <2>2, <2>3, UseBegins
<1>3. ASSUME NEW u \in Uses, ExecuteWithRestore(u)
      PROVE  ComposableInv'
  <2>1. Use(u, "simulating") /\ ended' = ended
        /\ ui' = [ui EXCEPT !.isExecuting = TRUE, !.error = FALSE]
    BY <1>3 DEF ExecuteWithRestore, NoError
  <2>2. /\ ui' \in Uis /\ ui'.error = FALSE /\ ui'.isExecuting = TRUE
        /\ ui'.isChecking = ui.isChecking
        /\ ui'.needsRestore = ui.needsRestore /\ ui'.lastResult = ui.lastResult
    BY <1>1, <2>1 DEF Uis
  <2>3. ~mixed /\ AllIdle => /\ ui'.isChecking <=> "simulating" = "checking"
                             /\ ui'.isExecuting <=> "simulating" = "simulating"
    BY <2>2, NothingWhileIdle
  <2> QED BY <2>1, <2>2, <2>3, UseBegins
<1>4. ASSUME NEW u \in Uses, Checked(u)
      PROVE  ComposableInv'
  <2>1. uses[u] = "checking" /\ uses' = [uses EXCEPT ![u] = "idle"] /\ mixed' = mixed
    BY <1>4, Zenon DEF Checked
  <2>2. \/ ui' = [ui EXCEPT !.needsRestore = TRUE, !.isChecking = FALSE]
           /\ ended' = [ended EXCEPT !.error = FALSE, !.needsRestore = TRUE]
        \/ ui' = [ui EXCEPT !.needsRestore = FALSE, !.isChecking = FALSE]
           /\ ended' = [ended EXCEPT !.error = FALSE, !.needsRestore = FALSE]
        \/ ui' = [ui EXCEPT !.error = TRUE, !.isChecking = FALSE]
           /\ ended' = [ended EXCEPT !.error = TRUE]
    BY <1>4, Zenon DEF Checked
  <2>4. /\ ui' \in Uis /\ ended' \in Outcomes
        /\ ui'.isChecking = FALSE /\ ui'.isExecuting = ui.isExecuting
        /\ ui'.lastResult = ui.lastResult /\ ended'.lastResult = ended.lastResult
        /\ \/ /\ ui'.needsRestore = ended'.needsRestore
              /\ ui'.error = ui.error /\ ended'.error = FALSE
           \/ /\ ui'.needsRestore = ui.needsRestore
              /\ ended'.needsRestore = ended.needsRestore
              /\ ui'.error = TRUE /\ ended'.error = TRUE
    BY <1>1, <2>2 DEF Uis, Outcomes
  <2>3. ~mixed => /\ ui.isExecuting = FALSE /\ ui.error = FALSE
                  /\ ui.needsRestore = ended.needsRestore
                  /\ ui.lastResult = ended.lastResult
    BY <1>1, <2>1, WhileUsed DEF Uis
  <2> QED BY <2>1, <2>3, <2>4, UseMoves
<1>5. ASSUME NEW u \in Uses, Simulated(u)
      PROVE  ComposableInv'
  <2>1. uses[u] = "simulating" /\ mixed' = mixed
    BY <1>5 DEF Simulated
  <2>2. PICK to \in {"signing", "building"} : uses' = [uses EXCEPT ![u] = to]
    BY <1>5 DEF Simulated
  <2>3. /\ ui' \in Uis /\ ended' \in Outcomes
        /\ ui'.isChecking = ui.isChecking /\ ui'.isExecuting = ui.isExecuting
        /\ ui'.lastResult = ui.lastResult /\ ended'.lastResult = ended.lastResult
        /\ ui'.error = ui.error
        /\ \/ ui'.needsRestore = ended'.needsRestore
           \/ ui'.needsRestore = ui.needsRestore /\ ended'.needsRestore = ended.needsRestore
    BY <1>1, <1>5 DEF Simulated, Uis, Outcomes
  <2>4. ~mixed => /\ ui.isChecking = FALSE /\ ui.isExecuting = TRUE /\ ui.error = FALSE
                  /\ ui.needsRestore = ended.needsRestore
                  /\ ui.lastResult = ended.lastResult
    BY <1>1, <2>1, WhileUsed DEF Uis
  <2> QED BY <2>1, <2>2, <2>3, <2>4, UseMoves
<1>6. ASSUME NEW u \in Uses, Signed(u) \/ Executed(u) \/ ExecutionThrows(u)
      PROVE  ComposableInv'
  <2>1. /\ uses[u] \in {"simulating", "signing", "building", "executing"}
        /\ uses' = [uses EXCEPT ![u] = "idle"] /\ mixed' = mixed
    BY <1>6 DEF Signed, Executed, ExecutionThrows
  <2>2. /\ ui' \in Uis /\ ended' \in Outcomes /\ ui'.isExecuting = FALSE
        /\ ui'.isChecking = ui.isChecking
        /\ ui'.needsRestore = ui.needsRestore /\ ended'.needsRestore = ended.needsRestore
        /\ \/ /\ ui'.error = ui.error /\ ended'.error = FALSE
              /\ ui'.lastResult = ended'.lastResult
           \/ /\ ui'.error = TRUE /\ ended'.error = TRUE
              /\ ui'.lastResult = ui.lastResult /\ ended'.lastResult = ended.lastResult
    <3>1. CASE Signed(u)
      BY <1>1, <3>1 DEF Signed, Uis, Outcomes
    <3>2. CASE Executed(u)
      BY <1>1, <3>2 DEF Executed, Uis, Outcomes
    <3>3. CASE ExecutionThrows(u)
      BY <1>1, <3>3 DEF ExecutionThrows, Uis, Outcomes
    <3> QED BY <1>6, <3>1, <3>2, <3>3
  <2>3. ~mixed => /\ ui.isChecking = FALSE /\ ui.error = FALSE
                  /\ ui.needsRestore = ended.needsRestore
                  /\ ui.lastResult = ended.lastResult
    BY <1>1, <2>1, WhileUsed DEF Uis
  <2> QED BY <2>1, <2>2, <2>3, UseMoves
<1>7. ASSUME NEW u \in Uses, Built(u)
      PROVE  ComposableInv'
  <2>1. /\ uses[u] = "building" /\ uses' = [uses EXCEPT ![u] = "executing"]
        /\ mixed' = mixed /\ ui' = ui /\ ended' = ended
    BY <1>7 DEF Built
  <2>2. ~mixed => /\ ui.isChecking = FALSE /\ ui.isExecuting = TRUE /\ ui.error = FALSE
                  /\ ui.needsRestore = ended.needsRestore
                  /\ ui.lastResult = ended.lastResult
    BY <1>1, <2>1, WhileUsed DEF Uis
  <2> QED BY <1>1, <2>1, <2>2, UseMoves
<1>8. CASE ResetUi
  <2>1. ui' = InitialUi /\ ended' = Fresh /\ uses' = uses /\ mixed' = (mixed \/ ~AllIdle)
    BY <1>8 DEF ResetUi
  <2>2. ui' \in Uis /\ ended' \in Outcomes /\ mixed' \in BOOLEAN
    BY <2>1 DEF InitialUi, Fresh, Uis, Outcomes, ComposableInv
  <2>3. ~mixed' => \A u \in Uses : uses'[u] = "idle"
    BY <2>1 DEF AllIdle
  <2>4. OutcomeIsShown'
    BY <2>1, <2>3 DEF OutcomeIsShown, InitialUi, Fresh
  <2> QED BY <2>1, <2>2, <2>3, <2>4 DEF ComposableInv, AllIdle
<1>9. CASE UNCHANGED composableVars
  BY <1>9 DEF composableVars, ComposableInv, OutcomeIsShown, AllIdle
<1> QED BY <1>2, <1>3, <1>4, <1>5, <1>6, <1>7, <1>8, <1>9 DEF ComposableNext

\* The Vue, Svelte and Angular bindings show the outcome of the last call,
\* and are busy exactly while one runs, whoever makes one call at a time.
THEOREM OutcomesShown == FrontEndSpec => []OutcomeIsShown
<1>1. FrontEndInit => ComposableInv
  <2> SUFFICES ASSUME FrontEndInit PROVE ComposableInv
    OBVIOUS
  <2>1. ui = InitialUi /\ ended = Fresh /\ mixed = FALSE /\ uses = [u \in Uses |-> "idle"]
    BY DEF FrontEndInit, ComposableInit
  <2>2. ui \in Uis /\ ended \in Outcomes
    BY <2>1 DEF InitialUi, Fresh, Uis, Outcomes
  <2>3. OutcomeIsShown
    BY <2>1 DEF OutcomeIsShown, InitialUi, Fresh, AllIdle
  <2> QED BY <2>1, <2>2, <2>3 DEF ComposableInv, AllIdle
<1>2. ComposableInv /\ [FrontEndNext]_frontEndVars => ComposableInv'
  BY PartsStep, ComposableStep
<1>3. ComposableInv => OutcomeIsShown
  BY DEF ComposableInv
<1> QED BY <1>1, <1>2, <1>3, PTL DEF FrontEndSpec

-----------------------------------------------------------------------------
(* The progress hook.                                                      *)

\* A report waits exactly while the timer is set, only in a mounted component,
\* and the timer fires within the window of the last commit.
ProgressInv ==
  /\ committed \in Int /\ committed >= -ThrottleMs /\ time \in Nat /\ due \in Int
  /\ reports \in Nat /\ pending \in Nat /\ latest \in Nat /\ shown \in Nat
  /\ mounted \in BOOLEAN
  /\ due = NoTimer <=> pending = NoReport
  /\ due # NoTimer => mounted /\ due <= committed + ThrottleMs /\ due >= 0
  /\ IF pending = NoReport THEN shown = latest ELSE pending = latest

LEMMA ProgressStep ==
  ASSUME ProgressInv, [ProgressNext]_progressVars
  PROVE  ProgressInv'
<1> USE ProgressAssumption DEF ProgressInv, NoTimer, NoReport
<1>1. CASE SetProgress
  <2>1. CASE ~mounted
    BY <1>1, <2>1 DEF SetProgress
  <2>2. CASE mounted /\ WindowIsOver
    BY <1>1, <2>2 DEF SetProgress, Flush
  <2>3. CASE mounted /\ ~WindowIsOver
    BY <1>1, <2>3 DEF SetProgress, Coalesced
  <2> QED BY <2>1, <2>2, <2>3
<1>2. CASE Complete
  BY <1>2 DEF Complete, Flush
<1>3. CASE ThrottleTimer
  BY <1>3 DEF ThrottleTimer, Flush
<1>4. CASE ResetProgress
  BY <1>4 DEF ResetProgress
<1>5. CASE Unmount
  <2>1. /\ due' = -1 /\ pending' = 0 /\ latest' = shown
        /\ UNCHANGED <<shown, committed, time, reports>>
    BY <1>5 DEF Unmount
  <2>2. mounted' \in BOOLEAN
    BY <1>5 DEF Unmount
  <2> QED BY <2>1, <2>2
<1>6. CASE Remount
  BY <1>6 DEF Remount
<1>7. CASE Elapse
  BY <1>7 DEF Elapse
<1>8. CASE UNCHANGED progressVars
  BY <1>8 DEF progressVars
<1> HIDE DEF ProgressInv
<1> QED BY <1>1, <1>2, <1>3, <1>4, <1>5, <1>6, <1>7, <1>8 DEF ProgressNext

\* Coalescing reports loses none that is the last, for every throttle window.
THEOREM LastReportsShown == FrontEndSpec => []LastReportIsShown
<1>1. FrontEndInit => ProgressInv
  BY ProgressAssumption DEF FrontEndInit, ProgressInit, ProgressInv, NoTimer, NoReport
<1>2. ProgressInv /\ [FrontEndNext]_frontEndVars => ProgressInv'
  BY PartsStep, ProgressStep
<1>3. ProgressInv => LastReportIsShown
  BY DEF ProgressInv, LastReportIsShown
<1> QED BY <1>1, <1>2, <1>3, PTL DEF FrontEndSpec

-----------------------------------------------------------------------------
(* The cache and the client of the hook.                                   *)

\* Unless a call of an older render was under way since the last change, every
\* call under way was made by the current render and every answer kept is of
\* its configuration.
HookInv ==
  /\ config \in Nat \ {0}
  /\ DOMAIN checks = Checks /\ DOMAIN simulations = Txs
  /\ \A k \in Checks :
       /\ DOMAIN checks[k] = {"stage", "tx", "config", "client", "forceRefresh"}
       /\ checks[k].stage \in {"idle", "hashing", "simulating"}
       /\ checks[k].stage # "idle" => checks[k].tx \in Txs
  /\ ~outdated =>
       /\ clientRef \in {NoClient, config}
       /\ \A tx \in Txs : simulations[tx].client \in {NoClient, config}
       /\ \A k \in Checks : checks[k].stage # "idle" =>
            /\ checks[k].config = config
            /\ checks[k].stage = "simulating" => checks[k].client = config

\* One call moves on.
LEMMA CheckMoves ==
  ASSUME HookInv, NEW k \in Checks, NEW check, checks' = [checks EXCEPT ![k] = check],
         UNCHANGED config, outdated => outdated',
         DOMAIN check = {"stage", "tx", "config", "client", "forceRefresh"},
         check.stage \in {"idle", "hashing", "simulating"},
         check.stage # "idle" => check.tx \in Txs,
         DOMAIN simulations' = Txs,
         ~outdated' =>
           /\ clientRef' \in {NoClient, config}
           /\ \A tx \in Txs : simulations'[tx].client \in {NoClient, config}
           /\ check.stage # "idle" =>
                /\ check.config = config
                /\ check.stage = "simulating" => check.client = config
  PROVE  HookInv'
<1>1. /\ \A j \in Checks : checks'[j] = IF j = k THEN check ELSE checks[j]
      /\ DOMAIN checks' = Checks
  BY DEF HookInv
<1> QED BY <1>1 DEF HookInv

LEMMA IdleCheck ==
  \A tx : /\ NotChecking(tx).stage = "idle"
          /\ DOMAIN NotChecking(tx) = {"stage", "tx", "config", "client", "forceRefresh"}
  BY DEF NotChecking

LEMMA HookStep ==
  ASSUME HookInv, [HookNext]_hookVars
  PROVE  HookInv'
<1>1. CASE ConfigChanges
  <2>1. /\ config' = config + 1 /\ clientRef' = NoClient /\ checks' = checks
        /\ simulations' = [tx \in Txs |-> NoSimulation]
        /\ outdated' = (\E k \in Checks : checks[k].stage # "idle")
    BY <1>1 DEF ConfigChanges, Cleared
  <2>2. \A tx \in Txs : simulations'[tx].client = NoClient
    BY <2>1 DEF NoSimulation
  <2>3. config' \in Nat \ {0} /\ DOMAIN simulations' = Txs
    BY <2>1 DEF HookInv
  <2>4. ~outdated' => \A k \in Checks : checks'[k].stage = "idle"
    BY <2>1
  <2> QED BY <2>1, <2>2, <2>3, <2>4 DEF HookInv
<1>2. CASE HookTick
  BY <1>2 DEF HookTick, HookInv
<1>3. ASSUME NEW k \in Checks, NEW tx \in Txs, NEW forceRefresh \in BOOLEAN,
             NEW render \in 1..config, HookChecks(k, tx, forceRefresh, render)
      PROVE  HookInv'
  <2> DEFINE check == [NotChecking(tx) EXCEPT !.stage = "hashing", !.config = render,
                                              !.forceRefresh = forceRefresh]
  <2>1. /\ check.stage = "hashing" /\ check.config = render /\ check.tx = tx
        /\ DOMAIN check = {"stage", "tx", "config", "client", "forceRefresh"}
    BY DEF NotChecking
  <2>2. /\ checks' = [checks EXCEPT ![k] = check]
        /\ UNCHANGED <<config, clientRef, simulations>>
        /\ outdated => outdated'
        /\ ~outdated' => ~outdated /\ render = config
    BY <1>3 DEF HookChecks
  <2> HIDE DEF check
  <2> QED BY <2>1, <2>2, CheckMoves DEF HookInv
<1>4. ASSUME NEW k \in Checks, HookHit(k) \/ HookFails(k)
      PROVE  HookInv'
  <2>1. /\ checks' = [checks EXCEPT ![k] = NotChecking(checks[k].tx)]
        /\ UNCHANGED <<config, clientRef, simulations, outdated>>
    BY <1>4 DEF HookHit, HookFails
  <2> QED BY <2>1, CheckMoves, IdleCheck DEF HookInv
<1>5. ASSUME NEW k \in Checks, HookMiss(k)
      PROVE  HookInv'
  <2> DEFINE check == [checks[k] EXCEPT !.stage = "simulating", !.client = clientRef']
  <2>1. /\ checks[k].stage = "hashing"
        /\ clientRef' = IF clientRef = NoClient THEN checks[k].config ELSE clientRef
        /\ checks' = [checks EXCEPT ![k] = check]
        /\ UNCHANGED <<config, simulations, outdated>>
    BY <1>5 DEF HookMiss, HookInv
  <2>2. /\ check.stage = "simulating" /\ check.client = clientRef'
        /\ check.config = checks[k].config /\ check.tx = checks[k].tx
        /\ DOMAIN check = {"stage", "tx", "config", "client", "forceRefresh"}
    BY DEF HookInv
  <2> HIDE DEF check
  <2>3. /\ checks[k].tx \in Txs
        /\ ~outdated => checks[k].config = config /\ clientRef' = config
    BY <2>1 DEF HookInv
  <2> QED BY <2>1, <2>2, <2>3, CheckMoves DEF HookInv
<1>6. ASSUME NEW k \in Checks, HookSimulated(k)
      PROVE  HookInv'
  <2> DEFINE tx == checks[k].tx
             kept == [client |-> checks[k].client, expiresAt |-> hookTime + CacheTtl]
  <2>1. /\ checks[k].stage = "simulating"
        /\ simulations' = [simulations EXCEPT ![tx] = kept]
        /\ checks' = [checks EXCEPT ![k] = NotChecking(tx)]
        /\ UNCHANGED <<config, clientRef, outdated>>
    BY <1>6 DEF HookSimulated
  <2>2. kept.client = checks[k].client
    OBVIOUS
  <2> HIDE DEF kept
  <2>3. /\ DOMAIN simulations' = Txs
        /\ \A t \in Txs : simulations'[t] = IF t = tx THEN kept ELSE simulations[t]
    BY <2>1 DEF HookInv
  <2>4. ~outdated => /\ kept.client = config
                      /\ \A t \in Txs : simulations'[t].client \in {NoClient, config}
    BY <2>1, <2>2, <2>3 DEF HookInv
  <2> QED BY <2>1, <2>3, <2>4, CheckMoves, IdleCheck DEF HookInv
<1>7. CASE UNCHANGED hookVars
  BY <1>7 DEF hookVars, HookInv
<1> QED BY <1>1, <1>2, <1>3, <1>4, <1>5, <1>6, <1>7 DEF HookNext

\* The React hook serves no answer of a client it has replaced, unless a call
\* that an older render had made was under way since the configuration changed.
THEOREM HookServesItsConfig == FrontEndSpec => []HookIsOfItsConfig
<1>1. FrontEndInit => HookInv
  BY IdleCheck DEF FrontEndInit, HookInit, HookInv, NoSimulation
<1>2. HookInv /\ [FrontEndNext]_frontEndVars => HookInv'
  BY PartsStep, HookStep
<1>3. HookInv => HookIsOfItsConfig
  BY DEF HookInv, HookIsOfItsConfig, Servable
<1> QED BY <1>1, <1>2, <1>3, PTL DEF FrontEndSpec

-----------------------------------------------------------------------------
(* WalletConnect.                                                          *)

\* A session and its account come and go together, unless a session without
\* an account was approved.
SessionInv ==
  ~bare => session = connectedAccount /\ request.account = request.topic

LEMMA SessionStep ==
  ASSUME SessionInv, [WalletConnectNext]_walletConnectVars
  PROVE  SessionInv'
<1>1. ASSUME NEW p \in Pairings, ApprovalSucceeds(p)
      PROVE  SessionInv'
  <2>1. CASE At(p, "awaiting")
    <3>1. PICK hasAccount \in BOOLEAN : Takes(p, hasAccount)
      BY <1>1, <2>1 DEF ApprovalSucceeds
    <3>2. CASE hasAccount
      BY <1>1, <3>1, <3>2 DEF ApprovalSucceeds, Takes, AccountOf, SessionInv
    <3>3. CASE ~hasAccount
      BY <3>1, <3>3 DEF Takes, SessionInv
    <3> QED BY <3>2, <3>3
  <2>2. CASE ~At(p, "awaiting")
    BY <1>1, <2>2 DEF ApprovalSucceeds, SessionInv
  <2> QED BY <2>1, <2>2
<1>2. ASSUME NEW p \in Pairings,
             \/ ConnectBegins(p) \/ ClientLoads(p) \/ PairingCreated(p)
             \/ AwaitSessionApproval(p) \/ ConnectFails(p) \/ ApprovalFails(p)
      PROVE  SessionInv'
  BY <1>2 DEF ConnectBegins, ClientLoads, PairingCreated, AwaitSessionApproval,
              ConnectFails, ApprovalFails, SessionInv
<1>3. ASSUME \/ \E c \in 1..clients : SessionProposal(c)
             \/ DisconnectBegins \/ UNCHANGED walletConnectVars
      PROVE  SessionInv'
  BY <1>3 DEF SessionProposal, DisconnectBegins, walletConnectVars, SessionInv
<1>4. ASSUME NEW topic \in leaving, DisconnectEnds(topic)
      PROVE  SessionInv'
  BY <1>4 DEF DisconnectEnds, SessionInv
<1>5. CASE SignAndSubmit
  BY <1>5 DEF SignAndSubmit, SessionInv
<1> QED BY <1>1, <1>2, <1>3, <1>4, <1>5 DEF WalletConnectNext

\* Whatever connects, proposals and disconnects overlap, on any number of
\* clients, a request names the account of the session it is sent to.
THEOREM SessionNamed == FrontEndSpec => []RequestsNameTheirSession
<1>1. FrontEndInit => SessionInv
  BY DEF FrontEndInit, WalletConnectInit, SessionInv
<1>2. SessionInv /\ [FrontEndNext]_frontEndVars => SessionInv'
  BY PartsStep, SessionStep
<1>3. SessionInv => RequestsNameTheirSession
  BY DEF SessionInv, RequestsNameTheirSession
<1> QED BY <1>1, <1>2, <1>3, PTL DEF FrontEndSpec

-----------------------------------------------------------------------------
(* Telemetry.                                                              *)

\* What is stored is the last decision that the storage took, in whichever
\* way it can be used.
ConsentInv ==
  /\ consent \in [Instances -> BOOLEAN] /\ basis \in [Instances -> BOOLEAN]
  /\ told \in [Instances -> {"nothing", "yes", "no"}]
  /\ access \in Access
  /\ persisted \in BOOLEAN /\ persisted = lastTaken
  /\ \A i \in Instances :
       consent[i] => told[i] = "yes" \/ (told[i] = "nothing" /\ basis[i])

LEMMA RestartKeeps ==
  ASSUME ConsentInv, NEW i \in Instances, Restarts(i),
         UNCHANGED <<access, persisted, lastTaken>>
  PROVE  ConsentInv'
<1>1. Read(i) \in BOOLEAN /\ (Read(i) => lastTaken)
  BY DEF Read, Usable, ConsentInv
<1>2. /\ \A j \in Instances : /\ consent'[j] = IF j = i THEN Read(i) ELSE consent[j]
                              /\ basis'[j] = IF j = i THEN lastTaken ELSE basis[j]
                              /\ told'[j] = IF j = i THEN "nothing" ELSE told[j]
      /\ consent' \in [Instances -> BOOLEAN] /\ basis' \in [Instances -> BOOLEAN]
      /\ told' \in [Instances -> {"nothing", "yes", "no"}]
  BY <1>1 DEF Restarts, ConsentInv
<1> QED BY <1>1, <1>2 DEF ConsentInv

LEMMA ConsentStep ==
  ASSUME ConsentInv, [TelemetryNext]_telemetryVars
  PROVE  ConsentInv'
<1>1. CASE configureTelemetry
  BY <1>1, RestartKeeps DEF configureTelemetry, Instances
<1>2. ASSUME NEW c \in Clients, NewTelemetry(c)
      PROVE  ConsentInv'
  BY <1>2, RestartKeeps DEF NewTelemetry, Instances
<1>3. ASSUME NEW i \in Instances, NEW granted \in BOOLEAN, SetConsent(i, granted)
      PROVE  ConsentInv'
  <2>1. /\ \A j \in Instances :
             /\ consent'[j] = IF j = i THEN granted ELSE consent[j]
             /\ told'[j] = IF j = i THEN (IF granted THEN "yes" ELSE "no") ELSE told[j]
        /\ consent' \in [Instances -> BOOLEAN] /\ basis' = basis
        /\ told' \in [Instances -> {"nothing", "yes", "no"}]
        /\ access' = access
    BY <1>3 DEF SetConsent, ConsentInv
  <2>2. /\ persisted' = IF Writes(i, granted) THEN granted ELSE persisted
        /\ lastTaken' = IF access = "usable" \/ (i # Module /\ access = "full" /\ ~granted)
                        THEN granted ELSE lastTaken
    BY <1>3 DEF SetConsent
  <2>3. Writes(i, granted) <=>
          access = "usable" \/ (i # Module /\ access = "full" /\ ~granted)
    BY DEF Writes, Usable, ConsentInv, Access
  <2>4. persisted' = lastTaken' /\ persisted' \in BOOLEAN
    BY <2>2, <2>3 DEF ConsentInv
  <2> QED BY <2>1, <2>4 DEF ConsentInv
<1>4. ASSUME NEW a \in Access, AccessChanges(a)
      PROVE  ConsentInv'
  BY <1>4 DEF AccessChanges, ConsentInv
<1>5. CASE PageLoads
  BY <1>5 DEF PageLoads, ConsentInv
<1>6. CASE UNCHANGED telemetryVars
  BY <1>6 DEF telemetryVars, ConsentInv
<1> QED BY <1>1, <1>2, <1>3, <1>4, <1>5, <1>6 DEF TelemetryNext

\* Both telemetry implementations together never send against the last
\* decision that reached them, whatever becomes of the storage.
THEOREM ConsentIsHeeded == FrontEndSpec => []OnlyWithConsent
<1>1. FrontEndInit => ConsentInv
  BY DEF FrontEndInit, TelemetryInit, ConsentInv, Access
<1>2. ConsentInv /\ [FrontEndNext]_frontEndVars => ConsentInv'
  BY PartsStep, ConsentStep
<1>3. ConsentInv => OnlyWithConsent
  BY DEF ConsentInv, OnlyWithConsent, Sends
<1> QED BY <1>1, <1>2, <1>3, PTL DEF FrontEndSpec

-----------------------------------------------------------------------------
(* The stores of one bus.                                                  *)

Fields == {"isChecking", "isExecuting", "needsRestore", "archivedKeys",
           "lastResult", "error"}

LEMMA SameSlice ==
  ASSUME NEW s \in Slices, NEW t \in Slices, \A f \in Fields : s[f] = t[f]
  PROVE  s = t
<1>1. \A r \in Slices : r = [f \in Fields |-> r[f]]
  BY DEF Slices, Fields
<1> QED BY <1>1

LEMMA OneField ==
  ASSUME NEW u \in Slices, NEW f \in Fields, NEW v \in BOOLEAN
  PROVE  /\ [u EXCEPT ![f] = v] \in Slices
         /\ \A g \in Fields : [u EXCEPT ![f] = v][g] = IF g = f THEN v ELSE u[g]
<1>1. u \in [Fields -> BOOLEAN] /\ Slices = [Fields -> BOOLEAN]
  BY DEF Slices, Fields
<1> HIDE DEF Slices, Fields
<1> QED BY <1>1

\* Each reducer, field by field.
Reduces(t, s, e) ==
  /\ t["isChecking"] <=> (e = "checking"
       \/ (s["isChecking"] /\ e \notin {"needs-restore", "error", "reset"}))
  /\ t["isExecuting"] <=> (e = "executing"
       \/ (s["isExecuting"] /\ e \notin {"restored", "error", "reset"}))
  /\ t["needsRestore"] <=> (e = "needs-restore"
       \/ (s["needsRestore"] /\ e \notin {"restored", "reset"}))
  /\ t["archivedKeys"] <=> (e = "needs-restore" \/ (s["archivedKeys"] /\ e # "reset"))
  /\ t["lastResult"] <=> (e = "restored" \/ (s["lastResult"] /\ e # "reset"))
  /\ t["error"] <=> (e = "error" \/ (s["error"] /\ e \notin {"checking", "reset"}))

LEMMA MiddlewareReduces ==
  ASSUME NEW s \in Slices, NEW e \in Events
  PROVE  reduceRestoration(s, e) \in Slices /\ Reduces(reduceRestoration(s, e), s, e)
<1>1. CASE e = "checking"
  BY <1>1 DEF Slices, Reduces, reduceRestoration
<1>2. CASE e = "needs-restore"
  BY <1>2 DEF Slices, Reduces, reduceRestoration
<1>3. CASE e = "executing"
  BY <1>3 DEF Slices, Reduces, reduceRestoration
<1>4. CASE e = "restored"
  BY <1>4 DEF Slices, Reduces, reduceRestoration
<1>5. CASE e = "error"
  BY <1>5 DEF Slices, Reduces, reduceRestoration
<1>6. CASE e = "reset"
  BY <1>6 DEF Slices, Reduces, reduceRestoration, initialRestorationSlice
<1> QED BY <1>1, <1>2, <1>3, <1>4, <1>5, <1>6 DEF Events

LEMMA ReduxReduces ==
  ASSUME NEW s \in Slices, NEW e \in Events
  PROVE  /\ restorationReducer(s, eventToAction(e)) \in Slices
         /\ Reduces(restorationReducer(s, eventToAction(e)), s, e)
<1> DEFINE a == eventToAction(e)
           t == restorationReducer(s, a)
<1>1. DOMAIN s = Fields /\ \A f \in Fields : s[f] \in BOOLEAN
  BY DEF Slices, Fields
<1>2. t = [f \in Fields |-> f \in ActionSets[a] \/ (s[f] /\ f \notin ActionClears[a])]
  BY <1>1 DEF restorationReducer
<1>3. \A f \in Fields : t[f] = (f \in ActionSets[a] \/ (s[f] /\ f \notin ActionClears[a]))
  BY <1>2
<1>4. t \in [Fields -> BOOLEAN]
  BY <1>2
<1>5. t \in Slices
  BY <1>4 DEF Slices, Fields
<1>6. Reduces(t, s, e)
  <2>1. CASE e = "checking"
    <3>1. ActionSets[a] = {"isChecking"} /\ ActionClears[a] = {"error"}
      BY <2>1 DEF eventToAction, ActionSets, ActionClears
    <3> QED BY <1>3, <2>1, <3>1 DEF Fields, Reduces
  <2>2. CASE e = "needs-restore"
    <3>1. ActionSets[a] = {"needsRestore", "archivedKeys"} /\ ActionClears[a] = {"isChecking"}
      BY <2>2 DEF eventToAction, ActionSets, ActionClears
    <3> QED BY <1>3, <2>2, <3>1 DEF Fields, Reduces
  <2>3. CASE e = "executing"
    <3>1. ActionSets[a] = {"isExecuting"} /\ ActionClears[a] = {}
      BY <2>3 DEF eventToAction, ActionSets, ActionClears
    <3> QED BY <1>3, <2>3, <3>1 DEF Fields, Reduces
  <2>4. CASE e = "restored"
    <3>1. ActionSets[a] = {"lastResult"} /\ ActionClears[a] = {"isExecuting", "needsRestore"}
      BY <2>4 DEF eventToAction, ActionSets, ActionClears
    <3> QED BY <1>3, <2>4, <3>1 DEF Fields, Reduces
  <2>5. CASE e = "error"
    <3>1. ActionSets[a] = {"error"} /\ ActionClears[a] = {"isChecking", "isExecuting"}
      BY <2>5 DEF eventToAction, ActionSets, ActionClears
    <3> QED BY <1>3, <2>5, <3>1 DEF Fields, Reduces
  <2>6. CASE e = "reset"
    <3>1. ActionSets[a] = {} /\ ActionClears[a] = Fields
      BY <2>6 DEF eventToAction, ActionSets, ActionClears, initialRestorationSlice, Fields
    <3> QED BY <1>3, <2>6, <3>1 DEF Fields, Reduces
  <2> QED BY <2>1, <2>2, <2>3, <2>4, <2>5, <2>6 DEF Events
<1> QED BY <1>5, <1>6

LEMMA JotaiReduces ==
  ASSUME NEW s \in Slices, NEW e \in Events
  PROVE  applyEvent(s, e) \in Slices /\ Reduces(applyEvent(s, e), s, e)
<1>1. CASE e = "reset"
  BY <1>1 DEF Slices, Reduces, applyEvent, initialRestorationSlice
<1>2. CASE e # "reset"
  <2> DEFINE t == applyEvent(s, e)
             c == e = "checking" \/ (s.isChecking /\ e \notin {"needs-restore", "error"})
             x == e = "executing" \/ (s.isExecuting /\ e \notin {"restored", "error"})
             n == e = "needs-restore" \/ (s.needsRestore /\ e # "restored")
             k == s.archivedKeys \/ e = "needs-restore"
             l == s.lastResult \/ e = "restored"
             r == e = "error" \/ (s.error /\ e # "checking")
  <2>1. t = [s EXCEPT !.isChecking = c, !.isExecuting = x, !.needsRestore = n,
                      !.archivedKeys = k, !.lastResult = l, !.error = r]
    BY <1>2, Zenon DEF applyEvent
  <2>2. c \in BOOLEAN /\ x \in BOOLEAN /\ n \in BOOLEAN /\ k \in BOOLEAN
        /\ l \in BOOLEAN /\ r \in BOOLEAN
    BY DEF Slices
  <2> HIDE DEF t, c, x, n, k, l, r
  <2> DEFINE u1 == [s EXCEPT !["isChecking"] = c]
             u2 == [u1 EXCEPT !["isExecuting"] = x]
             u3 == [u2 EXCEPT !["needsRestore"] = n]
             u4 == [u3 EXCEPT !["archivedKeys"] = k]
             u5 == [u4 EXCEPT !["lastResult"] = l]
             u6 == [u5 EXCEPT !["error"] = r]
  <2>3. t = u6
    BY <2>1, Zenon
  <2>4. /\ u1 \in Slices
        /\ \A g \in Fields : u1[g] = IF g = "isChecking" THEN c ELSE s[g]
    BY <2>2, OneField DEF Fields
  <2> HIDE DEF u1
  <2>5. /\ u2 \in Slices
        /\ \A g \in Fields : u2[g] = IF g = "isExecuting" THEN x ELSE u1[g]
    BY <2>2, <2>4, OneField DEF Fields
  <2> HIDE DEF u2
  <2>6. /\ u3 \in Slices
        /\ \A g \in Fields : u3[g] = IF g = "needsRestore" THEN n ELSE u2[g]
    BY <2>2, <2>5, OneField DEF Fields
  <2> HIDE DEF u3
  <2>7. /\ u4 \in Slices
        /\ \A g \in Fields : u4[g] = IF g = "archivedKeys" THEN k ELSE u3[g]
    BY <2>2, <2>6, OneField DEF Fields
  <2> HIDE DEF u4
  <2>8. /\ u5 \in Slices
        /\ \A g \in Fields : u5[g] = IF g = "lastResult" THEN l ELSE u4[g]
    BY <2>2, <2>7, OneField DEF Fields
  <2> HIDE DEF u5
  <2>9. /\ u6 \in Slices
        /\ \A g \in Fields : u6[g] = IF g = "error" THEN r ELSE u5[g]
    BY <2>2, <2>8, OneField DEF Fields
  <2> HIDE DEF u6
  <2>10. /\ t["isChecking"] = c /\ t["isExecuting"] = x
         /\ t["needsRestore"] = n /\ t["archivedKeys"] = k
         /\ t["lastResult"] = l /\ t["error"] = r
    BY <2>3, <2>4, <2>5, <2>6, <2>7, <2>8, <2>9 DEF Fields
  <2>11. Reduces(t, s, e)
    <3> USE <1>2, <2>10 DEF Slices
    <3>1. t["isChecking"] <=> (e = "checking"
            \/ (s["isChecking"] /\ e \notin {"needs-restore", "error", "reset"}))
      BY DEF c
    <3>2. t["isExecuting"] <=> (e = "executing"
            \/ (s["isExecuting"] /\ e \notin {"restored", "error", "reset"}))
      BY DEF x
    <3>3. t["needsRestore"] <=> (e = "needs-restore"
            \/ (s["needsRestore"] /\ e \notin {"restored", "reset"}))
      BY DEF n
    <3>4. t["archivedKeys"] <=>
            (e = "needs-restore" \/ (s["archivedKeys"] /\ e # "reset"))
      BY DEF k
    <3>5. t["lastResult"] <=> (e = "restored" \/ (s["lastResult"] /\ e # "reset"))
      BY DEF l
    <3>6. t["error"] <=>
            (e = "error" \/ (s["error"] /\ e \notin {"checking", "reset"}))
      BY DEF r
    <3> QED BY <3>1, <3>2, <3>3, <3>4, <3>5, <3>6, Zenon DEF Reduces
  <2> QED BY <2>3, <2>9, <2>11 DEF t
<1> QED BY <1>1, <1>2

\* The three copies of the reducer are one function.
LEMMA ReducersAgree ==
  ASSUME NEW s \in Slices, NEW e \in Events
  PROVE  /\ reduceRestoration(s, e) \in Slices
         /\ restorationReducer(s, eventToAction(e)) = reduceRestoration(s, e)
         /\ applyEvent(s, e) = reduceRestoration(s, e)
<1>1. \A t, u \in Slices : Reduces(t, s, e) /\ Reduces(u, s, e) => t = u
  <2> SUFFICES ASSUME NEW t \in Slices, NEW u \in Slices,
                      Reduces(t, s, e), Reduces(u, s, e)
               PROVE  \A f \in Fields : t[f] = u[f]
    BY SameSlice
  <2>1. \A f \in Fields : t[f] \in BOOLEAN /\ u[f] \in BOOLEAN
    BY DEF Slices, Fields
  <2>2. \A f \in Fields : t[f] <=> u[f]
    BY DEF Reduces, Fields
  <2> QED BY <2>1, <2>2
<1> QED BY <1>1, MiddlewareReduces, ReduxReduces, JotaiReduces

\* Where an emit has got to: whom it reached shows the reduced slice, and the
\* others still show one common slice, or will be reset.
Coherent(J, sl, r) ==
  \E x, y \in Slices :
    /\ J \ r.called # {} => y = reduceRestoration(x, r.event)
    /\ \A s \in J : IF s \in r.called THEN sl[s] = y
                    ELSE r.event = "reset" \/ sl[s] = x

AllEqual(J, sl) == \A s, t \in J : sl[s] = sl[t]

\* The emits that one under way interrupted have reached every store.
Reconciled(J, sl, rs) ==
  IF rs = <<>> THEN AllEqual(J, sl)
  ELSE /\ \A i \in 1..(Len(rs) - 1) : J \subseteq rs[i].called
       /\ Coherent(J, sl, rs[Len(rs)])

RoundRecords == [event : Events, called : SUBSET (Stores \cup {App})]

StoresInv ==
  /\ listeners \in Seq(Stores \cup {App}) /\ slices \in [Stores -> Slices]
  /\ rounds \in Seq(RoundRecords) /\ split \in BOOLEAN
  /\ \A s \in Stores \ Joined : slices[s] = initialRestorationSlice
  /\ ~split => Reconciled(Joined, slices, rounds)

LEMMA NoneLeft ==
  ASSUME NEW J, NEW sl, NEW r, J \subseteq r.called
  PROVE  (J \subseteq Stores /\ sl \in [Stores -> Slices]) =>
           (Coherent(J, sl, r) <=> AllEqual(J, sl))
<1> SUFFICES ASSUME J \subseteq Stores, sl \in [Stores -> Slices]
             PROVE  Coherent(J, sl, r) <=> AllEqual(J, sl)
  OBVIOUS
<1>1. Coherent(J, sl, r) => AllEqual(J, sl)
  BY DEF Coherent, AllEqual
<1>2. initialRestorationSlice \in Slices
  BY DEF initialRestorationSlice, Slices
<1>3. ASSUME AllEqual(J, sl) PROVE Coherent(J, sl, r)
  <2>1. CASE J = {}
    BY <1>2, <2>1 DEF Coherent
  <2>2. ASSUME NEW j \in J PROVE Coherent(J, sl, r)
    <3>1. sl[j] \in Slices /\ \A s \in J : sl[s] = sl[j]
      BY <1>3 DEF AllEqual
    <3>2. J \ r.called = {}
      OBVIOUS
    <3> QED BY <3>1, <3>2 DEF Coherent
  <2> QED BY <2>1, <2>2
<1> QED BY <1>1, <1>3

LEMMA EmitBegins ==
  ASSUME NEW J \in SUBSET Stores, NEW sl \in [Stores -> Slices], NEW e \in Events,
         AllEqual(J, sl) \/ e = "reset"
  PROVE  Coherent(J, sl, Round(e))
<1>1. Round(e).called = {} /\ Round(e).event = e
  BY DEF Round
<1>2. \A x \in Slices : reduceRestoration(x, e) \in Slices
  BY ReducersAgree
<1>3. initialRestorationSlice \in Slices
  BY DEF initialRestorationSlice, Slices
<1>4. CASE J = {} \/ e = "reset"
  BY <1>1, <1>2, <1>3, <1>4 DEF Coherent
<1>5. ASSUME NEW j \in J, AllEqual(J, sl) PROVE Coherent(J, sl, Round(e))
  <2>1. sl[j] \in Slices /\ \A s \in J : sl[s] = sl[j]
    BY <1>5 DEF AllEqual
  <2> QED BY <1>1, <1>2, <2>1 DEF Coherent
<1> QED BY <1>4, <1>5

\* Whom the innermost emit calls next, or that it has called them all.
LEMMA WaitingIs ==
  ASSUME StoresInv, rounds # <<>>
  PROVE  /\ Waiting # <<>> =>
              /\ Head(Waiting) \in Stores \cup {App}
              /\ Head(Waiting) \in ToSet(listeners)
              /\ Head(Waiting) \notin rounds[Len(rounds)].called
         /\ Waiting = <<>> => Joined \subseteq rounds[Len(rounds)].called
<1> DEFINE S == ToSet(listeners) \ Last(rounds).called
           E == Stores \cup {App}
<1>1. listeners \in Seq(E) /\ Last(rounds) = rounds[Len(rounds)]
  BY DEF StoresInv, Last
<1>2. Waiting \in Seq(E \cap S)
  BY <1>1, KeptType DEF Waiting
<1>3. Waiting # <<>> => Head(Waiting) \in E \cap S
  BY <1>2
<1>4. ASSUME Waiting = <<>>, NEW s \in Joined
      PROVE  s \in rounds[Len(rounds)].called
  <2>1. PICK j \in DOMAIN listeners : listeners[j] = s
    BY DEF Joined, ToSet
  <2>2. s \in S => \E k \in DOMAIN Waiting : Waiting[k] = s
    BY <1>1, <2>1, KeptMembers DEF Waiting
  <2>3. DOMAIN Waiting = {}
    BY <1>4
  <2>4. s \in ToSet(listeners)
    BY DEF Joined
  <2> QED BY <1>1, <2>2, <2>3, <2>4
<1> QED BY <1>1, <1>3, <1>4

\* The innermost emit notes whom it called.
LEMMA CalledIs ==
  ASSUME StoresInv, rounds # <<>>, Waiting # <<>>
  PROVE  /\ Called \in Seq(RoundRecords) /\ Len(Called) = Len(rounds) /\ Called # <<>>
         /\ \A i \in 1..(Len(rounds) - 1) : Called[i] = rounds[i]
         /\ Called[Len(rounds)].event = rounds[Len(rounds)].event
         /\ Called[Len(rounds)].called = rounds[Len(rounds)].called \cup {Head(Waiting)}
<1> DEFINE n == Len(rounds)
           r == [rounds[n] EXCEPT !.called = @ \cup {Head(Waiting)}]
<1>1. rounds \in Seq(RoundRecords) /\ n \in 1..Len(rounds) /\ rounds[n] \in RoundRecords
  BY DEF StoresInv
<1>2. Head(Waiting) \in Stores \cup {App}
  BY WaitingIs
<1>3. /\ r \in RoundRecords /\ r.event = rounds[n].event
      /\ r.called = rounds[n].called \cup {Head(Waiting)}
  BY <1>1, <1>2 DEF RoundRecords
<1>4. Called = [rounds EXCEPT ![n] = r]
  BY DEF Called
<1> HIDE DEF r
<1> QED BY <1>1, <1>3, <1>4

LEMMA JoinedAfter ==
  ASSUME NEW e \in Stores \cup {App}, listeners \in Seq(Stores \cup {App}),
         listeners' = Append(listeners, e)
  PROVE  /\ listeners' \in Seq(Stores \cup {App})
         /\ Joined' = IF e \in Stores THEN Joined \cup {e} ELSE Joined
<1>1. /\ Len(listeners') = Len(listeners) + 1 /\ listeners'[Len(listeners) + 1] = e
      /\ \A i \in 1..Len(listeners) : listeners'[i] = listeners[i]
      /\ Len(listeners) \in Nat
  OBVIOUS
<1>2. /\ DOMAIN listeners' = DOMAIN listeners \cup {Len(listeners) + 1}
      /\ DOMAIN listeners = 1..Len(listeners)
  BY <1>1
<1>3. ToSet(listeners)' = ToSet(listeners) \cup {e}
  BY <1>1, <1>2 DEF ToSet
<1> QED BY <1>3 DEF Joined

LEMMA StoreJoins ==
  ASSUME StoresInv, NEW store \in Stores, Join(store)
  PROVE  StoresInv'
<1>1. /\ rounds = <<>> /\ store \notin Joined /\ listeners' = Append(listeners, store)
      /\ UNCHANGED <<slices, rounds>>
      /\ split' = (split \/ \E s \in Joined : slices[s] # initialRestorationSlice)
  BY DEF Join
<1>2. listeners' \in Seq(Stores \cup {App}) /\ Joined' = Joined \cup {store}
  BY <1>1, JoinedAfter DEF StoresInv
<1>3. split' \in BOOLEAN
  BY <1>1
<1>4. ASSUME ~split' PROVE Reconciled(Joined', slices', rounds')
  BY <1>1, <1>2, <1>4 DEF StoresInv, Reconciled, AllEqual
<1> QED BY <1>1, <1>2, <1>3, <1>4 DEF StoresInv

LEMMA AppComesAndGoes ==
  ASSUME StoresInv, AppSubscribes \/ AppUnsubscribes
  PROVE  StoresInv'
<1>1. UNCHANGED <<slices, rounds, split>>
  BY DEF AppSubscribes, AppUnsubscribes
<1>2. listeners' \in Seq(Stores \cup {App}) /\ Joined' = Joined
  <2>1. CASE AppSubscribes
    BY <2>1, JoinedAfter DEF AppSubscribes, StoresInv, App, Stores
  <2>2. CASE AppUnsubscribes
    <3>1. listeners \in Seq(Stores \cup {App}) /\ listeners' = Kept(listeners, Joined)
      BY <2>2 DEF AppUnsubscribes, StoresInv
    <3>2. listeners' \in Seq((Stores \cup {App}) \cap Joined)
      BY <3>1, KeptType
    <3>3. ASSUME NEW s \in Joined PROVE s \in ToSet(listeners)'
      <4>1. PICK j \in DOMAIN listeners : listeners[j] = s
        BY DEF Joined, ToSet
      <4>2. \E k \in DOMAIN listeners' : listeners'[k] = s
        BY <3>1, <3>3, <4>1, KeptMembers
      <4> QED BY <4>2 DEF ToSet
    <3>4. Joined' \subseteq Joined
      BY <3>2 DEF Joined, ToSet
    <3> QED BY <3>2, <3>3, <3>4 DEF Joined
  <2> QED BY <2>1, <2>2
<1> QED BY <1>1, <1>2 DEF StoresInv

\* A step that leaves the listeners alone.
LEMMA Heard ==
  ASSUME StoresInv, UNCHANGED listeners
  PROVE  Joined' = Joined /\ Joined \in SUBSET Stores
  BY DEF Joined

LEMMA EmitStarts ==
  ASSUME StoresInv, NEW event \in Events, EmitEvent(event)
  PROVE  StoresInv'
<1>1. /\ rounds = <<>> /\ rounds' = <<Round(event)>>
      /\ split' = (split /\ event # "reset") /\ UNCHANGED <<listeners, slices>>
  BY DEF EmitEvent
<1>2. Round(event) \in RoundRecords
  BY DEF Round, RoundRecords
<1>3. /\ rounds' \in Seq(RoundRecords) /\ Len(rounds') = 1 /\ rounds' # <<>>
      /\ rounds'[1] = Round(event) /\ split' \in BOOLEAN
  BY <1>1, <1>2 DEF StoresInv
<1>4. ASSUME ~split' PROVE Reconciled(Joined', slices', rounds')
  <2>1. AllEqual(Joined, slices) \/ event = "reset"
    BY <1>1, <1>4 DEF StoresInv, Reconciled
  <2>2. Coherent(Joined, slices, Round(event))
    BY <2>1, EmitBegins DEF StoresInv, Joined
  <2> QED BY <1>1, <1>3, <2>2, Heard DEF Reconciled
<1>5. Joined' = Joined
  BY <1>1, Heard
<1>6. /\ listeners' \in Seq(Stores \cup {App}) /\ slices' \in [Stores -> Slices]
      /\ \A s \in Stores \ Joined' : slices'[s] = initialRestorationSlice
  BY <1>1, <1>5 DEF StoresInv
<1> QED BY <1>1, <1>3, <1>4, <1>5, <1>6 DEF StoresInv

LEMMA ReducedSame ==
  ASSUME StoresInv, NEW store \in Stores, NEW e \in Events
  PROVE  /\ Reduced(store, e) = reduceRestoration(slices[store], e)
         /\ Reduced(store, e) \in Slices
<1>1. slices[store] \in Slices
  BY DEF StoresInv
<1>2. \/ Reduced(store, e) = reduceRestoration(slices[store], e)
      \/ Reduced(store, e) = restorationReducer(slices[store], eventToAction(e))
      \/ Reduced(store, e) = applyEvent(slices[store], e)
  BY DEF Reduced, Stores
<1> QED BY <1>1, <1>2, ReducersAgree

LEMMA StoreHears ==
  ASSUME StoresInv, NEW store \in Stores, StoreReduces(store)
  PROVE  StoresInv'
<1> DEFINE n == Len(rounds)
           r == rounds[n]
<1>1. /\ rounds # <<>> /\ Waiting # <<>> /\ Head(Waiting) = store
      /\ slices' = [slices EXCEPT ![store] = Reduced(store, r.event)]
      /\ rounds' = Called /\ UNCHANGED <<listeners, split>>
  BY DEF StoreReduces, NextIs, Last
<1>2. store \in Joined /\ store \notin r.called
  BY <1>1, WaitingIs DEF Joined
<1>3. rounds \in Seq(RoundRecords) /\ n \in 1..Len(rounds) /\ r \in RoundRecords
  BY <1>1 DEF StoresInv
<1>4. r.event \in Events
  BY <1>3 DEF RoundRecords
<1> HIDE DEF RoundRecords
<1>5. /\ Reduced(store, r.event) \in Slices
      /\ Reduced(store, r.event) = reduceRestoration(slices[store], r.event)
  BY <1>4, ReducedSame
<1>6. /\ slices' \in [Stores -> Slices]
      /\ \A s \in Stores : slices'[s] = IF s = store THEN reduceRestoration(slices[store], r.event)
                                        ELSE slices[s]
  BY <1>1, <1>5 DEF StoresInv
<1>7. /\ rounds' \in Seq(RoundRecords) /\ Len(rounds') = n /\ rounds' # <<>>
      /\ \A i \in 1..(n - 1) : rounds'[i] = rounds[i]
      /\ rounds'[n].event = r.event /\ rounds'[n].called = r.called \cup {store}
  BY <1>1, CalledIs
<1>8. ASSUME ~split' PROVE Reconciled(Joined, slices', rounds')
  <2>1. /\ \A i \in 1..(n - 1) : Joined \subseteq rounds[i].called
        /\ Coherent(Joined, slices, r)
    BY <1>1, <1>8 DEF StoresInv, Reconciled
  <2>2. PICK x \in Slices, y \in Slices :
          /\ Joined \ r.called # {} => y = reduceRestoration(x, r.event)
          /\ \A s \in Joined : IF s \in r.called THEN slices[s] = y
                               ELSE r.event = "reset" \/ slices[s] = x
    BY <2>1 DEF Coherent
  <2>3. y = reduceRestoration(x, r.event)
    BY <1>2, <2>2
  <2>4. reduceRestoration(slices[store], r.event) = y
    <3>1. CASE r.event = "reset"
      BY <2>3, <3>1 DEF reduceRestoration
    <3>2. CASE slices[store] = x
      BY <2>3, <3>2
    <3> QED BY <1>2, <2>2, <3>1, <3>2
  <2>5. Coherent(Joined, slices', rounds'[n])
    <3>1. \A s \in Joined : IF s \in rounds'[n].called THEN slices'[s] = y
                            ELSE rounds'[n].event = "reset" \/ slices'[s] = x
      BY <1>6, <1>7, <2>2, <2>4 DEF Joined
    <3>2. Joined \ rounds'[n].called # {} => y = reduceRestoration(x, rounds'[n].event)
      BY <1>7, <2>3
    <3> QED BY <3>1, <3>2 DEF Coherent
  <2> QED BY <1>7, <2>1, <2>5 DEF Reconciled
<1>9. \A s \in Stores \ Joined : slices'[s] = initialRestorationSlice
  BY <1>2, <1>6 DEF StoresInv
<1> QED BY <1>1, <1>6, <1>7, <1>8, <1>9, Heard DEF StoresInv

LEMMA AppCalled ==
  ASSUME StoresInv, NextIs(App)
  PROVE  /\ rounds # <<>>
         /\ Called \in Seq(RoundRecords) /\ Len(Called) = Len(rounds) /\ Called # <<>>
         /\ \A i \in 1..(Len(rounds) - 1) : Called[i] = rounds[i]
         /\ Called[Len(rounds)].event = rounds[Len(rounds)].event
         /\ Called[Len(rounds)].called = rounds[Len(rounds)].called \cup {App}
<1>1. rounds # <<>> /\ Waiting # <<>> /\ Head(Waiting) = App
  BY DEF NextIs
<1> QED BY <1>1, CalledIs

\* Calling the application changes nothing for the stores.
LEMMA AppIsNoStore ==
  ASSUME NEW J \in SUBSET Stores, NEW sl, NEW r, NEW q,
         q.event = r.event, q.called = r.called \cup {App}
  PROVE  /\ Coherent(J, sl, r) => Coherent(J, sl, q)
         /\ J \subseteq r.called => J \subseteq q.called
<1>1. \A s \in J : s \in q.called <=> s \in r.called
  BY DEF Stores, App
<1>2. J \ q.called = J \ r.called
  BY <1>1
<1> QED BY <1>1, <1>2 DEF Coherent

LEMMA AppHears ==
  ASSUME StoresInv, AppListens
  PROVE  StoresInv'
<1> DEFINE n == Len(rounds)
<1>1. rounds' = Called /\ UNCHANGED <<listeners, slices, split>> /\ NextIs(App)
  BY DEF AppListens
<1>2. /\ rounds # <<>> /\ rounds' \in Seq(RoundRecords) /\ Len(rounds') = n /\ rounds' # <<>>
      /\ \A i \in 1..(n - 1) : rounds'[i] = rounds[i]
      /\ rounds'[n].event = rounds[n].event
      /\ rounds'[n].called = rounds[n].called \cup {App}
  BY <1>1, AppCalled
<1>3. Joined' = Joined /\ Joined \in SUBSET Stores
  BY <1>1, Heard
<1>4. ASSUME ~split' PROVE Reconciled(Joined, slices, rounds')
  <2>1. /\ \A i \in 1..(n - 1) : Joined \subseteq rounds[i].called
        /\ Coherent(Joined, slices, rounds[n])
    BY <1>1, <1>2, <1>4 DEF StoresInv, Reconciled
  <2>2. Coherent(Joined, slices, rounds'[n])
    BY <1>2, <1>3, <2>1, AppIsNoStore
  <2> QED BY <1>2, <2>1, <2>2 DEF Reconciled
<1> QED BY <1>1, <1>2, <1>3, <1>4 DEF StoresInv

\* While no emit was kept from a store, they all show one state.
LEMMA AllReached ==
  ASSUME StoresInv, rounds # <<>>, ~split, ~Unreached
  PROVE  /\ AllEqual(Joined, slices)
         /\ \A i \in 1..Len(rounds) : Joined \subseteq rounds[i].called
<1>1. \A i \in 1..Len(rounds) : Joined \subseteq rounds[i].called
  <2> SUFFICES ASSUME NEW i \in 1..Len(rounds) PROVE Joined \subseteq rounds[i].called
    OBVIOUS
  <2>1. rounds[i] \in ToSet(rounds)
    BY DEF ToSet, StoresInv
  <2> QED BY <2>1 DEF Unreached
<1>2. Len(rounds) \in 1..Len(rounds)
  BY DEF StoresInv
<1>3. Coherent(Joined, slices, rounds[Len(rounds)])
  BY DEF StoresInv, Reconciled
<1>4. Joined \subseteq Stores /\ slices \in [Stores -> Slices]
  BY DEF StoresInv, Joined
<1> QED BY <1>1, <1>2, <1>3, <1>4, NoneLeft

LEMMA AppNests ==
  ASSUME StoresInv, NEW event \in Events, AppEmits(event)
  PROVE  StoresInv'
<1> DEFINE n == Len(rounds)
<1>1. /\ rounds' = Append(Called, Round(event)) /\ UNCHANGED <<listeners, slices>>
      /\ split' = (split \/ Unreached) /\ NextIs(App)
  BY DEF AppEmits
<1>2. /\ rounds # <<>> /\ Called \in Seq(RoundRecords) /\ Len(Called) = n
      /\ \A i \in 1..(n - 1) : Called[i] = rounds[i]
      /\ Called[n].called = rounds[n].called \cup {App}
  BY <1>1, AppCalled
<1>3. Joined' = Joined /\ Joined \in SUBSET Stores
  BY <1>1, Heard
<1>4. Round(event) \in RoundRecords
  BY DEF Round, RoundRecords
<1> HIDE DEF RoundRecords
<1>5. n \in Nat /\ n > 0
  BY <1>2 DEF StoresInv
<1>6. /\ rounds' \in Seq(RoundRecords) /\ Len(rounds') = n + 1 /\ rounds' # <<>>
      /\ \A i \in 1..n : rounds'[i] = Called[i]
      /\ rounds'[n + 1] = Round(event)
  BY <1>1, <1>2, <1>4, <1>5
<1>7. split' \in BOOLEAN
  BY <1>1
<1>8. ASSUME ~split' PROVE Reconciled(Joined, slices, rounds')
  <2>1. /\ AllEqual(Joined, slices)
        /\ \A i \in 1..n : Joined \subseteq rounds[i].called
    BY <1>1, <1>2, <1>8, AllReached
  <2>2. \A i \in 1..n : i \in 1..(n - 1) \/ i = n
    BY <1>5
  <2>3. \A i \in 1..n : Joined \subseteq rounds'[i].called
    BY <1>2, <1>6, <2>1, <2>2
  <2>4. Coherent(Joined, slices, Round(event))
    BY <1>3, <2>1, EmitBegins DEF StoresInv
  <2>5. Len(rounds') - 1 = n
    BY <1>5, <1>6
  <2> QED BY <1>6, <2>3, <2>4, <2>5 DEF Reconciled
<1> QED BY <1>1, <1>3, <1>6, <1>7, <1>8 DEF StoresInv

LEMMA AppGivesUp ==
  ASSUME StoresInv, AppThrows
  PROVE  StoresInv'
<1>1. /\ rounds' = <<>> /\ UNCHANGED <<listeners, slices>>
      /\ split' = (split \/ Unreached) /\ NextIs(App)
  BY DEF AppThrows
<1>2. rounds # <<>>
  BY <1>1 DEF NextIs
<1>3. Joined' = Joined
  BY <1>1, Heard
<1>4. ASSUME ~split' PROVE Reconciled(Joined, slices, rounds')
  BY <1>1, <1>2, <1>4, AllReached DEF Reconciled
<1> QED BY <1>1, <1>3, <1>4 DEF StoresInv

LEMMA FrontIs ==
  ASSUME NEW E, NEW s \in Seq(E), s # <<>>
  PROVE  LET t == SubSeq(s, 1, Len(s) - 1)
         IN  /\ t \in Seq(E) /\ Len(t) = Len(s) - 1
             /\ \A i \in 1..(Len(s) - 1) : t[i] = s[i]
<1>1. Len(s) \in Nat /\ Len(s) > 0
  OBVIOUS
<1> DEFINE n == Len(s) - 1
           t == SubSeq(s, 1, n)
<1>2. 1 \in Int /\ n \in Int /\ \A i \in 1..n : s[i] \in E
  BY <1>1
<1> HIDE DEF n
<1>3. /\ t \in Seq(E) /\ Len(t) = IF 1 <= n THEN n - 1 + 1 ELSE 0
      /\ \A i \in 1..(n - 1 + 1) : t[i] = s[1 + i - 1]
  BY <1>2, SubSeqProperties
<1> HIDE DEF t
<1>4. n \in Nat /\ \A i \in 1..n : 1 + i - 1 = i
  BY <1>1 DEF n
<1>5. t \in Seq(E) /\ Len(t) = n /\ \A i \in 1..n : t[i] = s[i]
  BY <1>3, <1>4
<1> QED BY <1>5 DEF n, t

LEMMA Returned ==
  ASSUME StoresInv, EmitReturns
  PROVE  StoresInv'
<1> DEFINE n == Len(rounds)
<1>1. /\ rounds # <<>> /\ Waiting = <<>> /\ rounds' = SubSeq(rounds, 1, n - 1)
      /\ UNCHANGED <<listeners, slices, split>>
  BY DEF EmitReturns, Front
<1>2. rounds \in Seq(RoundRecords) /\ n \in Nat /\ n > 0
  BY <1>1 DEF StoresInv
<1> HIDE DEF RoundRecords
<1>3. /\ rounds' \in Seq(RoundRecords) /\ Len(rounds') = n - 1
      /\ \A i \in 1..(n - 1) : rounds'[i] = rounds[i]
  BY <1>1, <1>2, FrontIs
<1>4. Joined' = Joined /\ Joined \subseteq Stores
  BY <1>1, Heard
<1>5. ASSUME ~split' PROVE Reconciled(Joined, slices, rounds')
  <2>1. /\ \A i \in 1..(n - 1) : Joined \subseteq rounds[i].called
        /\ Coherent(Joined, slices, rounds[n])
    BY <1>1, <1>5 DEF StoresInv, Reconciled
  <2>2. Joined \subseteq rounds[n].called
    BY <1>1, WaitingIs
  <2>3. AllEqual(Joined, slices)
    BY <1>4, <2>1, <2>2, NoneLeft DEF StoresInv
  <2>4. CASE n = 1
    BY <1>3, <2>3, <2>4 DEF Reconciled
  <2>5. CASE n > 1
    <3>1. n - 1 \in 1..(n - 1) /\ rounds' # <<>>
      BY <1>2, <1>3, <2>5
    <3>2. Coherent(Joined, slices, rounds'[n - 1])
      BY <1>3, <1>4, <2>1, <2>3, <3>1, NoneLeft DEF StoresInv
    <3>3. \A i \in 1..(n - 1 - 1) : Joined \subseteq rounds'[i].called
      BY <1>2, <1>3, <2>1
    <3>4. Len(rounds') = n - 1
      BY <1>3
    <3>5. \A i \in 1..(Len(rounds') - 1) : Joined \subseteq rounds'[i].called
      BY <3>3, <3>4
    <3>6. Coherent(Joined, slices, rounds'[Len(rounds')])
      BY <3>2, <3>4
    <3> QED BY <3>1, <3>5, <3>6, Zenon DEF Reconciled
  <2>6. n = 1 \/ n > 1
    <3>1. n \in Nat /\ n > 0
      BY <1>2
    <3> HIDE DEF n
    <3> QED BY <3>1
  <2> QED BY <2>4, <2>5, <2>6, Zenon
<1> QED BY <1>1, <1>3, <1>4, <1>5 DEF StoresInv

LEMMA StoresStep ==
  ASSUME StoresInv, [StoresNext]_storesVars
  PROVE  StoresInv'
<1>1. CASE UNCHANGED storesVars
  <2>1. UNCHANGED <<listeners, slices, rounds, split>>
    BY <1>1 DEF storesVars
  <2>2. Joined' = Joined
    BY <2>1, Heard
  <2>3. Reconciled(Joined, slices, rounds)' = Reconciled(Joined, slices, rounds)
    BY <2>1, <2>2 DEF Reconciled, AllEqual, Coherent
  <2> QED BY <2>1, <2>2, <2>3 DEF StoresInv
<1>2. ASSUME NEW store \in Stores, Join(store) \/ StoreReduces(store)
      PROVE  StoresInv'
  BY <1>2, StoreJoins, StoreHears
<1>3. CASE AppSubscribes \/ AppUnsubscribes
  BY <1>3, AppComesAndGoes
<1>4. CASE AppListens \/ AppThrows
  BY <1>4, AppHears, AppGivesUp
<1>5. ASSUME NEW event \in Events, EmitEvent(event) \/ AppEmits(event)
      PROVE  StoresInv'
  BY <1>5, EmitStarts, AppNests
<1>6. CASE EmitReturns
  BY <1>6, Returned
<1> QED BY <1>1, <1>2, <1>3, <1>4, <1>5, <1>6 DEF StoresNext

\* However the emissions of the application nest, and whoever throws, the
\* stores of one bus agree between two events.
THEOREM StoresStayTogether == FrontEndSpec => []StoresAgree
<1>1. FrontEndInit => StoresInv
  <2> SUFFICES ASSUME StoresInit PROVE StoresInv
    BY DEF FrontEndInit
  <2>1. Joined = {} /\ initialRestorationSlice \in Slices
    BY DEF StoresInit, Joined, ToSet, initialRestorationSlice, Slices
  <2>2. /\ listeners \in Seq(Stores \cup {App}) /\ rounds \in Seq(RoundRecords)
        /\ split \in BOOLEAN /\ rounds = <<>>
        /\ slices = [s \in Stores |-> initialRestorationSlice]
    <3>1. /\ listeners = <<>> /\ rounds = <<>> /\ split = FALSE
          /\ slices = [s \in Stores |-> initialRestorationSlice]
      BY Zenon DEF StoresInit
    <3>2. listeners \in Seq(Stores \cup {App}) /\ rounds \in Seq(RoundRecords)
      <4> HIDE DEF RoundRecords
      <4> QED BY <3>1
    <3> QED BY <3>1, <3>2
  <2>3. /\ slices \in [Stores -> Slices]
        /\ \A s \in Stores \ Joined : slices[s] = initialRestorationSlice
    BY <2>1, <2>2
  <2>4. Reconciled(Joined, slices, rounds)
    BY <2>1, <2>2 DEF Reconciled, AllEqual
  <2> QED BY <2>2, <2>3, <2>4 DEF StoresInv
<1>2. StoresInv /\ [FrontEndNext]_frontEndVars => StoresInv'
  BY PartsStep, StoresStep
<1>3. StoresInv => StoresAgree
  BY DEF StoresInv, StoresAgree, Reconciled, AllEqual
<1> QED BY <1>1, <1>2, <1>3, PTL DEF FrontEndSpec
=============================================================================
