---------------------------- MODULE WalletConnect ---------------------------
(***************************************************************************)
(* WalletConnectAdapter of packages/sdk/src/walletconnect-adapter.ts:      *)
(* connect waits for its client, for a pairing, for the QR modal and for a *)
(* session proposal, and each wait lets other calls in.  The handlers of   *)
(* session_proposal are never removed, so that every connect of a client   *)
(* answers every proposal.                                                 *)
(*                                                                         *)
(* The relay and the wallet are external: they propose, approve, refuse,   *)
(* expire and answer as they like.  A session is a number, and its account *)
(* is known by that number.                                                *)
(***************************************************************************)
EXTENDS Naturals

CONSTANTS
  Pairings,      \* calls of connect
  MaxSessions    \* bound: sessions approved

ASSUME WalletConnectAssumption == MaxSessions \in Nat

VARIABLES
  wcClient,      \* client: a client, or None
  clients,       \* clients created by Web3Wallet.init so far
  session, connectedAccount,
  pairing,       \* [Pairings -> where connect is, its client]
  handlers,      \* the connects whose handler listens, each on its client
  approvals,     \* approveSession calls under way: the connects they belong to
  approved,      \* sessions approved so far
  leaving,       \* the topics of the disconnectSession calls under way
  request,       \* the topic and account of the last signAndSubmit
  bare           \* history: the adapter took a session without an account

walletConnectVars ==
  <<wcClient, clients, session, connectedAccount, pairing, handlers, approvals,
    approved, leaving, request, bare>>

None == 0

Stages == {"idle", "loading", "pairing", "modal", "awaiting", "connected", "failed"}

WalletConnectTypeOK ==
  /\ clients \in Nat /\ wcClient \in 0..clients
  /\ session \in 0..MaxSessions /\ connectedAccount \in 0..MaxSessions
  /\ pairing \in [Pairings -> [stage : Stages, client : 0..clients]]
  /\ handlers \subseteq Pairings /\ approvals \subseteq Pairings
  /\ approved \in 0..MaxSessions
  /\ leaving \subseteq 1..MaxSessions
  /\ request \in [topic : 0..MaxSessions, account : 0..MaxSessions]
  /\ bare \in BOOLEAN

-----------------------------------------------------------------------------
Goes(p, stage) == pairing' = [pairing EXCEPT ![p].stage = stage]
At(p, stage)   == pairing[p].stage = stage

\* connect with getClient: a client that exists is used, and without one
\* every connect creates its own.
ConnectBegins(p) ==
  /\ At(p, "idle")
  /\ pairing' = [pairing EXCEPT ![p] =
       [stage |-> IF wcClient = None THEN "loading" ELSE "pairing", client |-> wcClient]]
  /\ UNCHANGED <<wcClient, clients, session, connectedAccount, handlers, approvals,
                 approved, leaving, request, bare>>

\* Web3Wallet.init answers; the last client to come is kept.
ClientLoads(p) ==
  /\ At(p, "loading")
  /\ clients' = clients + 1 /\ wcClient' = clients + 1
  /\ pairing' = [pairing EXCEPT ![p] = [stage |-> "pairing", client |-> clients + 1]]
  /\ UNCHANGED <<session, connectedAccount, handlers, approvals, approved, leaving,
                 request, bare>>

\* pairing.create, and showPairingUri, which may have nothing to wait for.
PairingCreated(p) ==
  /\ At(p, "pairing") /\ Goes(p, "modal")
  /\ UNCHANGED <<wcClient, clients, session, connectedAccount, handlers, approvals,
                 approved, leaving, request, bare>>

\* awaitSessionApproval registers its handler.
AwaitSessionApproval(p) ==
  /\ At(p, "modal") /\ Goes(p, "awaiting")
  /\ handlers' = handlers \cup {p}
  /\ UNCHANGED <<wcClient, clients, session, connectedAccount, approvals, approved,
                 leaving, request, bare>>

\* The client, the pairing or the modal fails.
ConnectFails(p) ==
  /\ pairing[p].stage \in {"loading", "pairing", "modal"} /\ Goes(p, "failed")
  /\ UNCHANGED <<wcClient, clients, session, connectedAccount, handlers, approvals,
                 approved, leaving, request, bare>>

\* session_proposal reaches every handler of the client, which all approve
\* it; a handler answers one proposal at a time.
SessionProposal(c) ==
  LET hear == {p \in handlers : pairing[p].client = c}
  IN  /\ hear # {} /\ hear \cap approvals = {}
      /\ approvals' = approvals \cup hear
      /\ UNCHANGED <<wcClient, clients, session, connectedAccount, pairing, handlers,
                     approved, leaving, request, bare>>

\* Mutation: a later session keeps the account of the earlier one.
FirstAccount(hasAccount) ==
  IF connectedAccount = None /\ hasAccount THEN approved + 1 ELSE connectedAccount
\* The account of the session that is being approved, when it has one.
AccountOf(hasAccount) ==
  IF hasAccount THEN approved + 1 ELSE connectedAccount

\* connect takes the session first and looks for its account afterwards; an
\* account that is malformed fails the connect too.
Takes(p, hasAccount) ==
  /\ session' = approved + 1
  /\ connectedAccount' = AccountOf(hasAccount)
  /\ bare' = (bare \/ ~hasAccount)
  /\ \/ hasAccount /\ Goes(p, "connected")
     \/ Goes(p, "failed")

\* approveSession resolves: the connect goes on, or has long ended.
ApprovalSucceeds(p) ==
  /\ p \in approvals /\ approved < MaxSessions
  /\ approvals' = approvals \ {p}
  /\ approved' = approved + 1
  /\ IF At(p, "awaiting")
     THEN \E hasAccount \in BOOLEAN : Takes(p, hasAccount)
     ELSE UNCHANGED <<session, connectedAccount, pairing, bare>>
  /\ UNCHANGED <<wcClient, clients, handlers, leaving, request>>

\* approveSession rejects; after rejectSession the connect rejects too.
ApprovalFails(p) ==
  /\ p \in approvals
  /\ approvals' = approvals \ {p}
  /\ IF At(p, "awaiting") THEN Goes(p, "failed") ELSE UNCHANGED pairing
  /\ UNCHANGED <<wcClient, clients, session, connectedAccount, handlers, approved,
                 leaving, request, bare>>

\* disconnect, before and after disconnectSession.
DisconnectBegins ==
  /\ wcClient # None /\ session # None
  /\ leaving' = leaving \cup {session}
  /\ UNCHANGED <<wcClient, clients, session, connectedAccount, pairing, handlers,
                 approvals, approved, request, bare>>

DisconnectEnds(topic) ==
  /\ topic \in leaving
  /\ leaving' = leaving \ {topic}
  /\ session' = None /\ connectedAccount' = None
  /\ UNCHANGED <<wcClient, clients, pairing, handlers, approvals, approved, request, bare>>

\* signAndSubmit without accountToSign: requireSession, and
\* resolveCaip10Account, which throws when there is no account at all.
SignAndSubmit ==
  /\ wcClient # None /\ session # None /\ connectedAccount # None
  /\ request' = [topic |-> session, account |-> connectedAccount]
  /\ UNCHANGED <<wcClient, clients, session, connectedAccount, pairing, handlers,
                 approvals, approved, leaving, bare>>

WalletConnectInit ==
  /\ wcClient = None /\ clients = 0 /\ session = None /\ connectedAccount = None
  /\ pairing = [p \in Pairings |-> [stage |-> "idle", client |-> None]]
  /\ handlers = {} /\ approvals = {} /\ approved = 0 /\ leaving = {}
  /\ request = [topic |-> None, account |-> None] /\ bare = FALSE

WalletConnectNext ==
  \/ \E p \in Pairings :
       \/ ConnectBegins(p) \/ ClientLoads(p) \/ PairingCreated(p)
       \/ AwaitSessionApproval(p) \/ ConnectFails(p)
       \/ ApprovalSucceeds(p) \/ ApprovalFails(p)
  \/ \E c \in 1..clients : SessionProposal(c)
  \/ DisconnectBegins
  \/ \E topic \in leaving : DisconnectEnds(topic)
  \/ SignAndSubmit

-----------------------------------------------------------------------------

\* However connects, disconnects and proposals overlap, what is signed and
\* submitted without naming an account names the account of the session it
\* is sent to, unless a session without an account was ever approved.
RequestsNameTheirSession ==
  ~bare => request.account = request.topic
=============================================================================
