------------------------------ MODULE HookCache -----------------------------
(***************************************************************************)
(* The client and the simulation cache of the React hook                   *)
(* (packages/react/src/useSorobanResurrect.ts): checkTransaction hashes    *)
(* the transaction, looks in the cache and simulates, with the getClient   *)
(* of the render it was made in, while both refs are shared by all         *)
(* renders.  The hook has no client from a context here.                   *)
(*                                                                         *)
(* A configuration is a number, and the latest is that of the current      *)
(* render; what a client answers is known by the configuration it has.     *)
(***************************************************************************)
EXTENDS Naturals

CONSTANTS
  Txs,           \* transactions
  Checks,        \* calls of checkTransaction that may be under way together
  CacheTtl,      \* CACHE_TTL_MS, in ticks
  MaxConfigs,    \* bound: configurations
  MaxChecks,     \* bound: calls begun
  MaxHookTime    \* bound: ticks

ASSUME HookAssumption ==
  /\ CacheTtl \in Nat /\ MaxConfigs \in Nat \ {0}
  /\ MaxChecks \in Nat /\ MaxHookTime \in Nat

VARIABLES
  config,        \* the configuration of the current render
  clientRef,     \* the configuration of the client, or NoClient
  simulations,   \* simulationCacheRef
  checks,        \* the calls
  checked, hookTime,
  shows,         \* the configuration whose answer the last call has shown
  \* History: since the configuration changed, a call of checkTransaction that
  \* was made by an older render was under way.
  outdated

hookVars ==
  <<config, clientRef, simulations, checks, checked, hookTime, shows, outdated>>

NoClient == 0

NoSimulation == [client |-> NoClient, expiresAt |-> 0]
NotChecking(tx) == [stage |-> "idle", tx |-> tx, config |-> NoClient, client |-> NoClient,
             forceRefresh |-> FALSE]

HookTypeOK ==
  /\ config \in 1..MaxConfigs /\ clientRef \in 0..MaxConfigs
  /\ simulations \in [Txs -> [client : 0..MaxConfigs, expiresAt : 0..(MaxHookTime + CacheTtl)]]
  /\ checks \in [Checks -> [stage : {"idle", "hashing", "simulating"}, tx : Txs,
                            config : 0..MaxConfigs, client : 0..MaxConfigs,
                            forceRefresh : BOOLEAN]]
  /\ checked \in 0..MaxChecks /\ hookTime \in 0..MaxHookTime
  /\ shows \in 0..MaxConfigs /\ outdated \in BOOLEAN

-----------------------------------------------------------------------------

\* Mutation: the answers of the previous configuration stay.
Uncleared == simulations
Cleared == [tx \in Txs |-> NoSimulation]

\* A render with another configKey.
ConfigChanges ==
  /\ config < MaxConfigs /\ config' = config + 1
  /\ clientRef' = NoClient
  /\ simulations' = Cleared
  /\ outdated' = (\E k \in Checks : checks[k].stage # "idle")
  /\ UNCHANGED <<checks, checked, hookTime, shows>>

\* checkTransaction, as the current or an older render has made it, awaits
\* hashTxXDR.
HookChecks(k, tx, forceRefresh, render) ==
  /\ checks[k].stage = "idle" /\ checked < MaxChecks
  /\ checked' = checked + 1
  /\ checks' = [checks EXCEPT ![k] =
       [NotChecking(tx) EXCEPT !.stage = "hashing", !.config = render,
                        !.forceRefresh = forceRefresh]]
  /\ outdated' = (outdated \/ render # config)
  /\ UNCHANGED <<config, clientRef, simulations, hookTime, shows>>

Servable(tx) == simulations[tx].client # NoClient /\ simulations[tx].expiresAt > hookTime

HookHit(k) ==
  LET tx == checks[k].tx
  IN  /\ checks[k].stage = "hashing" /\ ~checks[k].forceRefresh /\ Servable(tx)
      /\ checks' = [checks EXCEPT ![k] = NotChecking(tx)]
      /\ shows' = simulations[tx].client
      /\ UNCHANGED <<config, clientRef, simulations, checked, hookTime, outdated>>

\* getClient: a client is made of the configuration of the call's render.
HookMiss(k) ==
  /\ checks[k].stage = "hashing" /\ (checks[k].forceRefresh \/ ~Servable(checks[k].tx))
  /\ clientRef' = IF clientRef = NoClient THEN checks[k].config ELSE clientRef
  /\ checks' = [checks EXCEPT ![k].stage = "simulating", ![k].client = clientRef']
  /\ UNCHANGED <<config, simulations, checked, hookTime, shows, outdated>>

HookSimulated(k) ==
  LET tx == checks[k].tx
  IN  /\ checks[k].stage = "simulating"
      /\ simulations' = [simulations EXCEPT ![tx] =
           [client |-> checks[k].client, expiresAt |-> hookTime + CacheTtl]]
      /\ shows' = checks[k].client
      /\ checks' = [checks EXCEPT ![k] = NotChecking(tx)]
      /\ UNCHANGED <<config, clientRef, checked, hookTime, outdated>>

HookFails(k) ==
  /\ checks[k].stage = "simulating"
  /\ checks' = [checks EXCEPT ![k] = NotChecking(checks[k].tx)]
  /\ UNCHANGED <<config, clientRef, simulations, checked, hookTime, shows, outdated>>

HookTick ==
  /\ hookTime < MaxHookTime /\ hookTime' = hookTime + 1
  /\ UNCHANGED <<config, clientRef, simulations, checks, checked, shows, outdated>>

HookInit ==
  /\ config = 1 /\ clientRef = NoClient /\ simulations = [tx \in Txs |-> NoSimulation]
  /\ checks = [k \in Checks |-> NotChecking(CHOOSE tx \in Txs : TRUE)]
  /\ checked = 0 /\ hookTime = 0 /\ shows = NoClient /\ outdated = FALSE

HookNext ==
  \/ ConfigChanges \/ HookTick
  \/ \E k \in Checks :
       \/ \E tx \in Txs, forceRefresh \in BOOLEAN, render \in 1..config :
            HookChecks(k, tx, forceRefresh, render)
       \/ HookHit(k) \/ HookMiss(k) \/ HookSimulated(k) \/ HookFails(k)

-----------------------------------------------------------------------------

\* Unless a call made by an older render was under way since the last change
\* of the configuration, calls use a client of the current configuration, and
\* everything in the cache that can still be served is an answer of such a
\* client, whatever older renders left behind before.
HookIsOfItsConfig ==
  ~outdated =>
    /\ clientRef \in {NoClient, config}
    /\ \A tx \in Txs : Servable(tx) => simulations[tx].client = config

\* What a comment says of every change: "When config changes (rpcUrl,
\* passphrase, etc.) we need a fresh client instance".
ClientIsFresh == clientRef \in {NoClient, config}
=============================================================================
