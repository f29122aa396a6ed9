------------------------------ MODULE FrontEnd ------------------------------
(***************************************************************************)
(* The stateful parts that run in an application's page around the client: *)
(* the wallet context, the progress hook, the stores and the hook of       *)
(* packages/react, the composables of packages/vue, packages/svelte and    *)
(* packages/angular, the WalletConnect adapter, the telemetry, and the     *)
(* wallet manager with its adapters.                                       *)
(* They share no state, so a behaviour looks at one of them.               *)
(***************************************************************************)
EXTENDS WalletProvider, RestoreComposable, Progress, RestorationStores,
        HookCache, WalletConnect, TelemetryConsent, WalletManager

VARIABLE part   \* the part that this behaviour uses

frontEndVars == <<part, providerVars, composableVars, progressVars, storesVars,
                  hookVars, walletConnectVars, telemetryVars, vars>>

Parts == {"wallets", "restore", "progress", "stores", "hook", "walletConnect",
          "telemetry", "manager"}

FrontEndTypeOK ==
  /\ part \in Parts
  /\ ProviderTypeOK /\ ComposableTypeOK /\ ProgressTypeOK /\ StoresTypeOK
  /\ HookTypeOK /\ WalletConnectTypeOK /\ TelemetryTypeOK
  /\ TypeOK

FrontEndInit ==
  /\ part \in Parts
  /\ ProviderInit /\ ComposableInit /\ ProgressInit /\ StoresInit
  /\ HookInit /\ WalletConnectInit /\ TelemetryInit
  /\ Init
  /\ part # "wallets" => stored = NoId
  /\ part # "manager" => freighter = LoadedPage(FALSE)

UsesWallets ==
  /\ part = "wallets" /\ ProviderNext
  /\ UNCHANGED <<part, composableVars, progressVars, storesVars, hookVars,
                 walletConnectVars, telemetryVars, vars>>

UsesRestore ==
  /\ part = "restore" /\ ComposableNext
  /\ UNCHANGED <<part, providerVars, progressVars, storesVars, hookVars,
                 walletConnectVars, telemetryVars, vars>>

ReportsProgress ==
  /\ part = "progress" /\ ProgressNext
  /\ UNCHANGED <<part, providerVars, composableVars, storesVars, hookVars,
                 walletConnectVars, telemetryVars, vars>>

KeepsStores ==
  /\ part = "stores" /\ StoresNext
  /\ UNCHANGED <<part, providerVars, composableVars, progressVars, hookVars,
                 walletConnectVars, telemetryVars, vars>>

UsesHook ==
  /\ part = "hook" /\ HookNext
  /\ UNCHANGED <<part, providerVars, composableVars, progressVars, storesVars,
                 walletConnectVars, telemetryVars, vars>>

UsesWalletConnect ==
  /\ part = "walletConnect" /\ WalletConnectNext
  /\ UNCHANGED <<part, providerVars, composableVars, progressVars, storesVars,
                 hookVars, telemetryVars, vars>>

SendsTelemetry ==
  /\ part = "telemetry" /\ TelemetryNext
  /\ UNCHANGED <<part, providerVars, composableVars, progressVars, storesVars,
                 hookVars, walletConnectVars, vars>>

pageVars == <<part, providerVars, composableVars, progressVars, storesVars,
              hookVars, walletConnectVars, telemetryVars>>

ManagesWallets == part = "manager" /\ Next /\ UNCHANGED pageVars

FrontEndNext ==
  \/ UsesWallets \/ UsesRestore \/ ReportsProgress \/ KeepsStores
  \/ UsesHook \/ UsesWalletConnect \/ SendsTelemetry
  \/ ManagesWallets

\* Timers fire; the wallets and the user promise nothing.
FrontEndSpec ==
  /\ FrontEndInit /\ [][FrontEndNext]_frontEndVars
  /\ \A c \in Connects :
       WF_providerVars(part = "wallets" /\ ConnectionTimeout(c))
  /\ \A c \in Calls :
       /\ WF_vars(part = "manager" /\ ConnectTimesOut(c))
       /\ WF_vars(part = "manager" /\ IframeTimesOut(c))
=============================================================================
