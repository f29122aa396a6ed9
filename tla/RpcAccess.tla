----------------------------- MODULE RpcAccess ------------------------------
(***************************************************************************)
(* Three layers between the client and its nodes: the failover between     *)
(* endpoints and the transport with its limiter and its retries of         *)
(* packages/rpc, and the ledger reads that concurrent calls of             *)
(* packages/sdk share.  They share no state, so a behaviour looks at one.  *)
(***************************************************************************)
EXTENDS RpcFailover, RpcTransport, LedgerReads

VARIABLE layer   \* the one that this behaviour uses

accessVars == <<layer, failoverVars, vars, readVars>>

Layers == {"failover", "transport", "reads"}

AccessTypeOK ==
  layer \in Layers /\ FailoverTypeOK /\ TypeOK /\ ReadTypeOK

AccessInit == layer \in Layers /\ FailoverInit /\ Init /\ ReadInit

InFailover  == layer = "failover" /\ FailoverNext /\ UNCHANGED <<layer, vars, readVars>>
InTransport == layer = "transport" /\ Next /\ UNCHANGED <<layer, failoverVars, readVars>>
InReads     == layer = "reads" /\ ReadNext /\ UNCHANGED <<layer, failoverVars, vars>>

AccessNext == InFailover \/ InTransport \/ InReads

\* The interval fires, checks settle and requests end; fetch settles and the
\* timers of the transport fire; shared requests are answered or fail.
AccessFairness ==
  /\ \A r \in Rounds :
       /\ WF_failoverVars(layer = "failover" /\ HealthTick(r))
       /\ WF_failoverVars(layer = "failover" /\ CheckEndpoint(r))
  /\ \A c \in Calls :
       /\ WF_failoverVars(layer = "failover" /\ Answer(c))
       /\ WF_failoverVars(layer = "failover" /\ Report(c))
  /\ WF_vars(layer = "transport" /\ Tick)
  /\ \A c \in Callers :
       /\ WF_vars(layer = "transport" /\ (Settle(c) \/ Fail(c)))
       /\ WF_vars(layer = "transport" /\ Wake(c))
  /\ \A r \in Reads : WF_readVars(layer = "reads" /\ SettleRead(r))

AccessSpec == AccessInit /\ [][AccessNext]_accessVars /\ AccessFairness
=============================================================================
