---------------------------- MODULE RabetAdapter ----------------------------
(***************************************************************************)
(* The iframe transport of RabetAdapter in                                 *)
(* packages/wallet-adapters/src/adapters/rabet.ts.  One request per call.  *)
(***************************************************************************)
EXTENDS FiniteSets

CONSTANTS Calls, NoCall

ASSUME RabetAssumption == NoCall \notin Calls

\* handler: this.messageHandler, by the request that set it;
\* timers: requests whose 30 s timer runs, which are the unsettled ones;
\* listening: requests whose listener is still on the window;
\* orphans: unsettled requests whose iframe has been removed.
Iframes ==
  [mode : {"none", "extension", "iframe"}, key : BOOLEAN, iframe : BOOLEAN,
   handler : Calls \cup {NoCall},
   timers : SUBSET Calls, listening : SUBSET Calls, orphans : SUBSET Calls]

NoIframe ==
  [mode |-> "none", key |-> FALSE, iframe |-> FALSE, handler |-> NoCall,
   timers |-> {}, listening |-> {}, orphans |-> {}]

\* postToIframe with getOrCreateIframe.
Post(r, c) ==
  [r EXCEPT !.iframe = TRUE, !.handler = c,
            !.timers = @ \cup {c}, !.listening = @ \cup {c}]

\* cleanup forgets the handler, whosever it is.
Cleanup(r, c) ==
  [r EXCEPT !.handler = NoCall, !.timers = @ \ {c},
            !.listening = @ \ {c}, !.orphans = @ \ {c}]

\* teardownIframe removes the latest handler and the iframe of every request.
Teardown(r) ==
  [r EXCEPT !.handler = NoCall, !.listening = @ \ {r.handler},
            !.iframe = FALSE,
            !.orphans = IF r.iframe THEN r.timers ELSE @]

\* The answer of the iframe reaches its listener.
CanAnswer(r, c) == c \in r.listening \ r.orphans
\* Mutation: the timer goes with the listener.
ListenersTimer(r, c) == c \in r.timers \cap r.listening
CanTimeOut(r, c) == c \in r.timers

\* disconnect.  The mode is looked at before the await, so when the extension
\* has been waited for an iframe that was made meanwhile stays.
Left(r, waited) ==
  [(IF r.mode = "iframe" /\ ~waited THEN Teardown(r) ELSE r) EXCEPT
     !.mode = "none", !.key = FALSE]
=============================================================================
