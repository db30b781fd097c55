--------------------------- MODULE UiBridgeCalls ----------------------------
(***************************************************************************)
(* The bridge on its own: a page that makes any calls, methods that answer *)
(* with the call they served, answers that get lost when the script cannot *)
(* be run, and pages that are loaded anew.                                 *)
(***************************************************************************)
EXTENDS UiBridge

CONSTANTS
  Calls,          \* what the page may ask for
  Awaiting,       \* the calls whose method awaits something before it returns
  MaxInjections   \* bound: page loads whose injection is still due

ASSUME CallsAssumption == None \notin Calls /\ Awaiting \subseteq Calls
ASSUME LoadsAssumption == MaxInjections \in Nat

VARIABLES
  outcome,   \* history: the last promise that settled, its call and the call that was answered
  hung       \* history: the calls of this page that no answer can reach any more

vars == <<bridgeVars, outcome, hung>>

Requests == [id : Ids, call : Calls, web : BOOLEAN]
Answers  == [id : Ids, ok : BOOLEAN, data : Calls]

TypeOK ==
  /\ platform \in {"browser", "webview"} /\ injections \in Nat
  /\ promise \in [Ids -> Calls \cup {None}] /\ pending \subseteq Ids /\ handler = None
  /\ toNative \in Seq(Requests) /\ http \subseteq Requests /\ running \subseteq Requests
  /\ fetched \subseteq Answers /\ toWeb \in Seq(Answers)
  /\ outcome \in [call : Calls, answered : Calls] \cup {None} /\ hung \subseteq Ids

Init == BridgeInit /\ outcome = None /\ hung = {}

(* invoke of window.ui *)
Invoke(i, call) ==
  /\ i \in FreeIds
  /\ Turn({}, <<Request(i, call)>>)
  /\ UNCHANGED <<handler, answerVars, outcome, hung>>

(* What the method returns is, for the bridge, the fact that it served this call. *)
Served(m) == [ok |-> TRUE, data |-> m.call]

Handle(m) ==
  /\ IF m.call \in Awaiting THEN BeginInvoke(m) ELSE HandleInvoke(m, Served(m))
  /\ UNCHANGED <<outcome, hung>>
Finish(m) == FinishInvoke(m, Served(m)) /\ UNCHANGED <<outcome, hung>>

(* InvokeScript throws: PostMessage logs the error, and that was the only copy of the answer. *)
LoseAnswer(m) ==
  /\ m.web
  /\ \/ Received(m) /\ m.call \notin Awaiting /\ UNCHANGED running
     \/ m \in running /\ running' = running \ {m} /\ UNCHANGED <<toNative, http>>
  /\ hung' = IF promise[m.id] = None THEN hung ELSE hung \cup {m.id}
  /\ UNCHANGED <<transportVars, promise, pending, handler, answerVars, outcome>>

(* The continuation of the promise runs: resolve or reject, then pending.delete. *)
Settle(m) ==
  /\ Arrives(m)
  /\ outcome' = [call |-> promise[m.id], answered |-> m.data]
  /\ Turn({m.id}, <<>>)
  /\ UNCHANGED <<handler, hung>>

Ignore == OnUnknownMessage /\ UNCHANGED <<outcome, hung>>

(* Calls made on a WebViewTransport that is replaced are known to nobody afterwards. *)
Inject == InjectBridge /\ hung' = hung \cup pending /\ UNCHANGED outcome

(* The page is loaded anew: its promises, fetches and window.ui are gone, the host's work is not. *)
Reload ==
  /\ injections < MaxInjections /\ injections' = injections + 1
  /\ platform' = "browser" /\ handler' = None
  /\ promise' = [i \in Ids |-> None] /\ pending' = {} /\ fetched' = {} /\ hung' = {}
  /\ UNCHANGED <<nativeVars, toWeb, outcome>>

Handling   == \E m \in Requests : Handle(m)
Finishing  == \E m \in running : Finish(m)
Settling   == \E m \in Answers : Settle(m)

Next ==
  \/ \E i \in Ids, call \in Calls : Invoke(i, call)
  \/ Handling \/ Finishing \/ Settling \/ Ignore
  \/ \E m \in Requests : LoseAnswer(m)
  \/ Inject \/ Reload

Spec == Init /\ [][Next]_vars

(***************************************************************************)
(* The UI thread and the server get round to every request, every method   *)
(* returns in the end, and the page runs every script and every response.  *)
(***************************************************************************)
Fairness ==
  /\ \A m \in Requests : WF_vars(Handle(m) \/ LoseAnswer(m)) /\ WF_vars(Finish(m))
  /\ \A m \in Answers : WF_vars(Settle(m))
  /\ WF_vars(Ignore)

FairSpec == Spec /\ Fairness

(* No two messages anywhere carry one id: a call is neither served nor answered twice. *)
OneMessage ==
  /\ \A k, l \in DOMAIN toNative : toNative[k].id = toNative[l].id => k = l
  /\ \A k, l \in DOMAIN toWeb : toWeb[k].id = toWeb[l].id => k = l
  /\ \A m, n \in http \cup running : m.id = n.id => m = n
  /\ \A m, n \in fetched : m.id = n.id => m = n
  /\ http \cap running = {}
  /\ IdsOf(toNative) \cap IdsOf(toWeb) = {}
  /\ {m.id : m \in http \cup running} \cap (IdsOf(toNative) \cup IdsOf(toWeb)) = {}
  /\ {m.id : m \in fetched}
       \cap (IdsOf(toNative) \cup IdsOf(toWeb) \cup {m.id : m \in http \cup running}) = {}

(***************************************************************************)
(* Whatever is on its way under the id of an unsettled promise is about the *)
(* call of that promise: across reloads and a change of the transport, no   *)
(* promise can get the answer to another call.                              *)
(***************************************************************************)
AnswerIsOwn ==
  /\ \A k \in DOMAIN toNative : promise[toNative[k].id] \in {None, toNative[k].call}
  /\ \A m \in http \cup running : promise[m.id] \in {None, m.call}
  /\ \A m \in fetched : promise[m.id] = m.data
  /\ \A k \in DOMAIN toWeb : promise[toWeb[k].id] \in {None, toWeb[k].data}

(***************************************************************************)
(* `pending` has no entry that leaks: each is the id of a promise that the  *)
(* page still waits on, made on the transport that is in place.             *)
(***************************************************************************)
PendingAwaited ==
  /\ platform = "browser" => pending = {}
  /\ \A i \in pending : promise[i] # None

(***************************************************************************)
(* An unsettled promise has its answer coming, unless the answer was lost   *)
(* or the bridge was injected a second time in the same page: nothing in    *)
(* bridge.ts times a call out, so these two are the only ways to hang.      *)
(***************************************************************************)
HangsOnlyIfLost == \A i \in Ids : promise[i] # None => i \in Carried \cup hung

(* Every call gets its answer in the end, but for those that hang. *)
EveryCallSettles == \A i \in Ids : promise[i] # None ~> (promise[i] = None \/ i \in hung)

(* The abstract view of a call: where it is, whatever transport carries it. *)
AskedIds  == IdsOf(toNative) \cup {m.id : m \in http \cup running}
ServedIds == IdsOf(toWeb) \cup {m.id : m \in fetched}
stage == [i \in Ids |-> IF i \in AskedIds THEN "asked"
                        ELSE IF i \in ServedIds THEN "served"
                        ELSE IF promise[i] # None THEN "lost" ELSE "idle"]
Says(i, c) ==
  \/ \E k \in DOMAIN toNative : toNative[k].id = i /\ toNative[k].call = c
  \/ \E m \in http \cup running : m.id = i /\ m.call = c
  \/ \E k \in DOMAIN toWeb : toWeb[k].id = i /\ toWeb[k].data = c
  \/ \E m \in fetched : m.id = i /\ m.data = c
CallOf(i) == CHOOSE c \in Calls : Says(i, c)
asked == [i \in Ids |-> IF i \in AskedIds \cup ServedIds THEN CallOf(i) ELSE None]

Remote == INSTANCE RemoteCalls WITH awaits <- promise

(* bridge.ts and the native transport together implement RemoteCalls. *)
ImplementsRemoteCalls == Remote!Spec
=============================================================================
