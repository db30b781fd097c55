------------------------------ MODULE UiBridge ------------------------------
(***************************************************************************)
(* The bridge between the Vue pages of VitrinRuntime and the services of   *)
(* the process that hosts them: Frontend/src/bridge.ts at the page's end,  *)
(* AvaloniaWebViewTransport and BridgeController at the native end.        *)
(*                                                                         *)
(* window.ui has one of two transports. BrowserTransport sends each call as *)
(* an HTTP request, which any thread of the server handles, in any order.  *)
(* WebViewTransport posts it to the UI thread of the host, which handles   *)
(* the messages in order and answers by running a script in the page; only *)
(* a method that awaits lets the next message pass. The page starts with   *)
(* BrowserTransport; the host injects the other one 300 ms after each load. *)
(*                                                                         *)
(* The module has the state and the steps of both ends. The modules that   *)
(* extend it make the calls and say what the methods do.                   *)
(***************************************************************************)
EXTENDS Naturals, Sequences, FiniteSets

CONSTANTS
  Ids,         \* request ids: random UUIDs, so one is used again only when nothing carries it
  None

ASSUME NoneIsNoId == None \notin Ids

VARIABLES
  platform,    \* window.platform, and with it the transport behind window.ui
  injections,  \* NavigationCompleted handlers that still wait before they inject the bridge
  promise,     \* the call of each id whose promise is not settled
  pending,     \* `pending` of the WebViewTransport
  handler,     \* the handler of TagValueChanged in `handlers` of the WebViewTransport
  toNative,    \* messages posted with invokeCSharpAction, not handled yet
  http,        \* HTTP requests not handled yet
  running,     \* requests whose method is awaiting
  fetched,     \* HTTP responses on their way
  toWeb        \* scripts `window.ui.onMessage(...)` not run yet

transportVars == <<platform, injections>>
nativeVars    == <<toNative, http, running>>
answerVars    == <<fetched, toWeb>>
bridgeVars    == <<transportVars, promise, pending, handler, nativeVars, answerVars>>

BridgeInit ==
  /\ platform = "browser" /\ injections = 1
  /\ promise = [i \in Ids |-> None] /\ pending = {} /\ handler = None
  /\ toNative = <<>> /\ http = {} /\ running = {} /\ fetched = {} /\ toWeb = <<>>

IdsOf(seq) == {seq[k].id : k \in DOMAIN seq}
Carried == IdsOf(toNative) \cup IdsOf(toWeb) \cup {m.id : m \in http \cup running \cup fetched}
\* a mutant: ids that are counted, and start over with each page
FreeIdsOfPage == {i \in Ids : promise[i] = None}
FreeIds == {i \in Ids : promise[i] = None /\ i \notin Carried}

(* One id is as good as another: where Ids are numbers, the least that is free. *)
NextId == CHOOSE i \in FreeIds : \A j \in FreeIds : i <= j

(* A request as it travels; it is answered the way it came. *)
Request(i, call) == [id |-> i, call |-> call, web |-> platform = "webview"]

(***************************************************************************)
(* A turn of the page's event loop: the promises of the ids in `done` are  *)
(* settled and forgotten, and the code that runs then makes the calls, in  *)
(* order (invoke of the transport in place). The handler is the caller's.  *)
(***************************************************************************)
Turn(done, calls) ==
  LET callOf(i) == calls[CHOOSE k \in DOMAIN calls : calls[k].id = i].call
  IN /\ promise' = [i \in Ids |-> IF i \in IdsOf(calls) THEN callOf(i)
                                  ELSE IF i \in done THEN None ELSE promise[i]]
     /\ IF platform = "webview"
        THEN /\ pending' = (pending \ done) \cup IdsOf(calls)
             /\ toNative' = toNative \o calls
             /\ UNCHANGED http
        ELSE /\ pending' = pending \ done
             /\ http' = http \cup {calls[k] : k \in DOMAIN calls}
             /\ UNCHANGED toNative
     /\ UNCHANGED <<transportVars, running>>

(* window.ui.on and off, for the one event of the program: BrowserTransport does nothing. *)
On(h) == IF platform = "webview" THEN h ELSE handler
\* a mutant: off does nothing on either transport
OffForgotten == handler
Off   == IF platform = "webview" THEN None ELSE handler

(* An answer reaches its promise: as an HTTP response, or as a script whose id is pending. *)
Arrives(m) ==
  \/ /\ m \in fetched /\ fetched' = fetched \ {m}
     /\ UNCHANGED toWeb
  \/ /\ toWeb # <<>> /\ m = Head(toWeb) /\ toWeb' = Tail(toWeb)
     /\ platform = "webview" /\ m.id \in pending
     /\ UNCHANGED fetched

(* A script that finds no promise: after a reload, or under another transport, it does nothing. *)
OnUnknownMessage ==
  /\ toWeb # <<>> /\ Head(toWeb).id # None
  /\ platform = "webview" => Head(toWeb).id \notin pending
  /\ toWeb' = Tail(toWeb)
  /\ UNCHANGED <<transportVars, promise, pending, handler, nativeVars, fetched>>

(* The host takes the next message, or one of the HTTP requests. *)
Received(m) ==
  \/ /\ toNative # <<>> /\ m = Head(toNative) /\ toNative' = Tail(toNative)
     /\ UNCHANGED http
  \/ /\ m \in http /\ http' = http \ {m}
     /\ UNCHANGED toNative

\* a mutant: the answer goes out without what the method returned
RespondEmpty(m, result) ==
  LET answer == [id |-> m.id, ok |-> result.ok, data |-> None]
  IN IF m.web
     THEN toWeb' = Append(toWeb, answer) /\ UNCHANGED fetched
     ELSE fetched' = fetched \cup {answer} /\ UNCHANGED toWeb

\* a mutant: a request that came by HTTP is not answered
RespondToScript(m, result) ==
  /\ toWeb' = IF m.web
              THEN Append(toWeb, [id |-> m.id, ok |-> result.ok, data |-> result.data]) ELSE toWeb
  /\ UNCHANGED fetched

(* The answer to m: [ok, data]. A fetch whose page is gone is answered to nobody. *)
Respond(m, result) ==
  LET answer == [id |-> m.id, ok |-> result.ok, data |-> result.data]
  IN IF m.web
     THEN toWeb' = Append(toWeb, answer) /\ UNCHANGED fetched
     ELSE /\ fetched' = IF promise[m.id] = None THEN fetched ELSE fetched \cup {answer}
          /\ UNCHANGED toWeb

(* A method that returns without awaiting is answered in the turn that received it. *)
HandleInvoke(m, result) ==
  /\ Received(m) /\ Respond(m, result)
  /\ UNCHANGED <<transportVars, promise, pending, handler, running>>

(* One that awaits lets the UI thread, or the thread of the server, go on. *)
BeginInvoke(m) ==
  /\ Received(m) /\ running' = running \cup {m}
  /\ UNCHANGED <<transportVars, promise, pending, handler, answerVars>>

\* a mutant: what has been answered may be answered again
FinishInvokeAgain(m, result) ==
  /\ m \in running /\ Respond(m, result)
  /\ UNCHANGED <<transportVars, promise, pending, handler, nativeVars>>

FinishInvoke(m, result) ==
  /\ m \in running /\ running' = running \ {m}
  /\ Respond(m, result)
  /\ UNCHANGED <<transportVars, promise, pending, handler, toNative, http>>

(* injectBridge() in the page: a new WebViewTransport, which knows of no call and no handler. *)
InjectBridge ==
  /\ injections > 0 /\ injections' = injections - 1
  /\ platform' = "webview"
  /\ pending' = {} /\ handler' = None
  /\ UNCHANGED <<promise, nativeVars, answerVars>>
=============================================================================
