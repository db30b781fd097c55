------------------------------ MODULE AppShell ------------------------------
(***************************************************************************)
(* The frame around the pages (Frontend/src/App.vue, router/index.ts,      *)
(* views/MainView.vue): one page is mounted at a time. A page that is left  *)
(* is unmounted, but its promises are not: what awaits them still runs,    *)
(* still makes its calls and may still navigate, on state nobody sees.     *)
(*                                                                         *)
(* Every page has one `loading` flag, and dialogs of which one is open at a *)
(* time, since each covers the window. Both are the mounted page's here.   *)
(***************************************************************************)
EXTENDS UiBridge

CONSTANT
  Offered   \* bound: the methods that the user's clicks call

ASSUME IdsAreNumbers == Ids \subseteq Nat /\ IsFiniteSet(Ids)

VARIABLES
  page,      \* the route: a view, and the PLC that its path names
  loading,   \* `loading` of the mounted page
  dialog,    \* the dialog that is open, and what it is about
  orphans,   \* ids of promises whose page is unmounted
  clean      \* history: was the page mounted with no call open?

shellVars == <<page, loading, dialog, orphans, clean>>

Page(view, plc) == [view |-> view, plc |-> plc]
Main == Page("main", None)
At(view) == page.view = view
Closed == <<"closed", None>>

(* The host's window after the injection: every call goes over the one channel. *)
BridgeInjected ==
  /\ platform = "webview" /\ injections = 0
  /\ promise = [i \in Ids |-> None] /\ pending = {} /\ handler = None
  /\ toNative = <<>> /\ http = {} /\ running = {} /\ fetched = {} /\ toWeb = <<>>

ShellInit ==
  /\ page = Main /\ loading = FALSE /\ dialog = Closed /\ orphans = {} /\ clean = FALSE

CallTo(method, of, arg) == [method |-> method, of |-> of, arg |-> arg]

(* The requests of calls that are made in one turn, in order. *)
IdAt(k) == CHOOSE i \in FreeIds : Cardinality({j \in FreeIds : j < i}) = k - 1
CanCall(calls) ==
  /\ Len(calls) <= Cardinality(FreeIds)
  /\ \A k \in DOMAIN calls : calls[k].method \in Offered
RequestsFor(calls) == [k \in DOMAIN calls |-> Request(IdAt(k), calls[k])]

Open == {i \in Ids : promise[i] # None}

(***************************************************************************)
(* router.push: the page in place is unmounted, the other one is mounted   *)
(* and makes its first calls, in one go. `done` is the id of the promise   *)
(* whose continuation navigates, if that is what does. The router does     *)
(* nothing for the page it is at.                                          *)
(***************************************************************************)
Navigate(done, to, requests) ==
  /\ page' = to
  /\ loading' = (requests # <<>>) /\ dialog' = Closed
  /\ orphans' = Open \ done
  /\ clean' = (Open \subseteq done)
  /\ Turn(done, requests)

(* A click that makes the calls, and one that makes none. *)
Make(calls) ==
  /\ CanCall(calls) /\ Turn({}, RequestsFor(calls))
  /\ UNCHANGED <<answerVars, handler, page, orphans, clean>>
Click == UNCHANGED <<bridgeVars, page, orphans, clean>>

(* The dialogs' buttons: what opens one, and the ways to close it without submitting it. *)
OpenDialog(d) ==
  /\ dialog = Closed /\ dialog' = d
  /\ Click /\ UNCHANGED loading
CloseDialog ==
  /\ dialog # Closed /\ dialog' = Closed
  /\ Click /\ UNCHANGED loading

(* A promise settles: an orphan's continuation makes its calls, and that is all. *)
Settled(answer, following) ==
  /\ Turn({answer.id}, following)
  /\ orphans' = IF following = <<>> THEN orphans \ {answer.id} ELSE orphans
  /\ UNCHANGED <<handler, page, clean>>
Follow(answer, call) == <<Request(answer.id, call)>>

(* When nothing is on its way any more. *)
Quiet == Open = {} /\ toNative = <<>> /\ running = {} /\ toWeb = <<>>
=============================================================================
