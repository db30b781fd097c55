---------------------------- MODULE PlcListView -----------------------------
(***************************************************************************)
(* The page with the list of the PLCs (Frontend/src/views/PlcListView.vue). *)
(* Nothing polls here and no event comes: a row is what the last answer    *)
(* said, and after a change the page asks for the whole list again.        *)
(*                                                                         *)
(* A row is its name and its flag. What the forms hold besides a name, and *)
(* what a card prints, is left out.                                        *)
(***************************************************************************)
EXTENDS PlcManager

VARIABLES
  rows,      \* plcs: the isConnected of each PLC that is shown
  held,      \* ids of connects and disconnects whose row object is still one of the list
  unseen     \* history: PLCs whose AddPlc was stored and reported as failed, not listed since

listVars == <<rows, held, unseen>>

NoRows == [n \in PlcNames |-> None]
ListInit == rows = NoRows /\ held = {} /\ unseen = {}
ListTypeOK ==
  /\ rows \in [PlcNames -> {None, "on", "off"}] /\ held \subseteq Ids /\ unseen \subseteq PlcNames

LoadPlcs == CallTo("ListPlcs", None, None)

(* The mask of v-loading is over the cards, and the title bar's buttons are not under it. *)
Card(n) == At("list") /\ ~loading /\ dialog = Closed /\ rows[n] # None

-----------------------------------------------------------------------------
(* What the user does. The button of a card is one or the other, by its flag. *)
OpenAddDialog ==
  /\ At("list") /\ OpenDialog(<<"add", None>>)
  /\ UNCHANGED listVars
OpenCardDialog(n) ==
  /\ Card(n)
  /\ OpenDialog(<<"remove", n>>) \/ OpenDialog(<<"edit", n>>)
  /\ UNCHANGED listVars
ClosePlcDialog ==
  /\ At("list") /\ CloseDialog
  /\ UNCHANGED listVars

(* The dialog of a form stays until the answer, and can be submitted again; a confirmation closes. *)
HandleAddPlc(n) ==
  /\ dialog[1] = "add"
  /\ Make(<<CallTo("AddPlc", n, None)>>)
  /\ UNCHANGED <<loading, dialog, listVars>>
HandleUpdatePlc(new) ==
  /\ dialog[1] = "edit"
  /\ Make(<<CallTo("UpdatePlc", dialog[2], new)>>)
  /\ UNCHANGED <<loading, dialog, listVars>>
HandleRemove ==
  /\ dialog[1] = "remove" /\ dialog' = Closed
  /\ Make(<<CallTo("RemovePlc", dialog[2], None)>>)
  /\ UNCHANGED <<loading, listVars>>

HandleConnect(n) ==
  /\ Card(n) /\ rows[n] = "off"
  /\ Make(<<CallTo("ConnectPlc", n, None)>>) /\ held' = held \cup {IdAt(1)}
  /\ UNCHANGED <<loading, dialog, rows, unseen>>
HandleDisconnect(n) ==
  /\ Card(n) /\ rows[n] = "on"
  /\ Make(<<CallTo("DisconnectPlc", n, None)>>) /\ held' = held \cup {IdAt(1)}
  /\ UNCHANGED <<loading, dialog, rows, unseen>>

ListClick ==
  \/ OpenAddDialog \/ ClosePlcDialog \/ HandleRemove
  \/ \E n \in PlcNames :
       \/ OpenCardDialog(n) \/ HandleAddPlc(n) \/ HandleUpdatePlc(n)
       \/ HandleConnect(n) \/ HandleDisconnect(n)

-----------------------------------------------------------------------------
(* What an await goes on with. *)

\* a mutant: the whole answer is taken for the rows
PlcsLoadedWhole(answer) ==
  /\ rows' = answer /\ held' = {} /\ loading' = FALSE
  /\ UNCHANGED <<dialog, unseen>>

(* loadPlcs: the rows are new objects. *)
PlcsLoaded(answer) ==
  /\ rows' = answer.data /\ held' = {} /\ loading' = FALSE
  /\ unseen' = {n \in unseen : rows'[n] = None}
  /\ UNCHANGED dialog

(* The flag is set on the row's object, which may have left the list since. *)
RowFlagged(answer, call, flag) ==
  /\ rows' = IF answer.ok /\ answer.id \in held THEN [rows EXCEPT ![call.of] = flag] ELSE rows
  /\ held' = held \ {answer.id}
  /\ UNCHANGED <<loading, dialog, unseen>>

(* After a change: the dialog of its kind closes, and the list is loaded again. *)
FormOf(method) == CASE method = "AddPlc" -> "add" [] method = "UpdatePlc" -> "edit" [] OTHER -> ""
PlcsChanged(answer, call) ==
  IF answer.ok
  THEN /\ loading' = TRUE
       /\ dialog' = IF dialog[1] = FormOf(call.method) THEN Closed ELSE dialog
       /\ UNCHANGED listVars
  ELSE /\ unseen' = IF call.method = "AddPlc" /\ rows[call.of] = None
                    THEN unseen \cup {call.of} ELSE unseen
       /\ UNCHANGED <<loading, dialog, rows, held>>

ChangingPlcs == {"AddPlc", "RemovePlc", "UpdatePlc"}
\* a mutant: handleUpdatePlc does not load the list again
ListFollowingNoUpdate(answer, call) ==
  IF call.method \in ChangingPlcs \ {"UpdatePlc"} /\ answer.ok THEN Follow(answer, LoadPlcs) ELSE <<>>

ListFollowing(answer, call) ==
  IF call.method \in ChangingPlcs /\ answer.ok THEN Follow(answer, LoadPlcs) ELSE <<>>

ListContinue(answer, call) ==
  \/ call = LoadPlcs /\ PlcsLoaded(answer)
  \/ call.method = "ConnectPlc" /\ RowFlagged(answer, call, "on")
  \/ call.method = "DisconnectPlc" /\ RowFlagged(answer, call, "off")
  \/ call.method \in ChangingPlcs /\ PlcsChanged(answer, call)
=============================================================================
