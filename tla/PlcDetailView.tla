--------------------------- MODULE PlcDetailView ----------------------------
(***************************************************************************)
(* The page of one PLC (Frontend/src/views/PlcDetailView.vue): its flag and *)
(* its groups, one of which is active and shown by a TagTable.             *)
(*                                                                         *)
(* The page's PLC is fixed by the route; page.plc is its plcName. The names *)
(* of groups and the number of their tags are left out.                    *)
(***************************************************************************)
EXTENDS PlcManager

VARIABLES
  plc,          \* plc: the isConnected of the page's PLC, None before it is found
  groups,       \* groups: the ids that are shown
  activeGroup   \* activeGroup, None for ''

detailVars == <<plc, groups, activeGroup>>

DetailInit == plc = None /\ groups = {} /\ activeGroup = None
DetailTypeOK ==
  /\ plc \in {None, "on", "off"} /\ groups \subseteq Groups /\ activeGroup \in Groups \cup {None}

(* loadPlc and loadGroups of the page of n; onMounted calls both. *)
LoadPlc(n) == CallTo("ListPlcs", n, None)
LoadGroups(n) == CallTo("ListDbGroups", n, None)
DetailMount(n) == <<LoadPlc(n), LoadGroups(n)>>

(* The mask of v-loading covers the groups and the table, not the bar above them. *)
Unmasked == At("detail") /\ dialog = Closed /\ ~loading

-----------------------------------------------------------------------------
(* What the user does. *)
HandleGroupTabClick(g) ==
  /\ Unmasked /\ g \in groups /\ activeGroup' = g
  /\ Click /\ UNCHANGED <<loading, dialog, plc, groups>>

OpenGroupDialog ==
  /\ Unmasked
  /\ \/ OpenDialog(<<"create", None>>)
     \/ \E g \in groups : OpenDialog(<<"rename", g>>) \/ OpenDialog(<<"delete", g>>)
  /\ UNCHANGED detailVars
CloseGroupDialog ==
  /\ At("detail") /\ CloseDialog
  /\ UNCHANGED detailVars

HandleCreateGroup ==
  /\ dialog[1] = "create"
  /\ Make(<<CallTo("CreateDbGroup", page.plc, None)>>)
  /\ UNCHANGED <<loading, dialog, detailVars>>
HandleRename ==
  /\ dialog[1] = "rename"
  /\ Make(<<CallTo("RenameDbGroup", dialog[2], page.plc)>>)
  /\ UNCHANGED <<loading, dialog, detailVars>>
HandleDeleteGroup ==
  /\ dialog[1] = "delete" /\ dialog' = Closed
  /\ Make(<<CallTo("DeleteDbGroup", dialog[2], page.plc)>>)
  /\ UNCHANGED <<loading, detailVars>>

(* TagTable emits `refresh` when it has added or removed a tag. *)
OnRefresh ==
  /\ At("detail") /\ activeGroup # None /\ loading' = TRUE
  /\ Make(<<LoadGroups(page.plc)>>)
  /\ UNCHANGED <<dialog, detailVars>>

ToggleConnection ==
  /\ At("detail") /\ dialog = Closed
  /\ \/ plc = "off" /\ Make(<<CallTo("ConnectPlc", page.plc, None)>>)
     \/ plc = "on" /\ Make(<<CallTo("DisconnectPlc", page.plc, None)>>)
  /\ UNCHANGED <<loading, dialog, detailVars>>

DetailClick ==
  \/ \E g \in Groups : HandleGroupTabClick(g)
  \/ OpenGroupDialog \/ CloseGroupDialog
  \/ HandleCreateGroup \/ HandleRename \/ HandleDeleteGroup
  \/ OnRefresh \/ ToggleConnection

-----------------------------------------------------------------------------
(* What an await goes on with. *)

(* A PLC that is not found leaves null, and the page is left (PlcPages). *)
PlcLoaded(answer) ==
  /\ plc' = answer.data[page.plc]
  /\ UNCHANGED <<loading, dialog, groups, activeGroup>>

(* The first group becomes the active one, if none is. *)
GroupsLoaded(answer) ==
  /\ groups' = answer.data /\ loading' = FALSE
  /\ IF groups' # {} /\ activeGroup = None THEN activeGroup' \in groups' ELSE UNCHANGED activeGroup
  /\ UNCHANGED <<dialog, plc>>

\* a mutant: the flag is set before the answer is looked at
PlcFlaggedAnyway(answer, flag) ==
  /\ plc' = flag
  /\ UNCHANGED <<loading, dialog, groups, activeGroup>>

(* plc.value is looked at again, and is set on whatever it is by then. *)
PlcFlagged(answer, flag) ==
  /\ plc' = IF answer.ok THEN flag ELSE plc
  /\ UNCHANGED <<loading, dialog, groups, activeGroup>>

GroupForm(method) ==
  CASE method = "CreateDbGroup" -> "create" [] method = "RenameDbGroup" -> "rename" [] OTHER -> ""

\* a mutant: the active group stays when it is deleted
GroupsChangedKeepsActive(answer, call) ==
  IF answer.ok
  THEN /\ loading' = TRUE
       /\ dialog' = IF dialog[1] = GroupForm(call.method) THEN Closed ELSE dialog
       /\ activeGroup' = IF call.method = "CreateDbGroup" THEN None ELSE activeGroup
       /\ UNCHANGED <<plc, groups>>
  ELSE UNCHANGED <<loading, dialog, detailVars>>

(* The dialog of its kind closes, a new or a deleted group unsets the active one. *)
GroupsChanged(answer, call) ==
  IF answer.ok
  THEN /\ loading' = TRUE
       /\ dialog' = IF dialog[1] = GroupForm(call.method) THEN Closed ELSE dialog
       /\ activeGroup' = IF \/ call.method = "CreateDbGroup"
                            \/ call.method = "DeleteDbGroup" /\ activeGroup = call.of
                         THEN None ELSE activeGroup
       /\ UNCHANGED <<plc, groups>>
  ELSE UNCHANGED <<loading, dialog, detailVars>>

ChangingGroups == {"CreateDbGroup", "RenameDbGroup", "DeleteDbGroup"}
PlcOf(call) == IF call.method = "CreateDbGroup" THEN call.of ELSE call.arg
DetailFollowing(answer, call) ==
  IF call.method \in ChangingGroups /\ answer.ok THEN Follow(answer, LoadGroups(PlcOf(call))) ELSE <<>>

DetailContinue(answer, call) ==
  \/ call.method = "ListPlcs" /\ PlcLoaded(answer)
  \/ call.method = "ListDbGroups" /\ GroupsLoaded(answer)
  \/ call.method = "ConnectPlc" /\ PlcFlagged(answer, "on")
  \/ call.method = "DisconnectPlc" /\ PlcFlagged(answer, "off")
  \/ call.method \in ChangingGroups /\ GroupsChanged(answer, call)
=============================================================================
