------------------------------ MODULE TagTable ------------------------------
(***************************************************************************)
(* The tag table of a PLC's page (Frontend/src/components/TagTable.vue)    *)
(* over the bridge, with what it asks of PlcDataService and the events that *)
(* TagSubscriptionManager and TagValueChangedFrontendHandler push to it.   *)
(*                                                                         *)
(* PlcDetailView mounts one table per group (`:key="activeGroup"`), so that *)
(* another group means another instance: the old one's continuations still *)
(* run, on state that nobody sees. The PLC stays connected and the groups  *)
(* stay; an address or data type is not told apart from another.           *)
(***************************************************************************)
EXTENDS UiBridge

CONSTANTS
  Groups,    \* ids of DB groups
  Tags,      \* ids of tags, used again only when nothing refers to the old tag
  GroupOf,   \* the group of each tag
  Names,     \* short names of tags
  Values,    \* values in the PLC
  Initial,   \* the value of memory that was never written
  Default,   \* getDefaultEditingValue
  Typed,     \* anything else that a user types
  Offered,   \* bound: what the user does besides opening a group, by the method that is called
  MaxRaised, \* bound: change events on their way to the UI thread
  MaxToWeb   \* bound: no event is pushed while so many scripts wait

ASSUME IdsAreNumbers == Ids \subseteq Nat
ASSUME GroupsAssumption ==
  GroupOf \in [Tags -> Groups] /\ None \notin Groups /\ Groups \cap Tags = {}
ASSUME NamesAssumption == None \notin Names /\ Initial \in Values
ASSUME InputsAssumption == Default # Typed /\ None \notin {Default, Typed}
ASSUME TableBounds == MaxRaised \in Nat /\ MaxToWeb \in Nat

VARIABLES
  name,           \* store and session: the short name of each tag that exists
  value,          \* its value in the memory mirror
  raised,         \* Task.Run of the subscriptions: events that have yet to reach the UI thread
  group,          \* props.groupId of the mounted table
  rows,           \* tags: name and value of each row
  editing,        \* editingValue
  writing,        \* writingTags
  loading, refreshing, historyLoading,
  dialog,         \* the dialog that is open, and the tag or name it is about
  records,        \* historyRecords: the name whose records they are
  orphans,        \* ids of promises whose table is unmounted
  clean,          \* history: was the table mounted with nothing on its way by HTTP?
  excused         \* history: tags whose row was updated by an event of another tag, or whose
                  \* events overtook each other

storeVars == <<name, value, raised>>
viewVars  == <<rows, editing, writing, loading, refreshing, historyLoading, dialog, records>>
mountVars == <<group, handler, orphans, clean>>
vars == <<bridgeVars, storeVars, viewVars, group, orphans, clean, excused>>

Row    == [name : Names, value : Values]
Event  == [tag : Tags, name : Names, value : Values]
Closed == <<"closed", None>>

CallsMade == [method : {"ListTags"}, of : Groups, arg : {"load", "refresh"}]
        \cup [method : {"AddTag", "GetTagHistory"}, of : Groups, arg : Names]
        \cup [method : {"UpdateTag"}, of : Tags, arg : Names]
        \cup [method : {"RemoveTag", "WriteTag"}, of : Tags, arg : {None}]
Requests  == [id : Ids, call : CallsMade, web : BOOLEAN]

ASSUME NoneIsNoCall == None \notin CallsMade
ASSUME NoneIsNoRow == None \notin Row

TypeOK ==
  /\ platform \in {"browser", "webview"} /\ injections \in {0, 1}
  /\ promise \in [Ids -> CallsMade \cup {None}] /\ pending \subseteq Ids
  /\ handler \in Groups \cup {None}
  /\ toNative \in Seq(Requests) /\ http \subseteq Requests /\ running \subseteq Requests
  /\ name \in [Tags -> Names \cup {None}] /\ value \in [Tags -> Values] /\ raised \in Seq(Event)
  /\ group \in Groups \cup {None}
  /\ rows \in [Tags -> Row \cup {None}] /\ editing \in [Tags -> {None, Default, Typed}]
  /\ writing \subseteq Tags
  /\ loading \in BOOLEAN /\ refreshing \in BOOLEAN /\ historyLoading \in BOOLEAN
  /\ dialog \in ({"add"} \X {None}) \cup ({"edit", "remove"} \X Tags) \cup ({"history"} \X Names)
                \cup {Closed}
  /\ records \in Names \cup {None}
  /\ orphans \subseteq Ids /\ clean \in BOOLEAN /\ excused \subseteq Tags

NoTags == [t \in Tags |-> None]

Init ==
  /\ BridgeInit
  /\ name \in [Tags -> Names]
  /\ \A t, u \in Tags : t # u /\ GroupOf[t] = GroupOf[u] => name[t] # name[u]
  /\ value = [t \in Tags |-> Initial] /\ raised = <<>>
  /\ group = None /\ rows = NoTags /\ editing = NoTags /\ writing = {}
  /\ loading = FALSE /\ refreshing = FALSE /\ historyLoading = FALSE
  /\ dialog = Closed /\ records = None
  /\ orphans = {} /\ clean = FALSE /\ excused = {}

CallTo(method, of, arg) == [method |-> method, of |-> of, arg |-> arg]

-----------------------------------------------------------------------------
(***************************************************************************)
(* The page: what the user does. A dialog covers the table: what is behind *)
(* it cannot be clicked. The mask of v-loading keeps the pointer from the  *)
(* rows, but not the keyboard. A form's fields are what it is submitted    *)
(* with. emit('refresh') is for the page around the table (PlcDetailView). *)
(***************************************************************************)

(* The user's click, which makes this one call. *)
Make(call) ==
  /\ call.method \in Offered /\ FreeIds # {} /\ Turn({}, <<Request(NextId, call)>>)
  /\ UNCHANGED <<answerVars, storeVars, mountVars, excused>>

(* A click that makes no call. *)
Click == UNCHANGED <<bridgeVars, storeVars, group, orphans, clean, excused>>

AtTable == group # None /\ dialog = Closed

\* a mutant: one table for all groups
UnmountedNone == {}

(* `:key`: the table of another group is another instance. *)
Unmounted == {i \in Ids : promise[i] # None}

(* Another group is chosen in PlcDetailView. The hooks of the old table run before those of the *)
(* new one, off() before on(); watch(..., { immediate: true }) has loaded the tags before.      *)
SwitchGroup(g) ==
  /\ g # group /\ group' = g
  /\ g # None => FreeIds # {}
  /\ Turn({}, IF g = None THEN <<>> ELSE <<Request(NextId, CallTo("ListTags", g, "load"))>>)
  /\ handler' = IF g = None THEN Off ELSE On(g)
  /\ orphans' = Unmounted
  /\ rows' = NoTags /\ editing' = NoTags /\ writing' = {} /\ loading' = (g # None)
  /\ refreshing' = FALSE /\ historyLoading' = FALSE /\ dialog' = Closed /\ records' = None
  /\ clean' = (platform = "webview" /\ \A m \in http \cup running : m.web)
  /\ excused' = {t \in excused : \E k \in DOMAIN raised : raised[k].tag = t}
  /\ UNCHANGED <<answerVars, storeVars>>

HandleRefresh ==
  /\ AtTable /\ ~refreshing
  /\ refreshing' = TRUE /\ loading' = TRUE
  /\ Make(CallTo("ListTags", group, "refresh"))
  /\ UNCHANGED <<rows, editing, writing, historyLoading, dialog, records>>

(* The buttons that open a dialog, and the ways to close one. *)
OpenDialog(d) ==
  /\ AtTable /\ dialog' = d
  /\ Click /\ UNCHANGED <<rows, editing, writing, loading, refreshing, historyLoading, records>>
OpenSome ==
  \/ "AddTag" \in Offered /\ OpenDialog(<<"add", None>>)
  \/ \E t \in Tags :
       /\ rows[t] # None
       /\ \/ "UpdateTag" \in Offered /\ OpenDialog(<<"edit", t>>)
          \/ "RemoveTag" \in Offered /\ OpenDialog(<<"remove", t>>)
CloseDialog ==
  /\ dialog # Closed /\ dialog' = Closed
  /\ Click /\ UNCHANGED <<rows, editing, writing, loading, refreshing, historyLoading, records>>

(* The dialog stays open until the answer, and may be submitted again. *)
HandleAddTag(n) ==
  /\ dialog[1] = "add"
  /\ Make(CallTo("AddTag", group, n)) /\ UNCHANGED viewVars
HandleSaveEdit(n) ==
  /\ dialog[1] = "edit"
  /\ Make(CallTo("UpdateTag", dialog[2], n)) /\ UNCHANGED viewVars

(* The confirmation closes its dialog. *)
HandleRemoveTag ==
  /\ dialog[1] = "remove" /\ dialog' = Closed
  /\ Make(CallTo("RemoveTag", dialog[2], None))
  /\ UNCHANGED <<rows, editing, writing, loading, refreshing, historyLoading, records>>

HandleShowHistory(n) ==
  /\ AtTable /\ \E t \in Tags : rows[t] # None /\ rows[t].name = n
  /\ dialog' = <<"history", n>> /\ historyLoading' = TRUE
  /\ Make(CallTo("GetTagHistory", group, n))
  /\ UNCHANGED <<rows, editing, writing, loading, refreshing, records>>

HandleWriteTag(t) ==
  /\ AtTable /\ rows[t] # None /\ t \notin writing
  /\ writing' = writing \cup {t}
  /\ Make(CallTo("WriteTag", t, None))
  /\ UNCHANGED <<rows, editing, loading, refreshing, historyLoading, dialog, records>>

(* v-model of the row's input *)
Type(t, v) ==
  /\ AtTable /\ "WriteTag" \in Offered /\ rows[t] # None /\ editing' = [editing EXCEPT ![t] = v]
  /\ Click /\ UNCHANGED <<rows, writing, loading, refreshing, historyLoading, dialog, records>>

-----------------------------------------------------------------------------
(* The page: what an await goes on with. *)

\* a mutant: loadTags starts every tag with the default
TagsLoadedAnew(answer, how) ==
  /\ rows' = answer.data /\ loading' = FALSE
  /\ editing' = [t \in Tags |-> IF rows'[t] = None THEN None ELSE Default]
  /\ refreshing' = (refreshing /\ how # "refresh")
  /\ UNCHANGED <<writing, historyLoading, dialog, records>>

(* loadTags keeps what is typed, starts new tags with the default and forgets those that are gone. *)
TagsLoaded(answer, how) ==
  /\ rows' = answer.data
  /\ editing' = [t \in Tags |-> IF rows'[t] = None THEN None
                                ELSE IF editing[t] = None THEN Default ELSE editing[t]]
  /\ loading' = FALSE
  /\ refreshing' = (refreshing /\ how # "refresh")
  /\ UNCHANGED <<writing, historyLoading, dialog, records>>

\* a mutant: the flag is cleared in the branch of the success, not in finally
TagWrittenNoFinally(answer, t) ==
  /\ editing' = IF answer.ok THEN [editing EXCEPT ![t] = Default] ELSE editing
  /\ writing' = IF answer.ok THEN writing \ {t} ELSE writing
  /\ UNCHANGED <<rows, loading, refreshing, historyLoading, dialog, records>>

(* The value is reset for the tag that was written, whatever was typed meanwhile. *)
TagWritten(answer, t) ==
  /\ editing' = IF answer.ok THEN [editing EXCEPT ![t] = Default] ELSE editing
  /\ writing' = writing \ {t}
  /\ UNCHANGED <<rows, loading, refreshing, historyLoading, dialog, records>>

\* a mutant: the whole answer is taken for the records
HistoryLoadedWhole(answer) ==
  /\ records' = answer /\ historyLoading' = FALSE
  /\ UNCHANGED <<rows, editing, writing, loading, refreshing, dialog>>

HistoryLoaded(answer) ==
  /\ records' = answer.data /\ historyLoading' = FALSE
  /\ UNCHANGED <<rows, editing, writing, loading, refreshing, dialog>>

(* A change was made, or refused: the dialog of its kind closes, and the tags are loaded again. *)
TagChanged(answer, call) ==
  IF answer.ok
  THEN /\ loading' = TRUE
       /\ dialog' = IF \/ call.method = "AddTag" /\ dialog[1] = "add"
                       \/ call.method = "UpdateTag" /\ dialog[1] = "edit"
                    THEN Closed ELSE dialog
       /\ UNCHANGED <<rows, editing, writing, refreshing, historyLoading, records>>
  ELSE UNCHANGED viewVars

Changing == {"AddTag", "UpdateTag", "RemoveTag"}
GroupAsked(call) == IF call.of \in Groups THEN call.of ELSE GroupOf[call.of]

\* a mutant: handleSaveEdit does not load the tags again
FollowingNoUpdate(answer, call) ==
  IF call.method \in Changing \ {"UpdateTag"} /\ answer.ok
  THEN <<Request(answer.id, CallTo("ListTags", GroupAsked(call), "load"))>> ELSE <<>>

(* The call that follows in the same function: loadTags, with the group of its instance. *)
Following(answer, call) ==
  IF call.method \in Changing /\ answer.ok
  THEN <<Request(answer.id, CallTo("ListTags", GroupAsked(call), "load"))>> ELSE <<>>

Continue(answer) ==
  LET call == promise[answer.id]
  IN /\ Arrives(answer)
     /\ Turn({answer.id}, Following(answer, call))
     /\ IF answer.id \in orphans
        THEN /\ orphans' = IF Following(answer, call) = <<>> THEN orphans \ {answer.id} ELSE orphans
             /\ UNCHANGED viewVars
        ELSE /\ \/ call.method = "ListTags" /\ TagsLoaded(answer, call.arg)
                \/ call.method = "WriteTag" /\ TagWritten(answer, call.of)
                \/ call.method = "GetTagHistory" /\ HistoryLoaded(answer)
                \/ call.method \in Changing /\ TagChanged(answer, call)
             /\ UNCHANGED orphans
     /\ UNCHANGED <<handler, storeVars, group, clean, excused>>

(* The handler looks for the row by the short name, in the table that subscribed. *)
RowNamed(n) == CHOOSE t \in Tags : rows[t] # None /\ rows[t].name = n
OnTagValueChanged(event) ==
  IF handler # None /\ handler = group /\ \E t \in Tags : rows[t] # None /\ rows[t].name = event.name
  THEN LET t == RowNamed(event.name)
       IN /\ rows' = [rows EXCEPT ![t].value = event.value]
          /\ excused' = IF event.tag = t THEN excused ELSE excused \cup {t}
  ELSE UNCHANGED <<rows, excused>>

ReceiveEvent ==
  /\ toWeb # <<>> /\ Head(toWeb).id = None /\ toWeb' = Tail(toWeb)
  /\ OnTagValueChanged(Head(toWeb).data)
  /\ UNCHANGED <<transportVars, promise, pending, nativeVars, fetched, storeVars, mountVars>>
  /\ UNCHANGED <<editing, writing, loading, refreshing, historyLoading, dialog, records>>

-----------------------------------------------------------------------------
(* The host. *)

Done(data) == [ok |-> TRUE, data |-> data]
Refused == [ok |-> FALSE, data |-> None]

ListTags(g) ==
  [t \in Tags |-> IF GroupOf[t] = g /\ name[t] # None
                  THEN [name |-> name[t], value |-> value[t]] ELSE None]

(* A Guid is new: an identity is taken up again when nothing of the old tag is left. *)
Fresh(t) ==
  /\ name[t] = None /\ rows[t] = None /\ editing[t] = None /\ t \notin writing
  /\ \A k \in DOMAIN raised : raised[k].tag # t
  /\ \A k \in DOMAIN toWeb : toWeb[k].id = None => toWeb[k].data.tag # t
  /\ \A i \in Ids : promise[i] # None => promise[i].of # t

NameTaken(g, n) == \E t \in Tags : GroupOf[t] = g /\ name[t] = n
UpdateFails(t, n) == name[t] = None \/ (name[t] # n /\ NameTaken(GroupOf[t], n))

(* Queries, and the changes that are refused: WriteTag throws before it awaits anything. *)
Query(m) ==
  LET c == m.call
  IN /\ \/ c.method = "ListTags" /\ HandleInvoke(m, Done(ListTags(c.of)))
        \/ c.method = "GetTagHistory" /\ HandleInvoke(m, Done(c.arg))
        \/ c.method = "AddTag" /\ NameTaken(c.of, c.arg) /\ HandleInvoke(m, Refused)
        \/ c.method = "AddTag" /\ (\A t \in Tags : GroupOf[t] = c.of => ~Fresh(t))  \* bound
           /\ HandleInvoke(m, Refused)
        \/ /\ c.method = "UpdateTag"
           /\ UpdateFails(c.of, c.arg) /\ HandleInvoke(m, Refused)
        \/ c.method = "WriteTag" /\ name[c.of] = None /\ HandleInvoke(m, Refused)
     /\ UNCHANGED storeVars

AddTag(m) ==
  /\ m.call.method = "AddTag" /\ ~NameTaken(m.call.of, m.call.arg)
  /\ \E t \in Tags :
       /\ GroupOf[t] = m.call.of /\ Fresh(t)
       /\ name' = [name EXCEPT ![t] = m.call.arg] /\ value' = [value EXCEPT ![t] = Initial]
  /\ HandleInvoke(m, Done(None)) /\ UNCHANGED raised

(* It returns false for a tag that is gone, and the page does not look at that. *)
RemoveTag(m) ==
  /\ m.call.method = "RemoveTag"
  /\ name' = [name EXCEPT ![m.call.of] = None]
  /\ HandleInvoke(m, Done(None)) /\ UNCHANGED <<value, raised>>

(* The address stays, and so does the value in the mirror. *)
UpdateTag(m) ==
  /\ m.call.method = "UpdateTag" /\ ~UpdateFails(m.call.of, m.call.arg)
  /\ name' = [name EXCEPT ![m.call.of] = m.call.arg]
  /\ excused' = IF \E k \in DOMAIN raised : raised[k].tag = m.call.of
                THEN excused \cup {m.call.of} ELSE excused
  /\ HandleInvoke(m, Done(None)) /\ UNCHANGED <<value, raised>>

BeginWrite(m) ==
  /\ m.call.method = "WriteTag" /\ name[m.call.of] # None
  /\ BeginInvoke(m) /\ UNCHANGED storeVars

(* The device accepts the value or not; a scan brings it to the mirror later. *)
FinishWrite(m) ==
  /\ \/ FinishInvoke(m, Done(None))
     \/ FinishInvoke(m, Refused)
  /\ UNCHANGED storeVars

HostVars == <<viewVars, group, orphans, clean>>
Handle(m) ==
  /\ \/ UpdateTag(m)
     \/ (Query(m) \/ AddTag(m) \/ RemoveTag(m) \/ BeginWrite(m)) /\ UNCHANGED excused
  /\ UNCHANGED HostVars

(* A scan finds another value: the mirror has it, and the subscription starts a task that tells. *)
ValueChanges(t, v) ==
  /\ name[t] # None /\ v # value[t] /\ Len(raised) < MaxRaised
  /\ value' = [value EXCEPT ![t] = v]
  /\ raised' = Append(raised, [tag |-> t, name |-> name[t], value |-> v])
  /\ UNCHANGED <<bridgeVars, name, HostVars, excused>>

(* The tasks run on the thread pool: any of them may be the next to get to the UI thread. *)
PublishEvent(k) ==
  /\ Len(toWeb) < MaxToWeb
  /\ toWeb' = Append(toWeb, [id |-> None, ok |-> TRUE, data |-> raised[k]])
  /\ raised' = SubSeq(raised, 1, k - 1) \o SubSeq(raised, k + 1, Len(raised))
  /\ excused' = IF \E j \in 1 .. (k - 1) : raised[j].tag = raised[k].tag
                THEN excused \cup {raised[k].tag} ELSE excused
  /\ UNCHANGED <<transportVars, promise, pending, handler, nativeVars, fetched, name, value, HostVars>>

-----------------------------------------------------------------------------
UserStep ==
  \/ \E g \in Groups \cup {None} : SwitchGroup(g)
  \/ HandleRefresh \/ OpenSome \/ CloseDialog \/ HandleRemoveTag
  \/ \E n \in Names : HandleAddTag(n) \/ HandleSaveEdit(n) \/ HandleShowHistory(n)
  \/ \E t \in Tags : HandleWriteTag(t) \/ \E v \in {Default, Typed} : Type(t, v)

Answering == \E answer \in fetched \cup {toWeb[k] : k \in DOMAIN toWeb} : Continue(answer)
Handling  == \E m \in http \cup {toNative[k] : k \in DOMAIN toNative} : Handle(m)
Writing   == \E m \in running : FinishWrite(m) /\ UNCHANGED <<HostVars, excused>>
Publishing == \E k \in DOMAIN raised : PublishEvent(k)
Injecting == InjectBridge /\ UNCHANGED <<storeVars, viewVars, group, orphans, clean, excused>>

(* One load, and one injection: no script finds its promise gone. *)
Next ==
  \/ UserStep \/ Answering \/ ReceiveEvent
  \/ Handling \/ Writing \/ Publishing
  \/ \E t \in Tags, v \in Values : ValueChanges(t, v)
  \/ Injecting

Spec == Init /\ [][Next]_vars

-----------------------------------------------------------------------------
(* A table shows the tags of its own group, however late the answers for another one come. *)
RowsOfGroup == \A t \in Tags : rows[t] # None => GroupOf[t] = group

(* Events reach the mounted table and only it, unless it was mounted before the bridge was there. *)
ListenerIsMounted ==
  /\ clean => handler = group
  /\ handler \in {None, group}

(***************************************************************************)
(* When nothing is on its way any more, each row has the tag's name and the *)
(* value of the mirror, although nothing polls: the snapshot of ListTags   *)
(* and the events after it come over one channel, in order. Excused are    *)
(* the rows that an event of another tag of the same name has hit, and     *)
(* those whose own events overtook each other.                             *)
(***************************************************************************)
Quiet ==
  /\ \A i \in Ids : promise[i] = None
  /\ toNative = <<>> /\ running = {} /\ toWeb = <<>> /\ raised = <<>>
QuietTableIsCurrent ==
  (clean /\ group # None /\ Quiet) =>
    \A t \in Tags \ excused : rows[t] = ListTags(group)[t]

(* What is typed for a tag stays until the user types again or the tag's own write succeeds. *)
TypedValueKept ==
  [][\A t \in Tags :
       (group' = group /\ editing[t] # None /\ editing'[t] # None /\ editing'[t] # editing[t])
         => \/ UNCHANGED <<promise, toWeb, fetched>>
            \/ t \in writing /\ t \notin writing']_vars

(***************************************************************************)
(* A spinner turns, and disables its button, only while the call is open   *)
(* that stops it: an error, a refusal or a second call in between leaves   *)
(* no flag behind. That every call ends is EveryCallSettles of the bridge. *)
(***************************************************************************)
Open(method, of) ==
  \E i \in Ids \ orphans : promise[i] # None /\ promise[i].method = method /\ promise[i].of = of
SpinnerHasCall ==
  /\ loading => Open("ListTags", group)
  /\ refreshing =>
       \E i \in Ids \ orphans : promise[i] = CallTo("ListTags", group, "refresh")
  /\ historyLoading => Open("GetTagHistory", group)
  /\ \A t \in writing : Open("WriteTag", t)
=============================================================================
