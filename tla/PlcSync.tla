------------------------------ MODULE PlcSync ------------------------------
(***************************************************************************)
(* One PLC of src/Ddon.VitrinPLC: the scan loop (PlcSyncEngine) that copies *)
(* the PLC's memory into the mirror (PlcMemoryMirror, MemoryRegion,        *)
(* BufferSlice) region by region and notifies the subscribers of changed   *)
(* tags (ChangeNotifier), and the session (PlcSession, TagRegistry) whose  *)
(* callers read the mirror, write to the PLC and add and remove tags while *)
(* the loop runs.                                                          *)
(*                                                                         *)
(* The loop, the callers of the session and the PLC's own program run       *)
(* concurrently. A byte is the set of its 1 bits; a float takes two bytes   *)
(* here, any width above one behaves alike.                                *)
(***************************************************************************)
EXTENDS Integers, Sequences, SequencesExt, FiniteSetsExt

CONSTANTS
  Tags,        \* names of tags
  Initial,     \* the tags of PlcHostOptions, registered when the engine is built
  Dynamic,     \* bound: the tags that are added and removed while the engine exists
  Watched,     \* bound: the tags that are subscribed
  Written,     \* bound: the tags SetAsync is called for
  Moved,       \* bound: the tags the PLC's own program changes
  Malformed,   \* the tags whose address IPlcAddressParser.Parse refuses
  Address,     \* of each tag: region, byte, bit and type ("bool", "byte" or "float")
  Bytes,       \* the number of bytes of each region of the PLC
  Bits,        \* the bit numbers of a byte
  Writers,     \* callers of SetAsync
  None

Regions == DOMAIN Bytes
Byte    == SUBSET Bits
Good    == Tags \ Malformed
Size(t) == IF Address[t].type = "float" THEN 2 ELSE 1    \* PlcByteSize.Get

ASSUME TagsAssumption == Initial \subseteq Good /\ Dynamic \cup Malformed \subseteq Tags
                         /\ Watched \cup Written \cup Moved \subseteq Good
ASSUME BytesAssumption == Bytes \in [Regions -> Nat]
ASSUME AddressAssumption ==
  /\ Address \in [Good -> [region : Regions, byte : Nat, bit : Bits,
                        type : {"bool", "byte", "float"}]]
  /\ \A t \in Good : Address[t].byte + Size(t) <= Bytes[Address[t].region]

VARIABLES
  plc,        \* the bytes of each region of the PLC itself
  link,       \* the connection to the PLC: "up", "mute" (no answer comes) or "broken"
  regions,    \* _regions of the mirror: the registered ones
  mirror,     \* the BufferSlice of each region
  registered, \* _tags of the registry
  adding,     \* the tag AddTag has registered and whose region it has not
  life,       \* how far StartAsync or StopAsync is
  cancelled,  \* _cts
  pc,         \* how far RunLoopAsync is
  scanned,    \* tags: the snapshot of the registry the scan works on
  todo,       \* the regions it has yet to read
  changes,    \* changes: the new value of each tag it found changed
  believed,   \* of each subscribed tag, the value its subscriber knows
  missed,     \* history: tags with a change that no notification told
  writing     \* what each SetAsync is about to write

registryVars == <<regions, registered, adding>>
loopVars     == <<pc, scanned, todo, changes>>
vars == <<plc, link, mirror, registryVars, life, cancelled, loopVars, believed, missed, writing>>

(* BufferSlice. A byte outside the slice reads as 0. ReadBytes copies from *)
(* the start of the slice when the range begins before it.                 *)
ReadByte(s, index) ==
  LET i == index - s.offset
  IN IF i \in 0 .. Len(s.data) - 1 THEN s.data[i + 1] ELSE {}
ReadBytes(s, index, count) ==
  LET src == Max({0, index - s.offset})
      n   == Max({0, Min({count, Len(s.data) - src})})
  IN [i \in 1 .. count |-> IF i <= n THEN s.data[src + i] ELSE {}]

(* PlcCodec.Read: the value of tag t in slice s. *)
Value(s, t) ==
  LET a == Address[t]
  IN CASE a.type = "bool"  -> a.bit \in ReadByte(s, a.byte)
       [] a.type = "byte"  -> ReadByte(s, a.byte)
       [] a.type = "float" -> ReadBytes(s, a.byte, 2)

Values(t) ==
  CASE Address[t].type = "bool"  -> BOOLEAN
    [] Address[t].type = "byte"  -> Byte
    [] Address[t].type = "float" -> {<<x, x>> : x \in Byte}
(* What may be read for it: its bytes may come from two writes. *)
Readings(t) == IF Address[t].type = "float" THEN [1 .. 2 -> Byte] ELSE Values(t)

(* The bytes the PLC holds for t, and those of a slice of the PLC. *)
PlcSlice(r)   == [offset |-> 0, data |-> plc[r]]
PlcValue(t)   == Value(PlcSlice(Address[t].region), t)
Stored(t)     == t \in Good /\ Address[t].region \in regions
Get(t)        == Value(mirror[Address[t].region], t)
Put(mem, at, data) ==
  [i \in DOMAIN mem |-> IF i - at \in 1 .. Len(data) THEN data[i - at] ELSE mem[i]]
(* SetAsync: the bytes to write. A bool takes the rest of its byte from the mirror. *)
SetBit(byte, bit, v) == IF v THEN byte \cup {bit} ELSE byte \ {bit}
Encode(t, v) ==
  CASE Address[t].type = "bool" ->
         <<SetBit(ReadByte(mirror[Address[t].region], Address[t].byte), Address[t].bit, v)>>
    [] Address[t].type = "byte"  -> <<v>>
    [] Address[t].type = "float" -> v

Empty == [offset |-> 0, data |-> <<>>]

Subscribed == {t \in Tags : believed[t] # None}

TypeOK ==
  /\ plc \in [Regions -> Seq(Byte)] /\ \A r \in Regions : Len(plc[r]) = Bytes[r]
  /\ link \in {"up", "mute", "broken"} /\ cancelled \in BOOLEAN
  /\ regions \subseteq Regions
  /\ mirror \in [Regions -> [offset : Nat, data : Seq(Byte)]]
  /\ registered \subseteq Tags /\ adding \in registered \cup {None}
  /\ life \in {"stopped", "connecting", "started", "stopping"}
  /\ pc \in {"off", "scan", "read", "notify", "delay"}
  /\ scanned \subseteq Good /\ todo \subseteq Regions
  /\ DOMAIN changes \subseteq scanned
  /\ \A t \in DOMAIN changes : changes[t] \in Readings(t)
  /\ DOMAIN believed = Tags /\ Subscribed \subseteq Good
  /\ \A t \in Subscribed : believed[t] \in Readings(t)
  /\ missed \subseteq Subscribed
  /\ writing \in [Writers -> {None} \cup [tag : Good, data : Seq(Byte)]]

(* PlcServiceFactory.Build, before the engine is started. *)
Init ==
  /\ plc = [r \in Regions |-> [i \in 1 .. Bytes[r] |-> {}]] /\ link = "broken"
  /\ registered = Initial /\ adding = None
  /\ regions = {Address[t].region : t \in Initial}
  /\ mirror = [r \in Regions |-> Empty]
  /\ life = "stopped" /\ cancelled = FALSE
  /\ pc = "off" /\ scanned = {} /\ todo = {} /\ changes = <<>>
  /\ believed = [t \in Tags |-> None] /\ missed = {}
  /\ writing = [w \in Writers |-> None]

(* The PLC: its program changes a tag; the connection breaks or falls       *)
(* silent, for good until the engine is started again: it never reconnects. *)
PlcProgram(t, v) ==
  /\ LET a == Address[t]
         data == IF a.type = "bool" THEN <<SetBit(plc[a.region][a.byte + 1], a.bit, v)>>
                 ELSE IF a.type = "byte" THEN <<v>> ELSE v
     IN plc' = [plc EXCEPT ![a.region] = Put(@, a.byte, data)]
  /\ UNCHANGED <<link, mirror, registryVars, life, cancelled, loopVars, believed, missed,
                 writing>>

LinkBreaks ==
  /\ link = "up" /\ link' \in {"mute", "broken"}
  /\ UNCHANGED <<plc, mirror, registryVars, life, cancelled, loopVars, believed, missed,
                 writing>>

(* PlcSyncEngine.StartAsync and StopAsync, called by the hub one after the other. *)
BeginStart ==
  /\ life = "stopped" /\ pc = "off"
  /\ life' = "connecting"
  /\ UNCHANGED <<plc, link, mirror, registryVars, cancelled, loopVars, believed, missed,
                 writing>>

Connected ==
  /\ life = "connecting" /\ life' = "started" /\ link' = "up"
  /\ cancelled' = FALSE /\ pc' = "scan"
  /\ UNCHANGED <<plc, mirror, registryVars, scanned, todo, changes, believed, missed,
                 writing>>

ConnectFails ==
  /\ life = "connecting" /\ life' = "stopped"
  /\ UNCHANGED <<plc, link, mirror, registryVars, cancelled, loopVars, believed, missed,
                 writing>>

BeginStop ==
  /\ life = "started" /\ pc # "off"
  /\ life' = "stopping" /\ cancelled' = TRUE
  /\ UNCHANGED <<plc, link, mirror, registryVars, loopVars, believed, missed, writing>>

StopReturns ==
  /\ life = "stopping" /\ pc = "off"
  /\ life' = "stopped" /\ link' = "broken"
  /\ UNCHANGED <<plc, mirror, registryVars, cancelled, loopVars, believed, missed, writing>>

(* RunLoopAsync and ScanOnceAsync. An exception ends the scan: what it had *)
(* found is dropped, and the next one starts after the delay.              *)
Abandon(next) ==
  /\ pc' = next /\ scanned' = {} /\ todo' = {} /\ changes' = <<>>
  /\ missed' = missed \cup (DOMAIN changes \cap Subscribed)

ScanBegins ==
  /\ pc = "scan" /\ registered \cap Malformed = {}
  /\ scanned' = registered
  /\ todo' = {Address[t].region : t \in registered}
  /\ pc' = IF registered = {} THEN "delay" ELSE "read"
  /\ UNCHANGED <<plc, link, mirror, registryVars, life, cancelled, changes, believed,
                 missed, writing>>

GroupingFailsForGood ==   \* a mutant: the exception leaves the loop
  /\ pc = "scan" /\ registered \cap Malformed # {}
  /\ Abandon("off")
  /\ UNCHANGED <<plc, link, mirror, registryVars, life, cancelled, believed, writing>>

(* GroupTagsByRegion throws: one address that does not parse. *)
GroupingFails ==
  /\ pc = "scan" /\ registered \cap Malformed # {}
  /\ Abandon("delay")
  /\ UNCHANGED <<plc, link, mirror, registryVars, life, cancelled, believed, writing>>

(* One turn of the loop over the regions: the range of its tags is read,    *)
(* it replaces the region's slice, and the tags of the snapshot that read  *)
(* differently in the two are changes.                                     *)
Answer(r) ==
  LET mine == {t \in scanned : Address[t].region = r}
      lo   == Min({Address[t].byte : t \in mine})
      hi   == Max({Address[t].byte + Size(t) : t \in mine})
  IN [offset |-> lo, data |-> SubSeq(plc[r], lo + 1, hi)]
Differing(r, new) == {t \in Good : Address[t].region = r /\ Value(new, t) # Get(t)}

ReadRegionComparesAll(r) ==   \* a mutant: the registry, not the snapshot of it
  /\ pc = "read" /\ r \in todo \cap regions /\ link = "up"
  /\ \E new \in {Answer(r)} : \E differ \in {Differing(r, new)} :
       /\ mirror' = [mirror EXCEPT ![r] = new]
       /\ changes' = [t \in DOMAIN changes \cup (differ \cap registered) |->
                        IF t \in differ THEN Value(new, t) ELSE changes[t]]
       /\ missed' = missed
  /\ todo' = todo \ {r}
  /\ pc' = IF todo' # {} THEN "read" ELSE IF changes' = <<>> THEN "delay" ELSE "notify"
  /\ UNCHANGED <<plc, link, registryVars, life, cancelled, scanned, believed, writing>>

ReadRegion(r) ==
  /\ pc = "read" /\ r \in todo \cap regions /\ link = "up"
  /\ \E new \in {Answer(r)} : \E differ \in {Differing(r, new)} :
       /\ mirror' = [mirror EXCEPT ![r] = new]
       /\ changes' = [t \in DOMAIN changes \cup (differ \cap scanned) |->
                        IF t \in differ THEN Value(new, t) ELSE changes[t]]
       /\ missed' = missed \cup ((differ \ scanned) \cap Subscribed)
  /\ todo' = todo \ {r}
  /\ pc' = IF todo' # {} THEN "read" ELSE IF changes' = <<>> THEN "delay" ELSE "notify"
  /\ UNCHANGED <<plc, link, registryVars, life, cancelled, scanned, believed, writing>>

(* ReadBytesAsync fails, or ApplySnapshot finds no such region. *)
ReadFails ==
  /\ pc = "read" /\ (link = "up" => todo \ regions # {}) /\ link # "mute"
  /\ Abandon("delay")
  /\ UNCHANGED <<plc, link, mirror, registryVars, life, cancelled, believed, writing>>

ReadCancelled ==
  /\ pc = "read" /\ cancelled
  /\ Abandon("off")
  /\ UNCHANGED <<plc, link, mirror, registryVars, life, cancelled, believed, writing>>

NotifyFirstOnly(t) ==   \* a mutant: the first change ends the loop over them
  /\ pc = "notify" /\ t \in DOMAIN changes
  /\ believed' = [believed EXCEPT ![t] = IF @ = None THEN None ELSE changes[t]]
  /\ missed' = missed \ {t} /\ changes' = <<>> /\ pc' = "delay"
  /\ UNCHANGED <<plc, link, mirror, registryVars, life, cancelled, scanned, todo, writing>>

(* One turn of the loop of ChangeNotifier.NotifyChanges. *)
NotifyChange(t) ==
  /\ pc = "notify" /\ t \in DOMAIN changes
  /\ believed' = [believed EXCEPT ![t] = IF @ = None THEN None ELSE changes[t]]
  /\ missed' = missed \ {t}
  /\ changes' = Restrict(changes, DOMAIN changes \ {t})
  /\ pc' = IF changes' = <<>> THEN "delay" ELSE "notify"
  /\ UNCHANGED <<plc, link, mirror, registryVars, life, cancelled, scanned, todo, writing>>

DelayEndsIgnoresToken ==   \* a mutant: while (true)
  /\ pc = "delay" /\ pc' = "scan" /\ scanned' = {}
  /\ UNCHANGED <<plc, link, mirror, registryVars, life, cancelled, todo, changes, believed,
                 missed, writing>>

DelayEnds ==
  /\ pc = "delay"
  /\ pc' = IF cancelled THEN "off" ELSE "scan"
  /\ scanned' = {}
  /\ UNCHANGED <<plc, link, mirror, registryVars, life, cancelled, todo, changes, believed,
                 missed, writing>>

(* PlcSession.AddTag: the registry first, then the region of the mirror. *)
AddTag(t) ==
  /\ adding = None /\ t \notin registered
  /\ registered' = registered \cup {t} /\ adding' = t
  /\ UNCHANGED <<plc, link, mirror, regions, life, cancelled, loopVars, believed, missed,
                 writing>>

RegisterRegion ==
  /\ adding # None /\ adding' = None
  /\ regions' = IF adding \in Good THEN regions \cup {Address[adding].region} ELSE regions
  /\ UNCHANGED <<plc, link, mirror, registered, life, cancelled, loopVars, believed,
                 missed, writing>>

(* RemoveTag leaves the subscriptions of the tag: until the tag is added   *)
(* and notified again, they are told nothing.                              *)
RemoveTag(t) ==
  /\ adding = None /\ t \in registered
  /\ registered' = registered \ {t}
  /\ missed' = missed \cup ({t} \cap Subscribed)
  /\ UNCHANGED <<plc, link, mirror, regions, adding, life, cancelled, loopVars, believed,
                 writing>>

(* A subscriber that reads the tag as it subscribes. *)
Subscribe(t) ==
  /\ t \in registered /\ Stored(t) /\ believed[t] = None
  /\ believed' = [believed EXCEPT ![t] = Get(t)]
  /\ missed' = missed \ {t}
  /\ UNCHANGED <<plc, link, mirror, registryVars, life, cancelled, loopVars, writing>>

Unsubscribe(t) ==
  /\ believed[t] # None
  /\ believed' = [believed EXCEPT ![t] = None] /\ missed' = missed \ {t}
  /\ UNCHANGED <<plc, link, mirror, registryVars, life, cancelled, loopVars, writing>>

(* PlcSession.SetAsync, up to WriteBytesAsync, and the write itself, which *)
(* may also reach the PLC and fail, or not reach it.                       *)
SetAsync(w, t, v) ==
  /\ writing[w] = None /\ t \in registered /\ Stored(t)
  /\ writing' = [writing EXCEPT ![w] = [tag |-> t, data |-> Encode(t, v)]]
  /\ UNCHANGED <<plc, link, mirror, registryVars, life, cancelled, loopVars, believed,
                 missed>>

WriteBytes(w) ==
  /\ writing[w] # None /\ link # "broken"
  /\ LET a == Address[writing[w].tag]
     IN plc' = [plc EXCEPT ![a.region] = Put(@, a.byte, writing[w].data)]
  /\ writing' = [writing EXCEPT ![w] = None]
  /\ UNCHANGED <<link, mirror, registryVars, life, cancelled, loopVars, believed, missed>>

WriteFails(w) ==
  /\ writing[w] # None
  /\ writing' = [writing EXCEPT ![w] = None]
  /\ UNCHANGED <<plc, link, mirror, registryVars, life, cancelled, loopVars, believed,
                 missed>>

Scan ==
  \/ ScanBegins \/ GroupingFails \/ ReadFails \/ DelayEnds
  \/ \E r \in Regions : ReadRegion(r)
  \/ \E t \in Good : NotifyChange(t)

Session ==
  \/ \E t \in Dynamic : AddTag(t) \/ RemoveTag(t)
  \/ \E t \in Watched : Subscribe(t) \/ Unsubscribe(t)
  \/ \E w \in Writers : WriteBytes(w) \/ WriteFails(w)
  \/ \E w \in Writers : \E t \in Written : \E v \in Values(t) : SetAsync(w, t, v)

Next ==
  \/ BeginStart \/ Connected \/ ConnectFails \/ BeginStop \/ StopReturns
  \/ Scan \/ ReadCancelled
  \/ RegisterRegion \/ Session
  \/ LinkBreaks \/ \E t \in Moved : \E v \in Values(t) : PlcProgram(t, v)

Spec == Init /\ [][Next]_vars

(* Running code goes on: the loop, a read that was cancelled, the end of   *)
(* StopAsync and of AddTag. Nothing forces the callers, the connection or  *)
(* the PLC's program to do anything.                                       *)
FairSpec ==
  /\ Spec /\ WF_vars(Scan) /\ WF_vars(ReadCancelled) /\ WF_vars(StopReturns)
  /\ WF_vars(RegisterRegion)

-----------------------------------------------------------------------------
(* What a subscriber believes is what Get would tell it, or the            *)
(* notification is under way, or it fell into one of the gaps of the code: *)
(* a scan that was abandoned after it had replaced the region, a tag added *)
(* while a scan of its region was under way, or a tag removed under its    *)
(* subscription (PlcSyncEngine.ScanOnceAsync, ChangeNotifier).             *)
NoSilentChange ==
  \A t \in registered \cap Subscribed :
    believed[t] # Get(t) => t \in missed \/ (t \in DOMAIN changes /\ changes[t] = Get(t))

Settled(t) ==
  life = "started" /\ link = "up" /\ t \in registered /\ registered \cap Malformed = {}
Mirrored(t) == Stored(t) /\ Get(t) = PlcValue(t)

(* The loop survives every failed scan: once the connection, the tag and   *)
(* the PLC's value stay as they are and no malformed address is registered, *)
(* the mirror shows that value ("下周期再反映").                             *)
EventuallyReflected ==
  \A t \in Good : <>[]Settled(t) /\ <>[][PlcValue(t)' = PlcValue(t)]_plc => <>[]Mirrored(t)

(* StopAsync returns, whatever the loop is doing and whether or not the    *)
(* PLC still answers (PlcSyncEngine.StopAsync awaits _runTask).            *)
StopTerminates == life = "stopping" ~> life = "stopped"

(* SetAsync changes the tag it was asked to write and nothing else.        *)
WriteTouchesOnlyItsTag ==
  [][\A w \in Writers : WriteBytes(w) =>
       \A t \in Good \ {writing[w].tag} : PlcValue(t)' = PlcValue(t)]_vars

(* A byte outside the range that was read is 0, as BufferSlice.ReadBytes    *)
(* says of itself: a tag whose bytes all are reads as 0.                   *)
OutsideReadsZero ==
  \A t \in registered :
    Stored(t) /\ Address[t].type = "float"
    /\ Address[t].byte + Size(t) <= mirror[Address[t].region].offset
      => Get(t) = <<{}, {}>>
=============================================================================
