---------------------------- MODULE PlcSync_proofs ----------------------------
(***************************************************************************)
(* Theorems of PlcSync, for any tags, regions and writers. What the scan   *)
(* has found and not yet told is what the mirror now says; every other way *)
(* for the mirror and a subscriber to differ is recorded in missed.        *)
(***************************************************************************)
EXTENDS PlcSync, WellFoundedInduction, TLAPS

Slices == [offset : Nat, data : Seq(Byte)]

-----------------------------------------------------------------------------
(* Slices and values *)

LEMMA MinOf ==
  ASSUME NEW S, S \subseteq Nat, S # {}
  PROVE  Min(S) \in S /\ \A y \in S : Min(S) <= y
  <1>1. PICK x \in S : \A y \in S : ~ (<<y, x>> \in OpToRel(<, Nat))
    BY NatLessThanWellFounded, WFMin
  <1>2. \A y \in S : <<y, x>> \in OpToRel(<, Nat) <=> y < x
    BY DEF OpToRel
  <1>3. \A y \in S : ~ (y < x)
    BY <1>1, <1>2, Zenon
  <1>4. \A y \in S : x <= y
    BY <1>3
  <1> QED BY <1>4 DEF Min

LEMMA MaxOf ==
  ASSUME NEW S, S \subseteq Nat, S # {}, NEW b \in Nat, \A y \in S : y <= b
  PROVE  Max(S) \in S /\ \A y \in S : Max(S) >= y
  <1> DEFINE D == {b - y : y \in S}
  <1>1. D \subseteq Nat /\ D # {}
    <2>1. \A y \in S : y \in Nat /\ b - y \in Nat
      OBVIOUS
    <2>2. PICK y \in S : TRUE
      OBVIOUS
    <2>3. b - y \in D
      BY <2>2
    <2> QED BY <2>1, <2>3
  <1>2. PICK d \in D : \A e \in D : d <= e
    BY <1>1, MinOf
  <1>3. \A y \in S : b - d \in S /\ b - d >= y
    BY <1>2
  <1> QED BY <1>3 DEF Max

LEMMA MaxPair ==
  ASSUME NEW a \in Int, NEW b \in Int
  PROVE  Max({a, b}) = IF a >= b THEN a ELSE b
  <1>1. \E x \in {a, b} : \A y \in {a, b} : x >= y
    OBVIOUS
  <1> QED BY <1>1 DEF Max

LEMMA MinPair ==
  ASSUME NEW a \in Int, NEW b \in Int
  PROVE  Min({a, b}) = IF a <= b THEN a ELSE b
  <1>1. \E x \in {a, b} : \A y \in {a, b} : x <= y
    OBVIOUS
  <1> QED BY <1>1 DEF Min

(* ReadByte and ReadBytes of BufferSlice return bytes, whatever the range. *)
LEMMA ReadByteType ==
  ASSUME NEW s \in Slices, NEW index \in Nat
  PROVE  ReadByte(s, index) \in Byte
  <1>1. s.offset \in Nat /\ s.data \in Seq(Byte)
    BY DEF Slices
  <1> QED BY <1>1 DEF ReadByte, Byte

LEMMA ReadBytesType ==
  ASSUME NEW s \in Slices, NEW index \in Nat, NEW count \in Nat
  PROVE  ReadBytes(s, index, count) \in [1 .. count -> Byte]
  <1> DEFINE src == Max({0, index - s.offset})
             n   == Max({0, Min({count, Len(s.data) - src})})
  <1>1. s.offset \in Nat /\ s.data \in Seq(Byte) /\ Len(s.data) \in Nat
    BY DEF Slices
  <1>2. src \in Nat
    BY <1>1, MaxPair
  <1>3. n \in Nat /\ (n > 0 => src + n <= Len(s.data))
    <2> HIDE DEF src
    <2> DEFINE m == Min({count, Len(s.data) - src})
    <2>1. m = IF count <= Len(s.data) - src THEN count ELSE Len(s.data) - src
      BY <1>1, <1>2, MinPair
    <2>2. m \in Int /\ m <= Len(s.data) - src
      BY <1>1, <1>2, <2>1
    <2>3. n = Max({0, m})
      OBVIOUS
    <2> HIDE DEF m, n
    <2>4. n = IF 0 >= m THEN 0 ELSE m
      BY <2>2, <2>3, MaxPair
    <2> QED BY <1>1, <1>2, <2>2, <2>4
  <1>4. \A i \in 1 .. count : i <= n => s.data[src + i] \in Byte
    <2> HIDE DEF src, n
    <2> QED BY <1>1, <1>2, <1>3
  <1>5. ReadBytes(s, index, count) = [i \in 1 .. count |-> IF i <= n THEN s.data[src + i] ELSE {}]
    BY DEF ReadBytes
  <1> HIDE DEF src, n
  <1> QED BY <1>4, <1>5 DEF Byte

LEMMA AddressOf ==
  ASSUME NEW t \in Good
  PROVE  /\ Address[t].region \in Regions /\ Address[t].byte \in Nat /\ Address[t].bit \in Bits
         /\ Address[t].type \in {"bool", "byte", "float"} /\ Size(t) \in {1, 2}
  BY AddressAssumption DEF Size

LEMMA ValueType ==
  ASSUME NEW s \in Slices, NEW t \in Good
  PROVE  Value(s, t) \in Readings(t)
  <1>1. ReadByte(s, Address[t].byte) \in Byte
    BY AddressOf, ReadByteType
  <1>2. ReadBytes(s, Address[t].byte, 2) \in [1 .. 2 -> Byte]
    BY AddressOf, ReadBytesType
  <1>3. CASE Address[t].type = "bool"
    BY <1>3 DEF Value, Readings, Values
  <1>4. CASE Address[t].type = "byte"
    BY <1>1, <1>4 DEF Value, Readings, Values
  <1>5. CASE Address[t].type = "float"
    BY <1>2, <1>5 DEF Value, Readings
  <1> QED BY <1>3, <1>4, <1>5, AddressOf

LEMMA FunctionIsSeq ==
  ASSUME NEW n \in Nat, NEW f \in [1 .. n -> Byte]
  PROVE  f \in Seq(Byte) /\ Len(f) = n
  OBVIOUS

LEMMA PutType ==
  ASSUME NEW mem \in Seq(Byte), NEW at \in Nat, NEW data \in Seq(Byte)
  PROVE  Put(mem, at, data) \in Seq(Byte) /\ Len(Put(mem, at, data)) = Len(mem)
  <1>1. \A i \in DOMAIN mem : mem[i] \in Byte
    OBVIOUS
  <1>2. \A i \in DOMAIN mem : i - at \in 1 .. Len(data) => data[i - at] \in Byte
    OBVIOUS
  <1>3. DOMAIN mem = 1 .. Len(mem) /\ Len(mem) \in Nat
    OBVIOUS
  <1>4. Put(mem, at, data) \in [1 .. Len(mem) -> Byte]
    BY <1>1, <1>2, <1>3 DEF Put
  <1> QED BY <1>3, <1>4

(* The range that ReadRegion reads lies in the memory of the PLC. *)
LEMMA AnswerType ==
  ASSUME NEW r \in Regions, scanned \subseteq Good, \E t \in scanned : Address[t].region = r,
         plc \in [Regions -> Seq(Byte)], \A q \in Regions : Len(plc[q]) = Bytes[q]
  PROVE  Answer(r) \in Slices
  <1> DEFINE mine == {t \in scanned : Address[t].region = r}
             los  == {Address[t].byte : t \in mine}
             his  == {Address[t].byte + Size(t) : t \in mine}
             lo   == Min(los)
             hi   == Max(his)
  <1>1. los \subseteq Nat /\ los # {} /\ his \subseteq Nat /\ his # {}
    <2>1. \A t \in mine : Address[t].byte \in Nat /\ Address[t].byte + Size(t) \in Nat
      BY AddressOf
    <2>2. PICK t \in mine : TRUE
      OBVIOUS
    <2>3. Address[t].byte \in los /\ Address[t].byte + Size(t) \in his
      BY <2>2
    <2> QED BY <2>1, <2>3
  <1>2. plc[r] \in Seq(Byte) /\ Len(plc[r]) = Bytes[r] /\ Len(plc[r]) \in Nat
    OBVIOUS
  <1>3. \A h \in his : h <= Bytes[r]
    BY AddressAssumption
  <1>4. lo \in Nat /\ hi \in Nat /\ hi <= Len(plc[r])
    <2>1. lo \in los
      BY <1>1, MinOf
    <2>2. hi \in his
      BY <1>1, <1>2, <1>3, MaxOf
    <2> QED BY <1>1, <1>2, <1>3, <2>1, <2>2
  <1>5. Answer(r) = [offset |-> lo, data |-> SubSeq(plc[r], lo + 1, hi)]
    BY DEF Answer
  <1> HIDE DEF lo, hi
  <1>6. SubSeq(plc[r], lo + 1, hi) \in Seq(Byte)
    BY <1>2, <1>4
  <1> QED BY <1>4, <1>5, <1>6 DEF Slices
-----------------------------------------------------------------------------
(* The invariant *)

(* The loop starts once the PLC is connected. It has regions to read only  *)
(* while it reads, each for a tag of its snapshot, and changes only until  *)
(* it has told them.                                                       *)
LoopOK ==
  /\ life = "connecting" => pc = "off"
  /\ pc # "read" => todo = {}
  /\ pc \notin {"read", "notify"} => DOMAIN changes = {}
  /\ \A r \in todo : \E t \in scanned : Address[t].region = r

(* A change that is to be told is what the mirror says. *)
ChangesCurrent == \A t \in DOMAIN changes : changes[t] = Get(t)

(* NoSilentChange, of tags that are no longer registered, too: a tag that  *)
(* is added again must not bring back a difference that nobody knows of.   *)
NoneSilent ==
  \A t \in Subscribed : believed[t] # Get(t) => t \in missed \/ t \in DOMAIN changes

IInv == TypeOK /\ LoopOK /\ ChangesCurrent /\ NoneSilent

USE TagsAssumption DEF registryVars, loopVars

LEMMA InitIInv == Init => IInv
  <1> SUFFICES ASSUME Init PROVE IInv
    OBVIOUS
  <1> USE DEF Init
  <1>1. Subscribed = {} /\ DOMAIN changes = {}
    BY DEF Subscribed
  <1>2. \A r \in Regions : plc[r] \in Seq(Byte) /\ Len(plc[r]) = Bytes[r]
    <2> TAKE r \in Regions
    <2>1. Bytes[r] \in Nat /\ plc[r] = [i \in 1 .. Bytes[r] |-> {}]
      BY BytesAssumption
    <2>2. plc[r] \in [1 .. Bytes[r] -> Byte]
      BY <2>1 DEF Byte
    <2> QED BY <2>1, <2>2, FunctionIsSeq
  <1>3. Empty \in [offset : Nat, data : Seq(Byte)]
    BY DEF Empty
  <1>4. {Address[t].region : t \in Initial} \subseteq Regions
    BY AddressOf
  <1>5. plc \in [Regions -> Seq(Byte)] /\ mirror \in [Regions -> [offset : Nat, data : Seq(Byte)]]
    BY <1>2, <1>3
  <1>6. TypeOK
    BY <1>1, <1>2, <1>4, <1>5 DEF TypeOK, Good
  <1> QED BY <1>1, <1>6 DEF IInv, LoopOK, ChangesCurrent, NoneSilent

(* The bytes and records of TypeOK, which few steps change. *)
Memory ==
  /\ plc \in [Regions -> Seq(Byte)] /\ \A r \in Regions : Len(plc[r]) = Bytes[r]
  /\ mirror \in [Regions -> Slices]
  /\ writing \in [Writers -> {None} \cup [tag : Good, data : Seq(Byte)]]
Fields ==
  /\ link \in {"up", "mute", "broken"} /\ cancelled \in BOOLEAN
  /\ regions \subseteq Regions
  /\ registered \subseteq Tags /\ adding \in registered \cup {None}
  /\ life \in {"stopped", "connecting", "started", "stopping"}
  /\ pc \in {"off", "scan", "read", "notify", "delay"}
  /\ scanned \subseteq Good /\ todo \subseteq Regions
Beliefs ==
  /\ DOMAIN changes \subseteq scanned
  /\ \A t \in DOMAIN changes : changes[t] \in Readings(t)
  /\ DOMAIN believed = Tags /\ Subscribed \subseteq Good
  /\ \A t \in Subscribed : believed[t] \in Readings(t)
  /\ missed \subseteq Subscribed

LEMMA TypeParts == TypeOK <=> Memory /\ Fields /\ Beliefs
  BY DEF TypeOK, Memory, Fields, Beliefs, Slices

LEMMA GetType == ASSUME Memory, NEW t \in Good PROVE Get(t) \in Readings(t)
  <1>1. mirror[Address[t].region] \in Slices
    BY AddressOf DEF Memory
  <1> QED BY <1>1, ValueType DEF Get

LEMMA MemoryNext == Memory /\ Fields /\ Beliefs /\ LoopOK /\ Next => Memory'
  <1> SUFFICES ASSUME Memory, Fields, Beliefs, LoopOK, Next PROVE Memory'
    OBVIOUS
  <1> USE DEF Memory
  <1>1. CASE BeginStart \/ Connected \/ ConnectFails \/ BeginStop \/ StopReturns
    BY <1>1 DEF BeginStart, Connected, ConnectFails, BeginStop, StopReturns
  <1>2. CASE ScanBegins \/ GroupingFails \/ ReadFails \/ DelayEnds \/ ReadCancelled
    BY <1>2 DEF ScanBegins, GroupingFails, ReadFails, DelayEnds, ReadCancelled
  <1>3. ASSUME NEW r \in Regions, ReadRegion(r) PROVE Memory'
    <2>1. Answer(r) \in Slices
      BY <1>3, AnswerType DEF Fields, LoopOK, ReadRegion
    <2>2. mirror' = [mirror EXCEPT ![r] = Answer(r)]
      BY <1>3 DEF ReadRegion
    <2> QED BY <1>3, <2>1, <2>2 DEF ReadRegion
  <1>4. ASSUME NEW t \in Tags, NotifyChange(t) \/ AddTag(t) \/ RemoveTag(t) \/ Subscribe(t)
                               \/ Unsubscribe(t)
        PROVE  Memory'
    BY <1>4 DEF NotifyChange, AddTag, RemoveTag, Subscribe, Unsubscribe
  <1>5. CASE RegisterRegion \/ LinkBreaks
    BY <1>5 DEF RegisterRegion, LinkBreaks
  <1>6. ASSUME NEW w \in Writers, WriteBytes(w) PROVE Memory'
    <2> DEFINE t == writing[w].tag
               a == Address[t]
               new == Put(plc[a.region], a.byte, writing[w].data)
    <2>1. t \in Good /\ writing[w].data \in Seq(Byte)
      BY <1>6 DEF WriteBytes
    <2>2. a.region \in Regions /\ a.byte \in Nat
      BY <2>1, AddressOf
    <2>3. new \in Seq(Byte) /\ Len(new) = Len(plc[a.region])
      BY <2>1, <2>2, PutType
    <2>4. plc' = [plc EXCEPT ![a.region] = new]
      BY <1>6 DEF WriteBytes
    <2> HIDE DEF new, a
    <2>5. plc' \in [Regions -> Seq(Byte)] /\ \A r \in Regions : Len(plc'[r]) = Bytes[r]
      BY <2>2, <2>3, <2>4
    <2> QED BY <1>6, <2>5 DEF WriteBytes
  <1>7. ASSUME NEW w \in Writers, WriteFails(w) PROVE Memory'
    BY <1>7 DEF WriteFails
  <1>8. ASSUME NEW w \in Writers, NEW t \in Good, NEW v \in Values(t), SetAsync(w, t, v)
        PROVE  Memory'
    <2>1. Encode(t, v) \in Seq(Byte)
      <3>1. ReadByte(mirror[Address[t].region], Address[t].byte) \in Byte
        BY AddressOf, ReadByteType
      <3>2. CASE Address[t].type = "bool"
        <4>1. SetBit(ReadByte(mirror[Address[t].region], Address[t].byte), Address[t].bit, v)
                \in Byte
          BY <3>1, AddressOf DEF SetBit, Byte
        <4> QED BY <3>2, <4>1 DEF Encode
      <3>3. CASE Address[t].type = "byte"
        BY <3>3 DEF Encode, Values
      <3>4. CASE Address[t].type = "float"
        <4>1. PICK x \in Byte : v = <<x, x>>
          BY <3>4 DEF Values
        <4> QED BY <3>4, <4>1 DEF Encode
      <3> QED BY <3>2, <3>3, <3>4, AddressOf
    <2> QED BY <1>8, <2>1 DEF SetAsync
  <1>9. ASSUME NEW t \in Good, NEW v \in Values(t), PlcProgram(t, v) PROVE Memory'
    <2> DEFINE a == Address[t]
               data == IF a.type = "bool" THEN <<SetBit(plc[a.region][a.byte + 1], a.bit, v)>>
                       ELSE IF a.type = "byte" THEN <<v>> ELSE v
               new == Put(plc[a.region], a.byte, data)
    <2>1. a.region \in Regions /\ a.byte \in Nat /\ a.byte + 1 <= Len(plc[a.region])
      <3>1. a.region \in Regions /\ a.byte \in Nat /\ a.byte + Size(t) <= Bytes[a.region]
        BY AddressOf, AddressAssumption
      <3>2. Size(t) \in {1, 2} /\ Bytes[a.region] \in Nat
        BY <3>1, BytesAssumption DEF Size
      <3>3. Len(plc[a.region]) = Bytes[a.region]
        BY <3>1
      <3> HIDE DEF a
      <3> QED BY <3>1, <3>2, <3>3
    <2>2. data \in Seq(Byte)
      <3>1. plc[a.region][a.byte + 1] \in Byte
        BY <2>1
      <3>2. CASE a.type = "bool"
        <4>1. SetBit(plc[a.region][a.byte + 1], a.bit, v) \in Byte
          BY <3>1, AddressOf DEF SetBit, Byte
        <4> QED BY <3>2, <4>1
      <3>3. CASE a.type = "byte"
        BY <3>3 DEF Values
      <3>4. CASE a.type = "float"
        <4>1. PICK x \in Byte : v = <<x, x>>
          BY <3>4 DEF Values
        <4> QED BY <3>4, <4>1
      <3> QED BY <3>2, <3>3, <3>4, AddressOf
    <2>3. new \in Seq(Byte) /\ Len(new) = Len(plc[a.region])
      <3> HIDE DEF data
      <3> QED BY <2>1, <2>2, PutType
    <2>4. plc' = [plc EXCEPT ![a.region] = new]
      BY <1>9 DEF PlcProgram
    <2> HIDE DEF new
    <2>5. plc' \in [Regions -> Seq(Byte)] /\ \A r \in Regions : Len(plc'[r]) = Bytes[r]
      BY <2>1, <2>3, <2>4
    <2> QED BY <1>9, <2>5 DEF PlcProgram
  <1> QED
    BY <1>1, <1>2, <1>3, <1>4, <1>5, <1>6, <1>7, <1>8, <1>9 DEF Next, Scan, Session, Good

LEMMA FieldsNext == Fields /\ LoopOK /\ Next => Fields'
  <1> SUFFICES ASSUME Fields, LoopOK, Next PROVE Fields'
    OBVIOUS
  <1> USE DEF Fields
  <1>1. CASE BeginStart \/ Connected \/ ConnectFails \/ BeginStop \/ StopReturns
    BY <1>1 DEF BeginStart, Connected, ConnectFails, BeginStop, StopReturns
  <1>2. CASE ScanBegins
    BY <1>2, AddressOf DEF ScanBegins, Good
  <1>3. CASE GroupingFails \/ ReadFails \/ DelayEnds \/ ReadCancelled
    BY <1>3 DEF GroupingFails, ReadFails, DelayEnds, ReadCancelled, Abandon
  <1>4. ASSUME NEW r \in Regions, ReadRegion(r) PROVE Fields'
    BY <1>4 DEF ReadRegion
  <1>5. ASSUME NEW t \in Good, NotifyChange(t) PROVE Fields'
    BY <1>5 DEF NotifyChange
  <1>6. ASSUME NEW t \in Dynamic, AddTag(t) \/ RemoveTag(t) PROVE Fields'
    BY <1>6 DEF AddTag, RemoveTag
  <1>7. ASSUME NEW t \in Watched, Subscribe(t) \/ Unsubscribe(t) PROVE Fields'
    BY <1>7 DEF Subscribe, Unsubscribe
  <1>8. CASE RegisterRegion \/ LinkBreaks
    BY <1>8, AddressOf DEF RegisterRegion, LinkBreaks
  <1>9. ASSUME NEW w \in Writers, WriteBytes(w) \/ WriteFails(w) PROVE Fields'
    BY <1>9 DEF WriteBytes, WriteFails
  <1>10. ASSUME NEW w \in Writers, NEW t \in Written, NEW v \in Values(t), SetAsync(w, t, v)
         PROVE  Fields'
    BY <1>10 DEF SetAsync
  <1>11. ASSUME NEW t \in Moved, NEW v \in Values(t), PlcProgram(t, v) PROVE Fields'
    BY <1>11 DEF PlcProgram
  <1> QED
    BY <1>1, <1>2, <1>3, <1>4, <1>5, <1>6, <1>7, <1>8, <1>9, <1>10, <1>11 DEF Next, Scan, Session

LEMMA LoopNext == Fields /\ Beliefs /\ LoopOK /\ Next => LoopOK'
  <1> SUFFICES ASSUME Fields, Beliefs, LoopOK, Next PROVE LoopOK'
    OBVIOUS
  <1> USE DEF LoopOK
  <1>1. CASE BeginStart \/ Connected \/ ConnectFails \/ BeginStop \/ StopReturns
    BY <1>1 DEF Fields, BeginStart, Connected, ConnectFails, BeginStop, StopReturns
  <1>2. CASE ScanBegins
    BY <1>2 DEF ScanBegins
  <1>3. CASE GroupingFails \/ ReadFails \/ ReadCancelled
    BY <1>3 DEF GroupingFails, ReadFails, ReadCancelled, Abandon
  <1>4. CASE DelayEnds
    BY <1>4 DEF DelayEnds
  <1>5. ASSUME NEW r \in Regions, ReadRegion(r) PROVE LoopOK'
    <2>1. pc' = IF todo' # {} THEN "read" ELSE IF changes' = <<>> THEN "delay" ELSE "notify"
      BY <1>5 DEF ReadRegion
    <2>2. todo' \subseteq todo /\ scanned' = scanned /\ life' # "connecting"
      BY <1>5 DEF ReadRegion
    <2>3. changes' = <<>> => DOMAIN changes' = {}
      OBVIOUS
    <2> QED BY <2>1, <2>2, <2>3
  <1>6. ASSUME NEW t \in Good, NotifyChange(t) PROVE LoopOK'
    <2>1. pc' = IF changes' = <<>> THEN "delay" ELSE "notify"
      BY <1>6 DEF NotifyChange
    <2>2. changes' = <<>> => DOMAIN changes' = {}
      OBVIOUS
    <2> QED BY <1>6, <2>1, <2>2 DEF NotifyChange
  <1>7. ASSUME NEW t \in Tags, AddTag(t) \/ RemoveTag(t) \/ Subscribe(t) \/ Unsubscribe(t)
        PROVE  LoopOK'
    BY <1>7 DEF AddTag, RemoveTag, Subscribe, Unsubscribe
  <1>8. CASE RegisterRegion \/ LinkBreaks
    BY <1>8 DEF RegisterRegion, LinkBreaks
  <1>9. ASSUME NEW w \in Writers, WriteBytes(w) \/ WriteFails(w) PROVE LoopOK'
    BY <1>9 DEF WriteBytes, WriteFails
  <1>10. ASSUME NEW w \in Writers, NEW t \in Good, NEW v \in Values(t), SetAsync(w, t, v)
         PROVE  LoopOK'
    BY <1>10 DEF SetAsync
  <1>11. ASSUME NEW t \in Good, NEW v \in Values(t), PlcProgram(t, v) PROVE LoopOK'
    BY <1>11 DEF PlcProgram
  <1> QED
    BY <1>1, <1>2, <1>3, <1>4, <1>5, <1>6, <1>7, <1>8, <1>9, <1>10, <1>11
    DEF Next, Scan, Session, Good

-----------------------------------------------------------------------------
(* What the subscribers are told *)

(* The scan's snapshot and changes after a region was read. *)
LEMMA ReadRegionFacts ==
  ASSUME Memory, Beliefs, NEW r \in Regions, ReadRegion(r)
  PROVE  /\ \A t \in Good : Address[t].region = r => Get(t)' = Value(Answer(r), t)
         /\ \A t \in Good : Address[t].region # r => Get(t)' = Get(t)
         /\ \A t \in DOMAIN changes' :
              changes'[t] = IF t \in Differing(r, Answer(r)) THEN Value(Answer(r), t)
                            ELSE changes[t]
         /\ DOMAIN changes' = DOMAIN changes \cup (Differing(r, Answer(r)) \cap scanned)
         /\ missed' = missed \cup ((Differing(r, Answer(r)) \ scanned) \cap Subscribed)
         /\ UNCHANGED <<believed, scanned>>
  <1>1. mirror' = [mirror EXCEPT ![r] = Answer(r)]
    BY DEF ReadRegion
  <1>2. \A q \in Regions : mirror'[q] = IF q = r THEN Answer(r) ELSE mirror[q]
    BY <1>1 DEF Memory
  <1>3. \A t \in Good : Get(t)' = Value(mirror'[Address[t].region], t)
    BY DEF Get
  <1> QED BY <1>2, <1>3, AddressOf DEF ReadRegion, Get

(* Other steps leave the mirror alone. *)
LEMMA GetKept == ASSUME UNCHANGED mirror PROVE \A t \in Good : Get(t)' = Get(t)
  BY DEF Get

LEMMA BeliefsNext == Memory /\ Fields /\ Beliefs /\ LoopOK /\ Next => Beliefs'
  <1> SUFFICES ASSUME Memory, Fields, Beliefs, LoopOK, Next PROVE Beliefs'
    OBVIOUS
  <1> USE DEF Beliefs, Subscribed
  <1>1. ASSUME NEW r \in Regions, ReadRegion(r) PROVE Beliefs'
    <2>1. Answer(r) \in Slices
      BY <1>1, AnswerType DEF Memory, Fields, LoopOK, ReadRegion
    <2>2. Differing(r, Answer(r)) \subseteq Good
      BY DEF Differing
    <2>3. ASSUME NEW t \in DOMAIN changes' PROVE changes'[t] \in Readings(t)
      <3>1. CASE t \in Differing(r, Answer(r))
        <4>1. Value(Answer(r), t) \in Readings(t)
          BY <2>1, <2>2, <3>1, ValueType
        <4> QED BY <1>1, <2>3, <3>1, <4>1, ReadRegionFacts
      <3>2. CASE t \notin Differing(r, Answer(r))
        BY <1>1, <2>3, <3>2, ReadRegionFacts
      <3> QED BY <3>1, <3>2
    <2> QED BY <1>1, <2>2, <2>3, ReadRegionFacts
  <1>2. ASSUME NEW t \in Good, NotifyChange(t) PROVE Beliefs'
    <2>1. /\ DOMAIN changes' = DOMAIN changes \ {t}
          /\ \A u \in DOMAIN changes' : changes'[u] = changes[u]
      BY <1>2 DEF NotifyChange, Restrict
    <2> QED BY <1>2, <2>1 DEF NotifyChange
  <1>3. CASE GroupingFails \/ ReadFails \/ ReadCancelled
    <2>1. changes' = <<>> => DOMAIN changes' = {}
      OBVIOUS
    <2> QED BY <1>3, <2>1 DEF GroupingFails, ReadFails, ReadCancelled, Abandon
  <1>4. ASSUME NEW t \in Tags, AddTag(t) \/ RemoveTag(t) PROVE Beliefs'
    BY <1>4 DEF AddTag, RemoveTag
  <1>5. CASE BeginStart \/ Connected \/ ConnectFails \/ BeginStop \/ StopReturns \/ ScanBegins
         \/ DelayEnds \/ RegisterRegion \/ LinkBreaks
    BY <1>5 DEF LoopOK, BeginStart, Connected, ConnectFails, BeginStop, StopReturns, ScanBegins,
                DelayEnds, RegisterRegion, LinkBreaks
  <1>6. ASSUME NEW w \in Writers, WriteBytes(w) \/ WriteFails(w) PROVE Beliefs'
    BY <1>6 DEF WriteBytes, WriteFails
  <1>7. ASSUME NEW w \in Writers, NEW t \in Good, NEW v \in Values(t), SetAsync(w, t, v)
        PROVE  Beliefs'
    BY <1>7 DEF SetAsync
  <1>8. ASSUME NEW t \in Good, NEW v \in Values(t), PlcProgram(t, v) PROVE Beliefs'
    BY <1>8 DEF PlcProgram
  <1>9. ASSUME NEW t \in Watched, Subscribe(t) \/ Unsubscribe(t) PROVE Beliefs'
    BY <1>9, GetType DEF Subscribe, Unsubscribe
  <1> QED
    BY <1>1, <1>2, <1>3, <1>4, <1>5, <1>6, <1>7, <1>8, <1>9 DEF Next, Scan, Session, Good

LEMMA CurrentNext == Memory /\ Fields /\ Beliefs /\ ChangesCurrent /\ Next => ChangesCurrent'
  <1> SUFFICES ASSUME Memory, Fields, Beliefs, ChangesCurrent, Next PROVE ChangesCurrent'
    OBVIOUS
  <1> USE DEF ChangesCurrent
  <1>0. DOMAIN changes \subseteq Good
    BY DEF Beliefs, Fields
  <1>1. ASSUME NEW r \in Regions, ReadRegion(r) PROVE ChangesCurrent'
    <2>1. ASSUME NEW t \in DOMAIN changes' PROVE changes'[t] = Get(t)'
      <3>1. t \in Good
        BY <1>0, <1>1, <2>1, ReadRegionFacts DEF Differing
      <3>2. CASE t \in Differing(r, Answer(r))
        BY <1>1, <2>1, <3>1, <3>2, ReadRegionFacts DEF Differing
      <3>3. CASE t \notin Differing(r, Answer(r))
        <4>1. t \in DOMAIN changes /\ changes'[t] = changes[t]
          BY <1>1, <2>1, <3>3, ReadRegionFacts
        <4>2. Get(t)' = Get(t)
          BY <1>1, <3>1, <3>3, ReadRegionFacts DEF Differing
        <4> QED BY <4>1, <4>2
      <3> QED BY <3>2, <3>3
    <2> QED BY <2>1
  <1>2. ASSUME NEW t \in Good, NotifyChange(t) PROVE ChangesCurrent'
    <2>1. /\ DOMAIN changes' = DOMAIN changes \ {t}
          /\ \A u \in DOMAIN changes' : changes'[u] = changes[u]
      BY <1>2 DEF NotifyChange, Restrict
    <2> QED BY <1>0, <1>2, <2>1, GetKept DEF NotifyChange
  <1>3. CASE GroupingFails \/ ReadFails \/ ReadCancelled
    <2>1. changes' = <<>> => DOMAIN changes' = {}
      OBVIOUS
    <2> QED BY <1>3, <2>1 DEF GroupingFails, ReadFails, ReadCancelled, Abandon
  <1>4. ASSUME NEW t \in Tags, AddTag(t) \/ RemoveTag(t) \/ Subscribe(t) \/ Unsubscribe(t)
        PROVE  ChangesCurrent'
    BY <1>0, <1>4, GetKept DEF AddTag, RemoveTag, Subscribe, Unsubscribe
  <1>5. CASE BeginStart \/ Connected \/ ConnectFails \/ BeginStop \/ StopReturns \/ ScanBegins
         \/ DelayEnds \/ RegisterRegion \/ LinkBreaks
    BY <1>0, <1>5, GetKept
    DEF BeginStart, Connected, ConnectFails, BeginStop, StopReturns, ScanBegins, DelayEnds,
        RegisterRegion, LinkBreaks
  <1>6. ASSUME NEW w \in Writers, WriteBytes(w) \/ WriteFails(w) PROVE ChangesCurrent'
    BY <1>0, <1>6, GetKept DEF WriteBytes, WriteFails
  <1>7. ASSUME NEW w \in Writers, NEW t \in Good, NEW v \in Values(t), SetAsync(w, t, v)
        PROVE  ChangesCurrent'
    BY <1>0, <1>7, GetKept DEF SetAsync
  <1>8. ASSUME NEW t \in Good, NEW v \in Values(t), PlcProgram(t, v) PROVE ChangesCurrent'
    BY <1>0, <1>8, GetKept DEF PlcProgram
  <1> QED
    BY <1>1, <1>2, <1>3, <1>4, <1>5, <1>6, <1>7, <1>8 DEF Next, Scan, Session, Good

LEMMA SilentNext ==
  Memory /\ Fields /\ Beliefs /\ ChangesCurrent /\ NoneSilent /\ Next => NoneSilent'
  <1> SUFFICES ASSUME Memory, Fields, Beliefs, ChangesCurrent, NoneSilent, Next
               PROVE  NoneSilent'
    OBVIOUS
  <1> USE DEF NoneSilent, Subscribed
  <1>0. Subscribed \subseteq Good
    BY DEF Beliefs
  <1>1. ASSUME NEW r \in Regions, ReadRegion(r) PROVE NoneSilent'
    <2>1. ASSUME NEW t \in Subscribed, believed[t] # Get(t)'
          PROVE  t \in missed' \/ t \in DOMAIN changes'
      <3>1. CASE t \in Differing(r, Answer(r))
        BY <1>1, <3>1, ReadRegionFacts
      <3>2. CASE t \notin Differing(r, Answer(r))
        <4>1. Get(t)' = Get(t)
          BY <1>0, <1>1, <3>2, ReadRegionFacts DEF Differing
        <4> QED BY <1>1, <2>1, <4>1, ReadRegionFacts
      <3> QED BY <3>1, <3>2
    <2> QED BY <1>1, <2>1, ReadRegionFacts
  <1>2. ASSUME NEW t \in Good, NotifyChange(t) PROVE NoneSilent'
    <2>1. DOMAIN changes' = DOMAIN changes \ {t}
      BY <1>2 DEF NotifyChange, Restrict
    <2>2. believed[t] # None => believed'[t] = Get(t)'
      BY <1>2, GetKept DEF NotifyChange, ChangesCurrent, Beliefs, Good
    <2> QED BY <1>0, <1>2, <2>1, <2>2, GetKept DEF NotifyChange, Beliefs
  <1>3. CASE GroupingFails \/ ReadFails \/ ReadCancelled
    BY <1>0, <1>3, GetKept DEF GroupingFails, ReadFails, ReadCancelled, Abandon
  <1>4. ASSUME NEW t \in Tags, AddTag(t) \/ RemoveTag(t) PROVE NoneSilent'
    BY <1>0, <1>4, GetKept DEF AddTag, RemoveTag
  <1>5. CASE BeginStart \/ Connected \/ ConnectFails \/ BeginStop \/ StopReturns \/ ScanBegins
         \/ DelayEnds \/ RegisterRegion \/ LinkBreaks
    BY <1>0, <1>5, GetKept
    DEF BeginStart, Connected, ConnectFails, BeginStop, StopReturns, ScanBegins, DelayEnds,
        RegisterRegion, LinkBreaks
  <1>6. ASSUME NEW w \in Writers, WriteBytes(w) \/ WriteFails(w) PROVE NoneSilent'
    BY <1>0, <1>6, GetKept DEF WriteBytes, WriteFails
  <1>7. ASSUME NEW w \in Writers, NEW t \in Good, NEW v \in Values(t), SetAsync(w, t, v)
        PROVE  NoneSilent'
    BY <1>0, <1>7, GetKept DEF SetAsync
  <1>8. ASSUME NEW t \in Good, NEW v \in Values(t), PlcProgram(t, v) PROVE NoneSilent'
    BY <1>0, <1>8, GetKept DEF PlcProgram
  <1>9. ASSUME NEW t \in Watched, Subscribe(t) \/ Unsubscribe(t) PROVE NoneSilent'
    BY <1>0, <1>9, GetKept DEF Subscribe, Unsubscribe, Beliefs
  <1> QED
    BY <1>1, <1>2, <1>3, <1>4, <1>5, <1>6, <1>7, <1>8, <1>9 DEF Next, Scan, Session, Good

-----------------------------------------------------------------------------
LEMMA NextIInv == IInv /\ [Next]_vars => IInv'
  <1> SUFFICES ASSUME IInv, [Next]_vars PROVE IInv'
    OBVIOUS
  <1>0. Memory /\ Fields /\ Beliefs
    BY TypeParts DEF IInv
  <1>1. CASE Next
    <2>1. Memory' /\ Fields' /\ Beliefs'
      BY <1>0, <1>1, MemoryNext, FieldsNext, BeliefsNext DEF IInv
    <2>2. LoopOK' /\ ChangesCurrent' /\ NoneSilent'
      BY <1>0, <1>1, LoopNext, CurrentNext, SilentNext DEF IInv
    <2> QED BY <2>1, <2>2, TypeParts, PTL DEF IInv
  <1>2. CASE UNCHANGED vars
    BY <1>2 DEF vars, IInv, TypeOK, Subscribed, LoopOK, ChangesCurrent, NoneSilent, Get
  <1> QED BY <1>1, <1>2

LEMMA Invariant == Spec => []IInv
  BY InitIInv, NextIInv, PTL DEF Spec

(* What the engine, the mirror and the session keep has its type: a read   *)
(* never leaves the memory of the PLC, and a scan reports changes of its   *)
(* snapshot only.                                                          *)
THEOREM TypeCorrect == Spec => []TypeOK
  <1>1. IInv => TypeOK
    BY DEF IInv
  <1> QED BY <1>1, Invariant, PTL

(* A subscriber is behind the mirror only if its notification is under     *)
(* way, or if it fell into one of the three gaps that missed records.      *)
THEOREM OnlyKnownGaps == Spec => []NoSilentChange
  <1>1. IInv => NoSilentChange
    BY DEF IInv, NoneSilent, ChangesCurrent, NoSilentChange
  <1> QED BY <1>1, Invariant, PTL

=============================================================================
