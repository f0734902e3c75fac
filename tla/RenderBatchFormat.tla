------------------------- MODULE RenderBatchFormat -------------------------
(***************************************************************************)
(* How a render batch travels from .NET to the page.  RenderBatchWriter    *)
(* serialises it into the one ArrayBuffer that ReusableArrayBufferStream   *)
(* keeps for all batches and that grows by doubling; ElectronRenderer      *)
(* hands buffer and length to Blazor._internal.renderBatch, which reads    *)
(* the batch in place through OutOfProcessRenderBatch.                     *)
(*                                                                         *)
(* Memory is modelled byte by byte, because every location in the format   *)
(* is a byte position and strings have any length.  A byte is a pair:      *)
(* <<"byte", n>>, or <<s, i>> for the i-th byte of the UTF-8 form of the   *)
(* string s, which is all that is modelled of the encoding.                *)
(***************************************************************************)
EXTENDS Integers, Sequences, SequencesExt, FiniteSets, TLC

CONSTANTS
    Utf8Length,     \* a function from the strings to the bytes each takes
    WhiteSpace,     \* the strings of white space only, "" among them
    NoString,       \* the null string
    NoBatch,        \* nothing rendered yet
    Batches,        \* the batches the renderer may produce
    InitialSize,    \* size of the first ArrayBuffer, 64 KiB in the code
    MaxRenders      \* bound: batches rendered

Strings == DOMAIN Utf8Length

ASSUME FormatAssumption ==
    /\ \A s \in Strings : Utf8Length[s] \in 0 .. 16383
    /\ WhiteSpace \subseteq Strings
    /\ InitialSize \in Nat \ {0}
    /\ MaxRenders \in Nat

VARIABLES
    stream,     \* [buffer, length, position] of the reusable stream
    sent,       \* the last batch given to the page, or NoBatch
    seen,       \* what the page read of it
    renders     \* batches rendered so far, for the bound

formatVars == <<stream, sent, seen, renders>>

-----------------------------------------------------------------------------
(* Bytes.                                                                  *)

Bytes(numbers) == [i \in DOMAIN numbers |-> <<"byte", numbers[i]>>]

Zeros(n) == [i \in 1 .. n |-> <<"byte", 0>>]

Int32(v) == Bytes([i \in 1 .. 4 |-> (v \div 256 ^ (i - 1)) % 256])

(* A 64-bit number is a pair of its high and its low 32 bits.              *)
UInt64(id) == Int32(id[2]) \o Int32(id[1])

Utf8(s) == [i \in 1 .. Utf8Length[s] |-> <<s, i>>]

(* BinaryWriter.Write(string): the length in 7-bit groups, then the bytes. *)
PrefixedUtf8(s) ==
    LET n == Utf8Length[s]
    IN  (IF n < 128 THEN Bytes(<<n>>) ELSE Bytes(<<(n % 128) + 128, n \div 128>>)) \o Utf8(s)

-----------------------------------------------------------------------------
(* ReusableArrayBufferStream.                                              *)

(* Mutant: the new buffer starts empty.                                   *)
GrowForgetting(buffer, requiredSize) ==
    LET doubled(k) == Len(buffer) * 2 ^ k
        steps == CHOOSE k \in 0 .. 16 :
                    /\ doubled(k) >= requiredSize
                    /\ \A j \in 0 .. k - 1 : doubled(j) < requiredSize
    IN  Zeros(doubled(steps))

Grow(buffer, requiredSize) ==
    LET doubled(k) == Len(buffer) * 2 ^ k
        steps == CHOOSE k \in 0 .. 16 :
                    /\ doubled(k) >= requiredSize
                    /\ \A j \in 0 .. k - 1 : doubled(j) < requiredSize
    IN  buffer \o Zeros(doubled(steps) - Len(buffer))

SetLength(s, value) ==
    [buffer   |-> IF value > Len(s.buffer) THEN Grow(s.buffer, value) ELSE s.buffer,
     length   |-> value,
     position |-> IF s.position > value THEN value ELSE s.position]

(* The setter of Position ignores the value; it only extends the length.   *)
SetPosition(s) == IF s.position > s.length THEN SetLength(s, s.position) ELSE s

StreamWrite(s, bytes) ==
    LET end == s.position + Len(bytes)
        room == IF end > Len(s.buffer) THEN Grow(s.buffer, end) ELSE s.buffer
    IN  [buffer   |-> SubSeq(room, 1, s.position) \o bytes
                        \o SubSeq(room, end + 1, Len(room)),
         length   |-> IF end > s.length THEN end ELSE s.length,
         position |-> end]

-----------------------------------------------------------------------------
(* RenderBatchWriter.  The writer w holds the stream it writes to, the     *)
(* string table, the indices of the strings that may be shared, and        *)
(* whether it still runs: after an exception nothing more is written.      *)

Writer(out) == [out |-> out, strings |-> <<>>, indices |-> <<>>, ok |-> TRUE]

Put(w, bytes) == IF w.ok THEN [w EXCEPT !.out = StreamWrite(@, bytes)] ELSE w

WriteInt(w, v) == Put(w, Int32(v))

WriteString(w, s, allowDeduplication) ==
    LET known == allowDeduplication /\ s \in DOMAIN w.indices
        index == IF known THEN w.indices[s] ELSE Len(w.strings)
        added == [w EXCEPT !.strings = Append(@, s),
                           !.indices = IF allowDeduplication THEN @ @@ (s :> index) ELSE @]
    IN  IF s = NoString
        THEN WriteInt(w, -1)
        ELSE WriteInt(IF known THEN w ELSE added, index)

WriteEdit(w, edit) ==
    WriteString(WriteInt(WriteInt(WriteInt(w, edit.type), edit.sibling), edit.index),
                edit.name, TRUE)

WriteDiff(w, diff, edits) ==
    FoldLeft(WriteEdit, WriteInt(WriteInt(w, diff.component), diff.count),
             SubSeq(edits, diff.offset + 1, diff.offset + diff.count))

(* Each diff's location is remembered; the table of locations follows them.*)
WriteDiffs(w, batch) ==
    LET one(acc, diff) == [w  |-> WriteDiff(acc.w, diff, batch.edits),
                           at |-> Append(acc.at, acc.w.out.position)]
        all == FoldLeft(one, [w |-> w, at |-> <<>>], batch.updated)
    IN  [w  |-> FoldLeft(WriteInt, WriteInt(all.w, Len(all.at)), all.at),
         at |-> all.w.out.position]

(* Frame types (RenderTreeFrameType), with the numbers the page reads too. *)
Element == 1
Text == 2
Attribute == 3
Component == 4
Region == 5
ElementReferenceCapture == 6
ComponentReferenceCapture == 7
Markup == 8
NamedEvent == 10

(* A bool is sent as "" or null, an object that is not a string as null.   *)
AttributeString(value) ==
    CASE value.kind = "bool"   -> IF value.bool THEN "" ELSE NoString
      [] value.kind = "string" -> value.string
      [] value.kind = "object" -> NoString

WriteAttributeValue(w, value) ==
    LET s == AttributeString(value)
    IN  WriteString(w, s, value.kind = "bool" \/ s \in {"", NoString})

WriteFrame(w, f) ==
    LET t == WriteInt(w, f.type)
        pad(x, n) == Put(x, Zeros(n))
    IN  CASE f.type = Attribute ->
                Put(WriteAttributeValue(WriteString(t, f.name, TRUE), f.value),
                    UInt64(f.handler))
          [] f.type = Component ->
                pad(WriteInt(WriteInt(t, f.subtree), f.component), 8)
          [] f.type = ComponentReferenceCapture -> pad(t, 16)
          [] f.type = Element ->
                pad(WriteString(WriteInt(t, f.subtree), f.name, TRUE), 8)
          [] f.type = Region -> pad(WriteInt(t, f.subtree), 12)
          [] f.type = ElementReferenceCapture -> pad(WriteString(t, f.text, FALSE), 12)
          [] f.type = Text -> pad(WriteString(t, f.text, f.text \in WhiteSpace), 12)
          [] f.type = Markup -> pad(WriteString(t, f.text, FALSE), 12)
          [] OTHER -> [t EXCEPT !.ok = FALSE]

WriteFrames(w, frames) ==
    [w  |-> FoldLeft(WriteFrame, WriteInt(w, Len(frames)), frames),
     at |-> w.out.position]

(* An array of numbers, given by their bytes.                              *)
WriteNumbers(w, numbers) ==
    [w  |-> FoldLeft(Put, WriteInt(w, Len(numbers)), numbers),
     at |-> w.out.position]

WriteStringTable(w) ==
    LET one(acc, s) == [w  |-> Put(acc.w, PrefixedUtf8(s)),
                        at |-> Append(acc.at, acc.w.out.position)]
        all == FoldLeft(one, [w |-> w, at |-> <<>>], w.strings)
    IN  [w |-> FoldLeft(WriteInt, all.w, all.at), at |-> all.w.out.position]

WriteBatch(out, batch) ==
    LET updated    == WriteDiffs(Writer(out), batch)
        frames     == WriteFrames(updated.w, batch.frames)
        components == WriteNumbers(frames.w,
                        [i \in DOMAIN batch.disposedComponents |->
                           Int32(batch.disposedComponents[i])])
        handlers   == WriteNumbers(components.w,
                        [i \in DOMAIN batch.disposedHandlers |->
                           UInt64(batch.disposedHandlers[i])])
        strings    == WriteStringTable(handlers.w)
    IN  FoldLeft(WriteInt, strings.w,
                 <<updated.at, frames.at, components.at, handlers.at, strings.at>>)

-----------------------------------------------------------------------------
(* OutOfProcessRenderBatch and BinaryDecoder.  data is the part of the     *)
(* buffer the page was given; positions count from 0.  A read outside it   *)
(* gives 0.                                                                *)

Byte(data, p) ==
    IF p + 1 \notin DOMAIN data THEN 0
    ELSE IF data[p + 1][1] = "byte" THEN data[p + 1][2] ELSE data[p + 1][2] % 128

ReadInt32(data, p) ==
    LET top == Byte(data, p + 3)
    IN  Byte(data, p) + 256 * Byte(data, p + 1) + 65536 * Byte(data, p + 2)
          + 16777216 * (IF top >= 128 THEN top - 256 ELSE top)

ReadUInt64(data, p) == <<ReadInt32(data, p + 4), ReadInt32(data, p)>>

(* The length prefix: its value and the bytes it takes.                    *)
LEB128Bytes(n) == IF n < 128 THEN 1 ELSE IF n < 16384 THEN 2 ELSE IF n < 2097152 THEN 3 ELSE 4

ReadLEB128(data, p) ==
    LET part(i) == Byte(data, p + i) % 128
        more(i) == \A j \in 0 .. i - 1 : Byte(data, p + j) >= 128
        term(i) == IF more(i) THEN part(i) * 128 ^ i ELSE 0
    IN  term(0) + term(1) + term(2) + term(3)

(* decodeUtf8 gives back the string whose bytes these are.                 *)
Decode(bytes) ==
    IF \E s \in Strings : Utf8(s) = bytes
    THEN CHOOSE s \in Strings : Utf8(s) = bytes
    ELSE "garbled"

ReadString(data, index) ==
    LET entry == ReadInt32(data, ReadInt32(data, Len(data) - 4) + 4 * index)
        n == ReadLEB128(data, entry)
        start == entry + LEB128Bytes(n)
    IN  IF index = -1 THEN NoString ELSE Decode(SubSeq(data, start + 1, start + n))

StringAt(data, p) == ReadString(data, ReadInt32(data, p))

ReadEdit(data, p) ==
    [type    |-> ReadInt32(data, p),
     sibling |-> ReadInt32(data, p + 4),
     index   |-> ReadInt32(data, p + 8),
     name    |-> StringAt(data, p + 12)]

ReadDiff(data, p) ==
    [component |-> ReadInt32(data, p),
     edits     |-> [i \in 1 .. ReadInt32(data, p + 4) |-> ReadEdit(data, p + 8 + 16 * (i - 1))]]

ReadFrame(data, p) ==
    LET t == ReadInt32(data, p)
    IN  CASE t = Element   -> [type |-> t, subtree |-> ReadInt32(data, p + 4),
                               name |-> StringAt(data, p + 8)]
          [] t = Component -> [type |-> t, subtree |-> ReadInt32(data, p + 4),
                               component |-> ReadInt32(data, p + 8)]
          [] t = Region    -> [type |-> t, subtree |-> ReadInt32(data, p + 4)]
          [] t = Attribute -> [type |-> t, name |-> StringAt(data, p + 4),
                               value |-> StringAt(data, p + 8),
                               handler |-> ReadUInt64(data, p + 12)]
          [] t \in {Text, Markup, ElementReferenceCapture} ->
                              [type |-> t, text |-> StringAt(data, p + 4)]
          [] OTHER         -> [type |-> t]

(* Where the entries are of the array whose location is the n-th last of   *)
(* the five ints.                                                          *)
EntriesAt(data, n, size) ==
    LET at == ReadInt32(data, Len(data) - 4 * n)
    IN  [i \in 1 .. ReadInt32(data, at) |-> at + 4 + size * (i - 1)]

ReadBatch(data) ==
    LET updated    == EntriesAt(data, 5, 4)
        frames     == EntriesAt(data, 4, 20)
        components == EntriesAt(data, 3, 4)
        handlers   == EntriesAt(data, 2, 8)
    IN  [updated            |->
            [i \in DOMAIN updated |-> ReadDiff(data, ReadInt32(data, updated[i]))],
         frames             |-> [i \in DOMAIN frames |-> ReadFrame(data, frames[i])],
         disposedComponents |->
            [i \in DOMAIN components |-> ReadInt32(data, components[i])],
         disposedHandlers   |->
            [i \in DOMAIN handlers |-> ReadUInt64(data, handlers[i])]]

-----------------------------------------------------------------------------
FormatInit ==
    /\ stream = [buffer |-> Zeros(InitialSize), length |-> 0, position |-> 0]
    /\ sent = NoBatch
    /\ seen = NoBatch
    /\ renders = 0

(* UpdateDisplayAsync: reset the stream, write, and call renderBatch in    *)
(* the page, which reads the batch before it returns.  A frame the writer  *)
(* does not know throws: the page is not called and the stream stays as it *)
(* is.                                                                     *)
UpdateDisplay(batch) ==
    /\ renders < MaxRenders
    /\ renders' = renders + 1
    /\ \E w \in {WriteBatch(SetPosition(SetLength(stream, 0)), batch)} :
         /\ stream' = w.out
         /\ IF w.ok
            THEN /\ sent' = batch
                 /\ seen' = ReadBatch(SubSeq(w.out.buffer, 1, w.out.length))
            ELSE UNCHANGED <<sent, seen>>

FormatNext == \E batch \in Batches : UpdateDisplay(batch)

FormatSpec == FormatInit /\ [][FormatNext]_formatVars

-----------------------------------------------------------------------------
(* What the page must see of a batch.                                      *)

SeenFrame(f) ==
    IF f.type = Attribute
    THEN [type |-> f.type, name |-> f.name, value |-> AttributeString(f.value),
          handler |-> f.handler]
    ELSE f

SeenBatch(batch) ==
    [updated |->
        [i \in DOMAIN batch.updated |->
            LET d == batch.updated[i]
            IN  [component |-> d.component,
                 edits |-> SubSeq(batch.edits, d.offset + 1, d.offset + d.count)]],
     frames             |-> [i \in DOMAIN batch.frames |-> SeenFrame(batch.frames[i])],
     disposedComponents |-> batch.disposedComponents,
     disposedHandlers   |-> batch.disposedHandlers]

FormatTypeOK ==
    /\ stream.position <= stream.length
    /\ stream.length <= Len(stream.buffer)
    /\ \E k \in 0 .. 16 : Len(stream.buffer) = InitialSize * 2 ^ k
    /\ renders \in 0 .. MaxRenders

(* The page reads exactly the batch that .NET rendered: every edit, frame, *)
(* string and disposed id, whatever an earlier or a failed batch left in   *)
(* the shared buffer and however often it had to grow while the batch was  *)
(* written (RenderBatchWriter.cs against OutOfProcessRenderBatch.ts).      *)
PageReadsTheBatch ==
    /\ FormatTypeOK
    /\ sent # NoBatch => seen = SeenBatch(sent)
=============================================================================
