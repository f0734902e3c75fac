----------------------------- MODULE DataStreams -----------------------------
(***************************************************************************)
(* Data that is too large for one call. .NET reads the data of JavaScript  *)
(* in chunks (PullFromJSDataStream.cs, StreamingInterop.ts) and sends      *)
(* streams of its own (TransmitDataStreamToJS.cs), which JavaScript awaits *)
(* by id (class CallDispatcher and DotNetStream of Microsoft.JSInterop.ts).*)
(* Both call functions of Blazor._internal by name.                        *)
(*                                                                         *)
(* The data JavaScript offers is a blob or a view of a buffer; its bytes   *)
(* are named by their positions. External: .NET's Stream, whose readers    *)
(* should await one read before they start another but are not made to.    *)
(***************************************************************************)
EXTENDS Integers, Sequences, FiniteSets

CONSTANTS
  Total,      \* bytes JavaScript has
  Reads,      \* bound: reads of .NET
  MaxCount,   \* bound: bytes that one read asks for
  Streams     \* streams .NET sends

ASSUME StreamAssumption == Total \in Nat /\ MaxCount \in Nat /\ IsFiniteSet(Streams)

VARIABLES
  offset,     \* _offset
  read,       \* each read: not begun, or what it asked for and where
  closed,     \* the stream has disposed itself
  delivered,  \* the bytes .NET's readers got, in the order they got them
  overlapped, \* a read began while another was under way
  discarded,  \* bytes that came for a read that was cancelled
  awaited,    \* _pendingDotNetToJSStreams with a receiver waiting
  supplied,   \* those given to their receiver
  sending     \* TransmitStreamAsync of each stream

readVars == <<offset, read, closed, delivered, overlapped, discarded>>
sendVars == <<awaited, supplied, sending>>
streamVars == <<readVars, sendVars>>

Idle == [phase |-> "idle", from |-> 0, count |-> 0]

(* What GlobalExports.ts puts there for .NET to call.                      *)
Internal ==
  {"navigationManager", "domWrapper", "Virtualize", "PageTitle", "InputFile",
   "NavigationLock", "getJSDataStreamChunk", "attachWebRendererInterop"}

StreamInit ==
  /\ offset = 0 /\ read = [r \in Reads |-> Idle] /\ closed = FALSE
  /\ delivered = <<>> /\ overlapped = FALSE /\ discarded = {}
  /\ awaited = {} /\ supplied = {}
  /\ sending = [s \in Streams |-> "idle"]

-----------------------------------------------------------------------------
Positions(from, count) == [k \in 1 .. count |-> from + k - 1]

(* getNextChunk: a blob's slice ends with the blob, a view throws.         *)
getNextChunk(from, count) ==
  Positions(from, IF from + count <= Total THEN count ELSE IF from <= Total THEN Total - from ELSE 0)

UnderWay == {r \in Reads : read[r].phase \in {"asked", "cancelled"}}

(* RequestDataFromJSAsync, up to the await.                                *)
NumBytesToRead(count) == IF count <= Total - offset THEN count ELSE Total - offset

ReadAsync(r, count) ==
  /\ read[r].phase = "idle"
  /\ read' = [read EXCEPT ![r] =
       [phase |-> "asked", from |-> offset, count |-> NumBytesToRead(count)]]
  /\ overlapped' = (overlapped \/ UnderWay # {})
  /\ UNCHANGED <<offset, closed, delivered, discarded, sendVars>>

CancelRead(r) ==
  /\ read[r].phase = "asked"
  /\ read' = [read EXCEPT ![r].phase = "cancelled"]
  /\ UNCHANGED <<offset, closed, delivered, overlapped, discarded, sendVars>>

(* Mutant: a cancelled read does not count as one.                         *)
AdvanceUnlessCancelled(r, n) == IF read[r].phase = "cancelled" THEN offset ELSE offset + n

Advance(r, n) == offset + n

(* The chunk has come: the position moves before the token is asked.       *)
ChunkArrives(r) ==
  LET chunk == getNextChunk(read[r].from, read[r].count) IN
  /\ r \in UnderWay
  /\ read' = [read EXCEPT ![r].phase = "done"]
  /\ UNCHANGED <<overlapped, sendVars>>
  /\ IF Len(chunk) # read[r].count
     THEN UNCHANGED <<offset, closed, delivered, discarded>>   \* EndOfStreamException
     ELSE /\ offset' = Advance(r, Len(chunk))
          /\ closed' = (closed \/ offset' = Total)
          /\ IF read[r].phase = "cancelled"
             THEN discarded' = discarded \cup {chunk[k] : k \in DOMAIN chunk} /\ UNCHANGED delivered
             ELSE delivered' = delivered \o chunk /\ UNCHANGED discarded

-----------------------------------------------------------------------------
(* JavaScript is given a stream's id by the arguments of a call, and waits *)
(* for the stream (reviveReference, getDotNetStreamPromise).               *)
getDotNetStreamPromise(s) ==
  /\ sending[s] # "idle" /\ s \notin awaited \cup supplied
  /\ awaited' = awaited \cup {s}
  /\ UNCHANGED <<readVars, supplied, sending>>

(* .NET serialises the arguments and begins to transmit.                   *)
BeginTransmit(s) ==
  /\ sending[s] = "idle"
  /\ sending' = [sending EXCEPT ![s] = "begun"]
  /\ UNCHANGED <<readVars, awaited, supplied>>

(* A chunk, the end or an error is sent by a function found by its name:   *)
(* supplyDotNetStream gives the stream to who waits for it.                *)
TransmitStreamAsync(s) ==
  /\ sending[s] \in {"begun", "failed"}
  /\ IF "receiveDotNetDataStream" \in Internal
     THEN /\ supplied' = supplied \cup {s} /\ awaited' = awaited \ {s}
          /\ sending' = [sending EXCEPT ![s] = "ended"]
     ELSE /\ sending' = [sending EXCEPT ![s] = IF @ = "begun" THEN "failed" ELSE "ended"]
          /\ UNCHANGED <<awaited, supplied>>
  /\ UNCHANGED readVars

StreamNext ==
  \/ \E r \in Reads :
       CancelRead(r) \/ ChunkArrives(r) \/ \E n \in 1 .. MaxCount : ReadAsync(r, n)
  \/ \E s \in Streams : BeginTransmit(s) \/ getDotNetStreamPromise(s) \/ TransmitStreamAsync(s)

(* JavaScript's functions answer, and .NET goes on with what it sends.     *)
StreamFairness ==
  /\ \A r \in Reads : WF_streamVars(ChunkArrives(r))
  /\ \A s \in Streams : WF_streamVars(TransmitStreamAsync(s))

StreamSpec == StreamInit /\ [][StreamNext]_streamVars
StreamFairSpec == StreamSpec /\ StreamFairness

-----------------------------------------------------------------------------
(* Readers that await one read before the next get JavaScript's bytes in   *)
(* order and each one once; the only bytes missing up to the position are  *)
(* those that came for a cancelled read, no read falls short of what it    *)
(* asked for, and the stream closes itself when the last byte has come.    *)
(* (RequestDataFromJSAsync, getNextChunk.)                                 *)
ReadsInOrder ==
  ~overlapped =>
    /\ \A j, k \in DOMAIN delivered : j < k => delivered[j] < delivered[k]
    /\ {delivered[k] : k \in DOMAIN delivered} \cup discarded = 0 .. offset - 1
    /\ closed <=> offset = Total /\ \E r \in Reads : read[r].phase = "done"
    /\ \A r \in Reads : Len(getNextChunk(read[r].from, read[r].count)) = read[r].count

(* "We can count on it coming eventually because it's not something the    *)
(* developer gets to control, and it would be an error if it doesn't"      *)
(* (Microsoft.JSInterop.ts:535, of the stream JavaScript waits for).       *)
StreamComes == \A s \in Streams : s \in awaited ~> s \in supplied
=============================================================================
