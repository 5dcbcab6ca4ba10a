---------------------------- MODULE IcyMetadata ----------------------------
(***************************************************************************)
(* StreamController.getRadioMetadata (stream/stream.controller.ts): the    *)
(* title of a radio station, read from its stream.  A station that is      *)
(* asked to sends metaint bytes of audio, a byte that tells the length of  *)
(* a block of metadata, the block, and so on; the bytes come in chunks of  *)
(* any size.  The reader races a timer, which does not stop it.            *)
(*                                                                         *)
(* The buffer always holds the last bytes received, so it is kept as their *)
(* number.                                                                 *)
(***************************************************************************)
EXTENDS Integers

CONSTANTS
    Stations,
    StreamOf,   \* what each station sends
    Titles,
    NoTitle,    \* null
    Pending,    \* no answer yet
    Unit,       \* the bytes of metadata that a length of 1 stands for (16)
    Limit,      \* maxBytesToScan
    MaxChunk    \* bound: the largest chunk of the network

Positions(s) == 0..(s.end - 1)

\* "byte" is each byte as a number, "title" what extractStreamTitle finds in the bytes
\* after it if they are read as a block, "marks" the positions that are length bytes.
BlockLength(s, p) == s.byte[p] * Unit
NextMark(s, m) == m + BlockLength(s, m) + 1 + s.metaint

\* Whole blocks follow each other at distances of metaint, until the stream ends.
WellFormed(s) ==
    /\ s.metaint \in Nat \ {0} /\ s.end \in Nat
    /\ s.byte \in [Positions(s) -> Nat]
    /\ s.title \in [Positions(s) -> Titles \cup {NoTitle}]
    /\ s.marks \subseteq Positions(s)
    /\ \A m \in s.marks : m >= s.metaint
    /\ s.metaint \in s.marks \/ s.metaint >= s.end
    /\ \A m \in s.marks : NextMark(s, m) \in s.marks \/ NextMark(s, m) >= s.end
    /\ \A m, k \in s.marks : k > m => k >= NextMark(s, m)

ASSUME MarkersAssumption == NoTitle \notin Titles /\ Pending \notin Titles \cup {NoTitle}
ASSUME BoundsAssumption == Unit \in Nat /\ Limit \in Nat /\ MaxChunk \in Nat
ASSUME StreamsAssumption == \A s \in Stations : WellFormed(StreamOf[s])

VARIABLES
    station,            \* the station of this request
    pc,                 \* "fetch", awaiting "read", in the inner loop, or done
    receivedBytes,
    buffered,           \* buffer.length
    bytesUntilMetadata,
    timer,              \* the timeout is armed
    answer              \* streamTitle of the response

icyVars == <<station, pc, receivedBytes, buffered, bytesUntilMetadata, timer, answer>>

stream == StreamOf[station]

IcyTypeOK ==
    /\ station \in Stations
    /\ pc \in {"fetch", "read", "parse", "done"}
    /\ receivedBytes \in 0..stream.end
    /\ buffered \in 0..receivedBytes
    /\ bytesUntilMetadata \in 0..stream.metaint
    /\ timer \in BOOLEAN
    /\ answer \in Titles \cup {NoTitle, Pending}

IcyInit ==
    /\ station \in Stations
    /\ pc = "fetch"
    /\ receivedBytes = 0 /\ buffered = 0
    /\ bytesUntilMetadata = stream.metaint
    /\ timer = FALSE
    /\ answer = Pending

\* The position of the first byte in the buffer.
Position == receivedBytes - buffered
BlockHere == BlockLength(stream, Position)

\* The reader returns; its value is the answer unless the timer was first.
Return(title) ==
    /\ pc' = "done"
    /\ timer' = FALSE
    /\ answer' = IF answer = Pending THEN title ELSE answer
    /\ UNCHANGED <<station, receivedBytes, buffered, bytesUntilMetadata>>

-----------------------------------------------------------------------------
(* fetchStreamTitle: the station answers and the reader starts, or there   *)
(* is no connection or no icy-metaint.                                     *)
Connect ==
    /\ pc = "fetch"
    /\ pc' = "read"
    /\ timer' = TRUE
    /\ UNCHANGED <<station, receivedBytes, buffered, bytesUntilMetadata, answer>>

ConnectFails ==
    /\ pc = "fetch"
    /\ Return(NoTitle)

\* Mutant: the timer's promise is never resolved.
TimeoutUnarmed ==
    /\ timer /\ pc = "read"
    /\ timer' = FALSE
    /\ UNCHANGED <<station, pc, receivedBytes, buffered, bytesUntilMetadata, answer>>

\* The timer answers; the reader goes on.
Timeout ==
    /\ timer /\ pc = "read"
    /\ timer' = FALSE
    /\ answer' = NoTitle
    /\ UNCHANGED <<station, pc, receivedBytes, buffered, bytesUntilMetadata>>

(* readIcyMetadata, the outer loop: a chunk arrives, or the stream ends or *)
(* breaks, or the limit is reached.                                        *)
Read(n) ==
    /\ pc = "read" /\ receivedBytes < Limit
    /\ receivedBytes + n <= stream.end
    /\ pc' = "parse"
    /\ receivedBytes' = receivedBytes + n
    /\ buffered' = buffered + n
    /\ UNCHANGED <<station, bytesUntilMetadata, timer, answer>>

ReadEnds ==
    /\ pc = "read" /\ receivedBytes < Limit
    /\ Return(NoTitle)

LimitReached ==
    /\ pc = "read" /\ receivedBytes >= Limit
    /\ Return(NoTitle)

\* Mutants: plausible slips in the inner loop.
SkipAudioForgetsRest ==
    /\ pc = "parse" /\ bytesUntilMetadata > 0
    /\ bytesUntilMetadata' = 0
    /\ buffered' = IF buffered < bytesUntilMetadata THEN 0 ELSE buffered - bytesUntilMetadata
    /\ UNCHANGED <<station, pc, receivedBytes, timer, answer>>

SkipAudioUnchecked ==
    /\ pc = "parse" /\ bytesUntilMetadata > 0
    /\ bytesUntilMetadata' = bytesUntilMetadata - buffered
    /\ buffered' = 0
    /\ pc' = "read"
    /\ UNCHANGED <<station, receivedBytes, timer, answer>>

SkipBlockOnly ==
    /\ pc = "parse" /\ bytesUntilMetadata = 0
    /\ buffered > 0 /\ buffered >= BlockHere + 1
    /\ stream.title[Position] = NoTitle
    /\ buffered' = buffered - BlockHere
    /\ bytesUntilMetadata' = stream.metaint
    /\ UNCHANGED <<station, pc, receivedBytes, timer, answer>>

SkipPartialBlock ==
    /\ pc = "parse" /\ bytesUntilMetadata = 0
    /\ buffered > 0
    /\ stream.title[Position] = NoTitle \/ buffered < BlockHere + 1
    /\ buffered' = IF buffered < BlockHere + 1 THEN 0 ELSE buffered - (BlockHere + 1)
    /\ bytesUntilMetadata' = stream.metaint
    /\ UNCHANGED <<station, pc, receivedBytes, timer, answer>>

-----------------------------------------------------------------------------
(* The inner loop.  Audio before the next block is dropped ...             *)
SkipAudio ==
    /\ pc = "parse" /\ bytesUntilMetadata > 0
    /\ \/ /\ buffered < bytesUntilMetadata
          /\ bytesUntilMetadata' = bytesUntilMetadata - buffered
          /\ buffered' = 0
          /\ pc' = "read"
       \/ /\ buffered >= bytesUntilMetadata
          /\ buffered' = buffered - bytesUntilMetadata
          /\ bytesUntilMetadata' = 0
          /\ UNCHANGED pc
    /\ UNCHANGED <<station, receivedBytes, timer, answer>>

(* ... a block that is not complete waits for the next chunk ...           *)
AwaitBlock ==
    /\ pc = "parse" /\ bytesUntilMetadata = 0
    /\ buffered > 0 => buffered < BlockHere + 1
    /\ pc' = "read"
    /\ UNCHANGED <<station, receivedBytes, buffered, bytesUntilMetadata, timer, answer>>

(* ... and a complete one has a title or is dropped.                       *)
TitleFound ==
    /\ pc = "parse" /\ bytesUntilMetadata = 0
    /\ buffered > 0 /\ buffered >= BlockHere + 1
    /\ stream.title[Position] # NoTitle
    /\ Return(stream.title[Position])

SkipBlock ==
    /\ pc = "parse" /\ bytesUntilMetadata = 0
    /\ buffered > 0 /\ buffered >= BlockHere + 1
    /\ stream.title[Position] = NoTitle
    /\ buffered' = buffered - (BlockHere + 1)
    /\ bytesUntilMetadata' = stream.metaint
    /\ UNCHANGED <<station, pc, receivedBytes, timer, answer>>

InnerLoop == SkipAudio \/ AwaitBlock \/ TitleFound \/ SkipBlock

\* The response is sent and the reader is through.
Done == pc = "done" /\ UNCHANGED icyVars

IcyNext ==
    \/ Connect \/ ConnectFails
    \/ Timeout
    \/ \E n \in 1..MaxChunk : Read(n)
    \/ ReadEnds \/ LimitReached
    \/ InnerLoop
    \/ Done

IcySpec == IcyInit /\ [][IcyNext]_icyVars

\* The event loop fires the timer (a chunk has at least one byte and the limit
\* bounds the chunks, so that they cannot hold it off for ever) and runs synchronous
\* code to its end.
FairIcySpec == IcySpec /\ WF_icyVars(Timeout) /\ WF_icyVars(InnerLoop)

-----------------------------------------------------------------------------
\* Where the reader expects the next length byte.
NextExpected == Position + bytesUntilMetadata
Reading == pc # "done"

(* The reader keeps in step with the stream: however the bytes are cut     *)
(* into chunks, it reads as lengths exactly the length bytes, and never    *)
(* audio or the inside of a block (stream.controller.ts:302-332).          *)
InStep == Reading => NextExpected \in stream.marks \/ NextExpected >= stream.end

(* A title that is answered is the first one the station has sent: no      *)
(* block is overlooked, and noise is never taken for a title.              *)
FirstTitleAnswered ==
    answer \in Titles =>
        \E m \in stream.marks :
            /\ stream.title[m] = answer
            /\ \A k \in stream.marks : k < m => stream.title[k] = NoTitle

(* Whenever the reader waits for more bytes, and so also when it gives up, *)
(* no complete block it has received has a title.                          *)
NothingOverlooked ==
    pc = "read" =>
        \A m \in stream.marks :
            m + BlockLength(stream, m) + 1 <= receivedBytes => stream.title[m] = NoTitle

\* What makes these inductive.
BehindIsUntitled ==
    Reading => \A m \in stream.marks : m < NextExpected => stream.title[m] = NoTitle

WaitsInBlock ==
    pc \in {"fetch", "read"} =>
        \/ buffered = 0
        \/ bytesUntilMetadata = 0 /\ buffered < BlockHere + 1

IcyIInv ==
    /\ IcyTypeOK
    /\ InStep
    /\ FirstTitleAnswered
    /\ BehindIsUntitled
    /\ WaitsInBlock

(* A request whose station answered is answered itself, however slowly the *)
(* station goes on to send (stream.controller.ts:270-276).                 *)
ConnectedIsAnswered == pc = "read" ~> answer # Pending
=============================================================================
