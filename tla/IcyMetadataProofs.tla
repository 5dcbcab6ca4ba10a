------------------------- MODULE IcyMetadataProofs -------------------------
(***************************************************************************)
(* The theorems about IcyMetadata, for every stream of every station, cut  *)
(* into chunks in every way.                                               *)
(***************************************************************************)
EXTENDS IcyMetadata, TLAPS

\* The stream of a station in IcyTypeOK is well formed.
LEMMA StreamWellFormed ==
  ASSUME station \in Stations
  PROVE  WellFormed(stream)
BY StreamsAssumption DEF stream

\* A block has a length, at every position of a stream.
LEMMA BlockHasLength ==
  ASSUME NEW s, WellFormed(s), NEW p \in Positions(s)
  PROVE  BlockLength(s, p) \in Nat
<1>1. s.byte[p] \in Nat /\ Unit \in Nat
  BY BoundsAssumption DEF WellFormed
<1>2. \A a, b \in Nat : a * b \in Nat
  OBVIOUS
<1>3. QED
  BY <1>1, <1>2 DEF BlockLength

\* While a byte is buffered, the reader's position is one of the stream, and if it
\* expects a length byte there, that is what it finds.
LEMMA PositionInStream ==
  ASSUME IcyTypeOK, buffered > 0
  PROVE  /\ Position \in Positions(stream)
         /\ BlockHere \in Nat
         /\ InStep /\ Reading /\ bytesUntilMetadata = 0 => Position \in stream.marks
<1>1. WellFormed(stream)
  BY StreamWellFormed DEF IcyTypeOK
<1>2. stream.end \in Nat /\ stream.metaint \in Nat
  BY <1>1 DEF WellFormed
<1>3. Position \in Positions(stream)
  BY <1>2 DEF IcyTypeOK, Position, Positions
<1>4. BlockHere \in Nat
  BY <1>1, <1>3, BlockHasLength DEF BlockHere
<1>5. ASSUME InStep, Reading, bytesUntilMetadata = 0 PROVE Position \in stream.marks
  <2>1. NextExpected = Position
    BY <1>5, <1>2 DEF IcyTypeOK, Position, NextExpected
  <2>2. ~(Position >= stream.end)
    BY <1>2 DEF IcyTypeOK, Position
  <2>3. QED
    BY <1>5, <2>1, <2>2 DEF InStep
<1>6. QED
  BY <1>3, <1>4, <1>5

\* Initially the reader expects the first length byte.
LEMMA InitEstablishes == IcyInit => IcyIInv
<1> SUFFICES ASSUME IcyInit PROVE IcyIInv
  OBVIOUS
<1>1. WellFormed(stream)
  BY StreamWellFormed DEF IcyInit
<1>2. stream.metaint \in Nat /\ stream.end \in Nat
  BY <1>1 DEF WellFormed
<1>3. IcyTypeOK
  <2>1. /\ receivedBytes \in 0..stream.end
        /\ buffered \in 0..receivedBytes
        /\ bytesUntilMetadata \in 0..stream.metaint
    BY <1>2 DEF IcyInit
  <2>2. QED
    BY <2>1 DEF IcyInit, IcyTypeOK
<1>4. NextExpected = stream.metaint
  BY <1>2 DEF IcyInit, NextExpected, Position
<1>5. InStep
  BY <1>1, <1>4 DEF InStep, WellFormed
<1>6. BehindIsUntitled
  <2>1. \A m \in stream.marks : m >= stream.metaint /\ m \in Nat
    BY <1>1, <1>2 DEF WellFormed, Positions
  <2>2. QED
    BY <2>1, <1>2, <1>4 DEF BehindIsUntitled
<1>7. WaitsInBlock
  BY DEF IcyInit, WaitsInBlock
<1>8. FirstTitleAnswered
  BY MarkersAssumption DEF IcyInit, FirstTitleAnswered
<1>9. QED
  BY <1>3, <1>5, <1>6, <1>7, <1>8 DEF IcyIInv

\* A reader that returns nothing, or the title of the block it has reached, keeps the
\* invariant, whether or not its value becomes the answer.
LEMMA ReturnKeeps ==
  ASSUME IcyIInv, NEW title, Return(title),
         title = NoTitle \/ /\ pc = "parse" /\ bytesUntilMetadata = 0 /\ buffered > 0
                            /\ title = stream.title[Position] /\ title # NoTitle
  PROVE  IcyIInv'
<1>1. stream' = stream
  BY DEF Return, stream
<1>2. title \in Titles \cup {NoTitle}
  <2>1. CASE title = NoTitle
    BY <2>1
  <2>2. CASE title # NoTitle
    <3>1. WellFormed(stream) /\ Position \in Positions(stream)
      BY <2>2, StreamWellFormed, PositionInStream DEF IcyIInv, IcyTypeOK
    <3>2. QED
      BY <3>1, <2>2 DEF WellFormed
  <2>3. QED
    BY <2>1, <2>2
<1>3. IcyTypeOK'
  BY <1>1, <1>2 DEF Return, IcyIInv, IcyTypeOK
<1>4. (InStep /\ BehindIsUntitled /\ WaitsInBlock)'
  BY DEF Return, InStep, BehindIsUntitled, WaitsInBlock, Reading
<1>5. FirstTitleAnswered'
  <2>1. CASE answer' = answer
    BY <2>1, <1>1 DEF IcyIInv, FirstTitleAnswered
  <2>2. CASE answer' = NoTitle
    BY <2>2, MarkersAssumption DEF FirstTitleAnswered
  <2>3. CASE title # NoTitle /\ answer' = title
    <3>1. Position \in stream.marks
      BY <2>3, PositionInStream DEF IcyIInv, Reading
    <3>2. NextExpected = Position
      <4>1. Position \in Int
        BY <2>3, PositionInStream DEF IcyIInv, Positions
      <4>2. QED
        BY <4>1, <2>3 DEF NextExpected
    <3>3. \A k \in stream.marks : k < Position => stream.title[k] = NoTitle
      BY <2>3, <3>2 DEF IcyIInv, BehindIsUntitled, Reading
    <3>4. QED
      BY <1>1, <2>3, <3>1, <3>3 DEF FirstTitleAnswered
  <2>4. QED
    BY <2>1, <2>2, <2>3 DEF Return
<1>6. QED
  BY <1>3, <1>4, <1>5 DEF IcyIInv

\* Steps that leave the buffer alone keep the reader's position.
LEMMA PositionKept ==
  ASSUME IcyIInv, station' = station, receivedBytes' = receivedBytes,
         buffered' = buffered, bytesUntilMetadata' = bytesUntilMetadata, Reading
  PROVE  InStep' /\ BehindIsUntitled'
<1>1. stream' = stream /\ NextExpected' = NextExpected
  BY DEF stream, NextExpected, Position
<1>2. QED
  BY <1>1 DEF IcyIInv, InStep, BehindIsUntitled

\* A chunk is appended behind the position.
LEMMA ReadKeeps ==
  ASSUME IcyIInv, NEW n \in 1..MaxChunk, Read(n)
  PROVE  IcyIInv'
<1>1. stream' = stream
  BY DEF Read, stream
<1>2. WellFormed(stream)
  BY StreamWellFormed DEF IcyIInv, IcyTypeOK
<1>3. stream.end \in Nat /\ n \in Nat
  BY <1>2, BoundsAssumption DEF WellFormed
<1>4. IcyTypeOK'
  <2>1. receivedBytes' \in 0..stream.end /\ buffered' \in 0..receivedBytes'
    BY <1>3 DEF Read, IcyIInv, IcyTypeOK
  <2>2. QED
    BY <2>1, <1>1 DEF Read, IcyIInv, IcyTypeOK
<1>5. NextExpected' = NextExpected
  <2>1. Position' = Position
    BY <1>3 DEF Read, Position, IcyIInv, IcyTypeOK
  <2>2. QED
    BY <2>1 DEF NextExpected, Read
<1>6. InStep' /\ BehindIsUntitled'
  BY <1>1, <1>5 DEF Read, IcyIInv, InStep, BehindIsUntitled, Reading
<1>7. WaitsInBlock' /\ FirstTitleAnswered'
  BY <1>1 DEF Read, IcyIInv, WaitsInBlock, FirstTitleAnswered
<1>8. QED
  BY <1>4, <1>6, <1>7 DEF IcyIInv

\* Audio that is dropped is subtracted from both numbers.
LEMMA SkipAudioKeeps ==
  ASSUME IcyIInv, SkipAudio
  PROVE  IcyIInv'
<1>1. stream' = stream
  BY DEF SkipAudio, stream
<1>2. WellFormed(stream)
  BY StreamWellFormed DEF IcyIInv, IcyTypeOK
<1>3. stream.end \in Nat /\ stream.metaint \in Nat
  BY <1>2 DEF WellFormed
<1>4. IcyTypeOK'
  <2>1. buffered' \in 0..receivedBytes /\ bytesUntilMetadata' \in 0..stream.metaint
    BY <1>3 DEF SkipAudio, IcyIInv, IcyTypeOK
  <2>2. pc' \in {"read", "parse"}
    BY DEF SkipAudio
  <2>3. QED
    BY <2>1, <2>2, <1>1 DEF SkipAudio, IcyIInv, IcyTypeOK
<1>5. NextExpected' = NextExpected
  BY <1>3 DEF SkipAudio, NextExpected, Position, IcyIInv, IcyTypeOK
<1>6. InStep' /\ BehindIsUntitled'
  BY <1>1, <1>5 DEF SkipAudio, IcyIInv, InStep, BehindIsUntitled, Reading
<1>7. WaitsInBlock' /\ FirstTitleAnswered'
  BY <1>1 DEF SkipAudio, IcyIInv, WaitsInBlock, FirstTitleAnswered
<1>8. QED
  BY <1>4, <1>6, <1>7 DEF IcyIInv

\* A block without a title is dropped, and the next one expected after its audio.
LEMMA SkipBlockKeeps ==
  ASSUME IcyIInv, SkipBlock
  PROVE  IcyIInv'
<1>1. stream' = stream
  BY DEF SkipBlock, stream
<1>2. WellFormed(stream)
  BY StreamWellFormed DEF IcyIInv, IcyTypeOK
<1>3. stream.end \in Nat /\ stream.metaint \in Nat
  BY <1>2 DEF WellFormed
<1>4. Position \in stream.marks /\ Position \in Nat /\ BlockHere \in Nat
  BY PositionInStream DEF SkipBlock, IcyIInv, Reading, Positions
<1>5. IcyTypeOK'
  <2>1. buffered' \in 0..receivedBytes
    BY <1>3, <1>4 DEF SkipBlock, IcyIInv, IcyTypeOK
  <2>2. bytesUntilMetadata' \in 0..stream.metaint
    BY <1>3 DEF SkipBlock
  <2>3. QED
    BY <2>1, <2>2, <1>1 DEF SkipBlock, IcyIInv, IcyTypeOK
<1>6. NextExpected = Position
  BY <1>4 DEF NextExpected, SkipBlock
<1>7. NextExpected' = NextMark(stream, Position)
  <2>1. Position' = Position + (BlockHere + 1)
    BY <1>3, <1>4 DEF SkipBlock, Position, IcyIInv, IcyTypeOK
  <2>2. QED
    BY <2>1, <1>3, <1>4 DEF SkipBlock, NextExpected, NextMark, BlockHere
<1>8. InStep'
  BY <1>1, <1>2, <1>4, <1>7 DEF InStep, WellFormed
<1>9. BehindIsUntitled'
  <2> SUFFICES ASSUME NEW m \in stream.marks, m < NextMark(stream, Position)
               PROVE  stream.title[m] = NoTitle
    BY <1>1, <1>7 DEF BehindIsUntitled
  <2>1. m \in Nat /\ NextMark(stream, Position) \in Nat
    BY <1>2, <1>3, <1>4 DEF WellFormed, Positions, NextMark, BlockHere
  <2>2. ~(m > Position)
    BY <1>2, <1>4, <2>1 DEF WellFormed
  <2>3. CASE m = Position
    BY <2>3 DEF SkipBlock
  <2>4. CASE m < Position
    BY <2>4, <1>6 DEF SkipBlock, IcyIInv, BehindIsUntitled, Reading
  <2>5. QED
    BY <2>1, <2>2, <2>3, <2>4, <1>4
<1>10. WaitsInBlock' /\ FirstTitleAnswered'
  BY <1>1 DEF SkipBlock, IcyIInv, WaitsInBlock, FirstTitleAnswered
<1>11. QED
  BY <1>5, <1>8, <1>9, <1>10 DEF IcyIInv

\* The reader keeps in step and overlooks nothing, in every reachable state
\* (stream.controller.ts:284-336).
THEOREM InductiveInvariant == IcySpec => []IcyIInv
<1>1. IcyIInv /\ [IcyNext]_icyVars => IcyIInv'
  <2> SUFFICES ASSUME IcyIInv, [IcyNext]_icyVars PROVE IcyIInv'
    OBVIOUS
  <2>1. CASE UNCHANGED icyVars
    <3>1. stream' = stream
      BY <2>1 DEF icyVars, stream
    <3>2. Position' = Position /\ BlockHere' = BlockHere /\ NextExpected' = NextExpected
      BY <2>1, <3>1 DEF icyVars, Position, BlockHere, NextExpected
    <3>3. IcyTypeOK'
      BY <2>1, <3>1 DEF icyVars, IcyIInv, IcyTypeOK
    <3>4. InStep' /\ BehindIsUntitled' /\ WaitsInBlock' /\ FirstTitleAnswered'
      BY <2>1, <3>1, <3>2 DEF icyVars, IcyIInv, InStep, BehindIsUntitled, WaitsInBlock,
                              FirstTitleAnswered, Reading
    <3>5. QED
      BY <3>3, <3>4 DEF IcyIInv
  <2>2. CASE Connect
    <3>1. stream' = stream /\ BlockHere' = BlockHere
      BY <2>2 DEF Connect, stream, BlockHere, Position
    <3>2. IcyTypeOK'
      BY <2>2, <3>1 DEF Connect, IcyIInv, IcyTypeOK
    <3>3. InStep' /\ BehindIsUntitled'
      BY <2>2, PositionKept DEF Connect, Reading
    <3>4. WaitsInBlock' /\ FirstTitleAnswered'
      BY <2>2, <3>1 DEF Connect, IcyIInv, WaitsInBlock, FirstTitleAnswered
    <3>5. QED
      BY <3>2, <3>3, <3>4 DEF IcyIInv
  <2>3. CASE Timeout
    <3>1. stream' = stream /\ BlockHere' = BlockHere
      BY <2>3 DEF Timeout, stream, BlockHere, Position
    <3>2. IcyTypeOK'
      BY <2>3, <3>1 DEF Timeout, IcyIInv, IcyTypeOK
    <3>3. InStep' /\ BehindIsUntitled'
      BY <2>3, PositionKept DEF Timeout, Reading
    <3>4. WaitsInBlock' /\ FirstTitleAnswered'
      BY <2>3, <3>1, MarkersAssumption
      DEF Timeout, IcyIInv, WaitsInBlock, FirstTitleAnswered
    <3>5. QED
      BY <3>2, <3>3, <3>4 DEF IcyIInv
  <2>4. CASE AwaitBlock
    <3>1. stream' = stream /\ BlockHere' = BlockHere
      BY <2>4 DEF AwaitBlock, stream, BlockHere, Position
    <3>2. IcyTypeOK'
      BY <2>4, <3>1 DEF AwaitBlock, IcyIInv, IcyTypeOK
    <3>3. InStep' /\ BehindIsUntitled'
      BY <2>4, PositionKept DEF AwaitBlock, Reading
    <3>4. WaitsInBlock'
      <4>1. buffered \in Nat
        BY StreamWellFormed DEF IcyIInv, IcyTypeOK, WellFormed
      <4>2. QED
        BY <4>1, <2>4, <3>1 DEF AwaitBlock, WaitsInBlock
    <3>5. FirstTitleAnswered'
      BY <2>4, <3>1 DEF AwaitBlock, IcyIInv, FirstTitleAnswered
    <3>6. QED
      BY <3>2, <3>3, <3>4, <3>5 DEF IcyIInv
  <2>5. ASSUME NEW n \in 1..MaxChunk, Read(n) PROVE IcyIInv'
    BY <2>5, ReadKeeps
  <2>6. CASE ConnectFails \/ ReadEnds \/ LimitReached
    BY <2>6, ReturnKeeps DEF ConnectFails, ReadEnds, LimitReached
  <2>7. CASE TitleFound
    BY <2>7, ReturnKeeps DEF TitleFound
  <2>8. CASE SkipAudio
    BY <2>8, SkipAudioKeeps
  <2>9. CASE SkipBlock
    BY <2>9, SkipBlockKeeps
  <2>10. QED
    BY <2>1, <2>2, <2>3, <2>4, <2>5, <2>6, <2>7, <2>8, <2>9 DEF IcyNext, Done, InnerLoop
<1>2. QED
  BY InitEstablishes, <1>1, PTL DEF IcySpec

\* However the network cuts the stream, only length bytes are read as lengths.
THEOREM ReaderInStep == IcySpec => []InStep
<1>1. IcyIInv => InStep
  BY DEF IcyIInv
<1>2. QED
  BY <1>1, InductiveInvariant, PTL

\* A title that is answered is the first one the station has sent.
THEOREM FirstTitle == IcySpec => []FirstTitleAnswered
<1>1. IcyIInv => FirstTitleAnswered
  BY DEF IcyIInv
<1>2. QED
  BY <1>1, InductiveInvariant, PTL

\* A reader that waits or gives up has not overlooked a title: every block before the
\* one it expects is untitled, and that one is not complete.
THEOREM NoTitleOverlooked == IcySpec => []NothingOverlooked
<1>1. IcyIInv => NothingOverlooked
  <2> SUFFICES ASSUME IcyIInv, pc = "read", NEW m \in stream.marks,
                      m + BlockLength(stream, m) + 1 <= receivedBytes
               PROVE  stream.title[m] = NoTitle
    BY DEF NothingOverlooked
  <2>1. WellFormed(stream)
    BY StreamWellFormed DEF IcyIInv, IcyTypeOK
  <2>2. /\ stream.end \in Nat /\ stream.metaint \in Nat
        /\ receivedBytes \in Nat /\ receivedBytes <= stream.end
        /\ buffered \in Nat /\ buffered <= receivedBytes
        /\ bytesUntilMetadata \in Nat
    BY <2>1 DEF WellFormed, IcyIInv, IcyTypeOK
  <2>3. m \in Positions(stream) /\ m \in Nat /\ BlockLength(stream, m) \in Nat
    BY <2>1, BlockHasLength DEF WellFormed, Positions
  <2>4. m < receivedBytes
    BY <2>2, <2>3
  <2>5. CASE m < NextExpected
    BY <2>5 DEF IcyIInv, BehindIsUntitled, Reading
  <2>6. CASE m >= NextExpected
    <3>1. Position + buffered = receivedBytes /\ Position \in Nat
      BY <2>2 DEF Position
    <3>2. bytesUntilMetadata = 0 /\ buffered > 0 /\ buffered < BlockHere + 1
      <4>1. ~(buffered = 0)
        BY <2>2, <2>3, <2>4, <2>6, <3>1 DEF NextExpected
      <4>2. QED
        BY <4>1, <2>2 DEF IcyIInv, WaitsInBlock
    <3>3. Position \in stream.marks /\ BlockHere \in Nat
      BY <3>2, PositionInStream DEF IcyIInv, Reading
    <3>4. CASE m = Position
      BY <3>4, <3>1, <3>2, <3>3, <2>2 DEF BlockHere
    <3>5. CASE m > Position
      <4>1. m >= NextMark(stream, Position)
        BY <3>3, <3>5, <2>1 DEF WellFormed
      <4>2. NextMark(stream, Position) >= receivedBytes
        BY <3>1, <3>2, <3>3, <2>2 DEF NextMark, BlockHere
      <4>3. NextMark(stream, Position) \in Nat
        BY <3>1, <3>3, <2>2 DEF NextMark, BlockHere
      <4>4. QED
        BY <4>1, <4>2, <4>3, <2>2, <2>3, <2>4
    <3>6. QED
      BY <3>1, <3>2, <3>4, <3>5, <2>2, <2>3, <2>6 DEF NextExpected
  <2>7. QED
    BY <2>2, <2>3, <2>5, <2>6 DEF NextExpected, Position
<1>2. QED
  BY <1>1, InductiveInvariant, PTL


\* The reader, its request and the stream keep their types, whatever the station sends.
THEOREM TypeCorrect == IcySpec => []IcyTypeOK
<1>1. IcyIInv => IcyTypeOK
  BY DEF IcyIInv
<1>2. QED
  BY <1>1, InductiveInvariant, PTL
=============================================================================
