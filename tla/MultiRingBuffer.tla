--------------------------- MODULE MultiRingBuffer ---------------------------
(***************************************************************************)
(* MultiRingBuffer, in which a terminal process keeps its latest output    *)
(* for any number of readers, and the streams made of them.  A byte is     *)
(* represented by its number in the order of writing, from 1.              *)
(***************************************************************************)
EXTENDS Integers, Sequences

CONSTANTS maxSize,    \* bytes the buffer holds
          ReadSizes,  \* sizes deq is called with; -1 reads all
          StreamSize, \* the size node's streams call _read with
          MaxBytes,   \* bound: bytes written
          MaxReaders  \* bound: readers created

ASSUME RingAssumption ==
  /\ maxSize \in Nat \ {0}
  /\ ReadSizes \subseteq {-1} \cup (Nat \ {0}) /\ StreamSize \in Nat \ {0}
  /\ MaxBytes \in Nat /\ MaxReaders \in Nat

Positions == 0 .. maxSize - 1
ReaderIds == 0 .. MaxReaders - 1
Nothing == -1  \* the position of a reader with nothing to read, of an empty ring

VARIABLES
  buffer, head, tail,
  readers,   \* id -> position, for the ids of open readers
  readerId,
  streams,   \* the ids whose reader is a stream
  more,      \* the stream can take more
  total,     \* history: bytes written
  last,      \* history: id -> last byte delivered, or lost before the id joined
  got,       \* history: id -> all the bytes delivered, until it is left behind
  behind,    \* history: ids that had bytes to read when more were written (but for
             \* those that had read nothing and lost nothing), or that read less than
             \* there is before the end of the buffer, of bytes that wrap
  chunk      \* history: the latest read: [asked, bytes]

ring == <<buffer, head, tail>>
table == <<readers, readerId, streams, more>>
history == <<last, got, behind, chunk>>
ringVars == <<ring, table, total, history>>

NoChunk == [asked |-> -1, bytes |-> <<>>]

RingInit ==
  /\ buffer = [p \in Positions |-> 0] /\ head = -1 /\ tail = -1
  /\ readers = [r \in {} |-> 0] /\ readerId = 0
  /\ streams = {} /\ more = [r \in ReaderIds |-> FALSE]
  /\ total = 0 /\ last = [r \in ReaderIds |-> -1] /\ got = [r \in ReaderIds |-> <<>>]
  /\ behind = {} /\ chunk = NoChunk

Lower(a, b) == IF a < b THEN a ELSE b

-----------------------------------------------------------------------------
(* Positions.                                                              *)

inc(pos, size) ==
  LET newPos == (pos + size) % maxSize
  IN  IF size = 0 THEN [newPos |-> pos, wrap |-> FALSE]
                  ELSE [newPos |-> newPos, wrap |-> newPos <= pos]

isWrapped(from, to) == to < from

sizeFrom(from, to) ==
  IF from = -1 \/ to = -1 THEN 0
  ELSE IF isWrapped(from, to) THEN to + 1 + maxSize - from ELSE to - from + 1

\* Does a write of size bytes after end go over pos?
shouldIncPos(pos, end, size) ==
  LET new == inc(end, size)
  IN  IF isWrapped(pos, end) THEN new.wrap \/ new.newPos >= pos
                             ELSE new.wrap /\ new.newPos >= pos

incTail(pos, size) ==
  IF shouldIncPos(pos, head, size) THEN inc(inc(head, size).newPos, 1).newPos ELSE pos

\* Defect: the tail comes to the newest byte instead of the one after it.
TailAtHead(size) ==
  IF shouldIncPos(tail, head, size) THEN inc(head, size).newPos ELSE tail

NewTail(size) == incTail(tail, size)

\* incTails: every reader the write goes over is set to the new tail.
Pushed(size) ==
  [r \in DOMAIN readers |->
     IF readers[r] # Nothing /\ shouldIncPos(readers[r], NewTail(size), size)
     THEN NewTail(size) ELSE readers[r]]

-----------------------------------------------------------------------------
(* Reading.                                                                *)

\* The bytes at n positions from pos on.
BytesFrom(b, pos, n) == [i \in 1 .. n |-> b[(pos + i - 1) % maxSize]]

\* Defect: a read of a part moves to the last byte read, not past it.
PositionAtLast(h, pos, n) ==
  LET at == inc(pos, n - 1).newPos IN IF at = h THEN Nothing ELSE at

\* The position after a read of n bytes.
PositionAfter(h, pos, n) ==
  IF inc(pos, n - 1).newPos = h THEN Nothing ELSE inc(pos, n).newPos

\* deq(size) of a reader at pos of a ring with buffer b and head h.  When it
\* wraps, all up to the end of the buffer is returned, however few were asked.
deq(b, h, pos, size) ==
  LET maxDeqSize == sizeFrom(pos, h)
      deqSize == IF size = -1 THEN maxDeqSize ELSE Lower(size, maxDeqSize)
      returned == IF isWrapped(pos, h) /\ deqSize < maxSize - pos THEN maxSize - pos ELSE deqSize
  IN  [pos |-> PositionAfter(h, pos, deqSize), bytes |-> BytesFrom(b, pos, returned)]

\* MultiRingBufferReadableStream.deq: n times, until nothing is left or push
\* returned false.
deqs(b, h, pos, size, n) ==
  LET after[k \in 0 .. n] ==
        IF k = 0 THEN [pos |-> pos, bytes |-> <<>>]
        ELSE LET before == after[k - 1]
                 one == deq(b, h, before.pos, size)
             IN  IF before.pos = Nothing THEN before
                 ELSE [pos |-> one.pos, bytes |-> before.bytes \o one.bytes]
  IN  after[n]

Oldest(t) == IF t > maxSize THEN t - maxSize + 1 ELSE 1

\* What reading result leaves in the history.
LastOf(result, otherwise) ==
  IF result.bytes = <<>> THEN otherwise ELSE result.bytes[Len(result.bytes)]
ChunkOf(size, result) == [asked |-> size, bytes |-> result.bytes]

GotOf(r, result) == IF r \in behind' THEN got[r] ELSE got[r] \o result.bytes

\* The readers that read a part, of bytes that wrap, which ends before the end of
\* the buffer.
ReadsPart(r, size) ==
  IF size # -1 /\ isWrapped(readers[r], head) /\ size < maxSize - readers[r] THEN {r} ELSE {}

\* A call of deq.
Read(r, size) ==
  /\ r \in DOMAIN readers \ streams /\ readers[r] # Nothing
  /\ behind' = behind \cup ReadsPart(r, size)
  /\ LET result == deq(buffer, head, readers[r], size) IN
       /\ readers' = [readers EXCEPT ![r] = result.pos]
       /\ last' = [last EXCEPT ![r] = LastOf(result, @)]
       /\ got' = [got EXCEPT ![r] = GotOf(r, result)]
       /\ chunk' = ChunkOf(size, result)
  /\ UNCHANGED <<ring, readerId, streams, more, total>>

\* The consumer of a stream wants data: _read.
StreamRead(r) ==
  /\ r \in streams
  /\ behind' = behind \cup ReadsPart(r, StreamSize)
  /\ \E n \in 1 .. maxSize + 1 :
       LET result == deqs(buffer, head, readers[r], StreamSize, n) IN
         /\ readers' = [readers EXCEPT ![r] = result.pos]
         /\ last' = [last EXCEPT ![r] = LastOf(result, @)]
         /\ got' = [got EXCEPT ![r] = GotOf(r, result)]
         /\ chunk' = IF readers[r] = Nothing THEN chunk
                     ELSE ChunkOf(StreamSize * n, result)
         /\ \/ result.pos = Nothing /\ more' = [more EXCEPT ![r] = TRUE]
            \/ result.bytes # <<>> /\ more' = [more EXCEPT ![r] = FALSE]
  /\ UNCHANGED <<ring, readerId, streams, total>>

-----------------------------------------------------------------------------
(* Writing.                                                                *)

\* Defect: what does not fit before the end of the buffer is dropped.
CopiedToEnd(start, size, upTo) ==
  [p \in Positions |->
     IF p - start \in 0 .. size - 1 THEN upTo - size + 1 + p - start ELSE buffer[p]]

\* The buffer with the latest size of the bytes up to byte upTo from start on.
Copied(start, size, upTo) ==
  [p \in Positions |->
     LET offset == (p - start) % maxSize
     IN  IF offset < size THEN upTo - size + 1 + offset ELSE buffer[p]]

\* onData: readers that read everything go on at start; each stream that can take
\* more reads all there is.  The last push of a stream may return false.
Notified(pushed, start) ==
  [r \in DOMAIN pushed |-> IF pushed[r] = Nothing THEN start ELSE pushed[r]]

onData(pushed, start, b, h) ==
  LET notified == Notified(pushed, start)
      ready == {r \in streams : more[r]}
      result(r) == deq(b, h, notified[r], -1)
  IN  /\ readers' = [r \in DOMAIN pushed |->
                       IF r \in ready THEN result(r).pos ELSE notified[r]]
      /\ last' = [r \in ReaderIds |-> IF r \in ready THEN LastOf(result(r), last[r]) ELSE last[r]]
      /\ got' = [r \in ReaderIds |-> IF r \in ready THEN GotOf(r, result(r)) ELSE got[r]]
      /\ \E fullNow \in SUBSET ready : more' = [r \in ReaderIds |-> more[r] /\ r \notin fullNow]
      /\ IF ready = {} THEN UNCHANGED chunk
         ELSE \E r \in ready : chunk' = ChunkOf(-1, result(r))

\* The readers with bytes to read that a write of n bytes may move wrongly.
MayBeLeft(n) ==
  {r \in DOMAIN readers : readers[r] # Nothing /\ (readers[r] # tail \/ total + n > maxSize)}

enq(n) ==
  LET size == Lower(n, maxSize)
      empty == head = -1 /\ tail = -1
      start == IF empty THEN 0 ELSE inc(head, 1).newPos
      newHead == IF empty THEN size - 1 ELSE inc(head, size).newPos
  IN  /\ total + n <= MaxBytes
      /\ total' = total + n
      /\ buffer' = Copied(start, size, total')
      /\ head' = newHead
      /\ tail' = IF empty THEN 0 ELSE NewTail(size)
      /\ behind' = behind \cup MayBeLeft(n)
      /\ onData(IF empty THEN readers ELSE Pushed(size), start, buffer', head')
      /\ UNCHANGED <<readerId, streams>>

-----------------------------------------------------------------------------
(* The table of readers.                                                   *)

newReader ==
  /\ readerId \in ReaderIds
  /\ readers' = [r \in DOMAIN readers \cup {readerId} |->
                   IF r = readerId THEN tail ELSE readers[r]]
  /\ readerId' = readerId + 1
  /\ last' = [last EXCEPT ![readerId] = Oldest(total) - 1]
  /\ UNCHANGED <<ring, more, total, got, behind, chunk>>

getReader == newReader /\ UNCHANGED streams
getStream == newReader /\ streams' = streams \cup {readerId}

\* closeReader, and dispose of a stream.
closeReader(r) ==
  /\ r \in DOMAIN readers
  /\ readers' = [i \in DOMAIN readers \ {r} |-> readers[i]]
  /\ streams' = streams \ {r}
  /\ more' = [more EXCEPT ![r] = FALSE]
  /\ UNCHANGED <<ring, readerId, total, history>>

RingNext ==
  \/ \E n \in 1 .. maxSize + 1 : enq(n)
  \/ getReader \/ getStream
  \/ \E r \in DOMAIN readers :
       \/ \E size \in ReadSizes : Read(r, size)
       \/ StreamRead(r) \/ closeReader(r)

RingSpec == RingInit /\ [][RingNext]_ringVars

-----------------------------------------------------------------------------
(* Properties.                                                             *)

RingTypeOK ==
  /\ buffer \in [Positions -> Nat]
  /\ head \in Positions \cup {Nothing} /\ tail \in Positions \cup {Nothing}
  /\ readerId \in 0 .. MaxReaders
  /\ DOMAIN readers \subseteq 0 .. readerId - 1
  /\ \A r \in DOMAIN readers : readers[r] \in Positions \cup {Nothing}
  /\ streams \subseteq DOMAIN readers
  /\ more \in [ReaderIds -> BOOLEAN]
  /\ total \in Nat
  /\ last \in [ReaderIds -> Int] /\ got \in [ReaderIds -> Seq(Int)]
  /\ behind \subseteq ReaderIds

\* The buffer keeps the newest bytes, as many as it can hold, in order from the
\* tail to the head, however the writes wrap around, fill it or exceed it.
KeepsNewest ==
  LET size == sizeFrom(tail, head)
  IN  /\ size = Lower(total, maxSize)
      /\ BytesFrom(buffer, tail, size) = [i \in 1 .. size |-> total - size + i]

\* A reader is given the bytes that are kept, from the oldest one when it joined,
\* each once and in order, whatever it asks for and however the other readers fall
\* behind, and it is told that nothing is left when, and only when, it was given
\* all: the buffer implements the log of OutputLog.  Excepted are the readers of
\* behind: more was written while they were in the middle of reading, or bytes were
\* lost before they had read them, or a partial read gave them bytes twice.
Log == INSTANCE OutputLog
  WITH Ids <- ReaderIds, Capacity <- maxSize,
       last <- [r \in ReaderIds |-> IF r < readerId /\ r \notin DOMAIN readers THEN -3
                                   ELSE IF r \in behind THEN -2 ELSE last[r]],
       idle <- {r \in DOMAIN readers \ behind : readers[r] = Nothing}
ImplementsLog == Log!Spec

\* deq(id, size) returns at most size bytes.
AtMostAsked == chunk.asked # -1 => Len(chunk.bytes) <= chunk.asked
=============================================================================
