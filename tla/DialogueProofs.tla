-------------------------- MODULE DialogueProofs ----------------------------
(***************************************************************************)
(* Theorems about what a daemon and its peer say to each other: the lines  *)
(* of a connection, the dialogue that pairs them, and captured input, which *)
(* follows the request that announces it.                                  *)
(***************************************************************************)
EXTENDS LineReader, PairingDialogue, InputGate, TLAPS

-----------------------------------------------------------------------------
(* The lines of a connection: buf is exact and bounded, every line within  *)
(* the cap is delivered once and in order, and the link outlives a line    *)
(* that is too long.                                                       *)

\* The types BufferExact needs.
TypeOK ==
    /\ sent \in Seq(Nat \ {0})
    /\ off \in Nat /\ from \in Nat /\ len \in Nat
    /\ packets \in Seq(Nat)

Inv == TypeOK /\ BufferExact

\* Every line of the peer has a length, every position in the stream a line.
LEMMA Lines ==
    ASSUME Inv
    PROVE  /\ \A i \in 1..Len(sent) : sent[i] \in Nat \ {0}
           /\ Len(sent) \in Nat /\ line \in 1..(Len(sent) + 1) /\ MaxSize \in Nat
<1>1. MaxSize \in Nat
  BY LineReaderAssumption, Zenon
<1>2. sent \in Seq(Nat \ {0})
  BY Zenon DEF Inv, TypeOK
<1>3. line \in 1..(Len(sent) + 1)
  BY Zenon DEF Inv, BufferExact
<1> QED
  BY <1>1, <1>2, <1>3

\* Starting a read at the stream position keeps buf exact.
LEMMA FreshReadOK ==
    ASSUME Inv, sent' = sent, packets' \in Seq(Nat),
           NEW l \in 1..(Len(sent) + 1), NEW at \in Nat,
           l <= Len(sent) => at < sent[l], l > Len(sent) => at = 0,
           FreshRead(l, at)
    PROVE  Inv'
<1>1. /\ line' = l /\ off' = at /\ from' = at /\ len' = 0 /\ ~discarding'
  BY Zenon DEF FreshRead
<1>3. sent' \in Seq(Nat \ {0}) /\ Len(sent) \in Nat
  BY DEF Inv, TypeOK
<1>4. TypeOK'
  BY <1>1, <1>3, Zenon DEF TypeOK
<1>5. BufferExact'
  BY <1>1, <1>3, Lines DEF BufferExact
<1> QED
  BY <1>4, <1>5, Zenon DEF Inv

\* The next line starts at its first byte.
LEMMA NextLineOK ==
    ASSUME Inv, line <= Len(sent), sent' = sent, packets' \in Seq(Nat),
           FreshRead(line + 1, 0)
    PROVE  Inv'
<1>1. /\ line + 1 \in 1..(Len(sent) + 1)
      /\ line + 1 <= Len(sent) => 0 < sent[line + 1]
  BY Lines, SMTT(30)
<1> QED
  BY <1>1, FreshReadOK, Zenon

\* One chunk from fill_buf.
LEMMA ChunkOK ==
    ASSUME Inv, Chunk
    PROVE  Inv'
<1>1. /\ line <= Len(sent) /\ link = "open" /\ UNCHANGED <<sent, closed, cuts>>
      /\ line \in Nat \ {0} /\ sent[line] \in Nat \ {0} /\ packets \in Seq(Nat)
  <2>1. line <= Len(sent) /\ link = "open" /\ UNCHANGED <<sent, closed, cuts>>
    BY Zenon DEF Chunk
  <2> QED
    BY <2>1, Lines, SMTT(30) DEF Inv, TypeOK
<1>2. PICK n \in 1..(sent[line] - off) :
         IF discarding \/ Oversize(n) THEN Discard(n) ELSE Extend(n)
  BY Zenon DEF Chunk
<1>0. /\ n \in Nat /\ n >= 1 /\ off + n <= sent[line]
      /\ off \in Nat /\ from \in Nat /\ from <= off /\ MaxSize \in Nat
      /\ Len(sent) \in Nat /\ line \in Nat /\ 1 <= line /\ line <= Len(sent)
      /\ sent[line] \in Nat
      /\ ~discarding => len = off - from
  BY <1>1, Lines, SMTT(30) DEF Inv, TypeOK, BufferExact
<1>3. ASSUME Skip PROVE Inv'
  BY <1>1, <1>3, NextLineOK, Zenon DEF Skip, Inv, TypeOK
<1>4. CASE Discard(n)
  <2>1. CASE off + n = sent[line]
    BY <1>3, <1>4, <2>1, Zenon DEF Discard
  <2>2. CASE off + n # sent[line]
    <3>1. /\ off' = off + n /\ len' = 0 /\ discarding' /\ line' = line
          /\ from' = from /\ packets' = packets /\ sent' = sent
      BY <1>1, <1>4, <2>2, Zenon DEF Discard
    <3>2. /\ sent' \in Seq(Nat \ {0}) /\ packets' \in Seq(Nat) /\ off' \in Nat
          /\ from' \in Nat /\ len' \in Nat /\ sent' = sent
      BY <1>0, <1>1, <3>1, Lines DEF Inv, TypeOK
    <3>3. sent'[line'] = sent[line] /\ Len(sent') = Len(sent) /\ line' = line
      BY <3>1, <3>2, ZenonT(30)
    <3>4. /\ line' \in 1..(Len(sent') + 1) /\ line' <= Len(sent')
          /\ off' < sent'[line'] /\ from' <= off' /\ len' <= MaxSize
          /\ Len(sent') \in Nat
      BY <1>0, <2>2, <3>1, <3>3
    <3>5. (discarding' => len' = 0) /\ (~discarding' => len' = off' - from')
      BY <1>0, <3>1, Zenon
    <3>6. BufferExact'
      BY <3>4, <3>5 DEF BufferExact
    <3> QED
      BY <3>2, <3>6, Zenon DEF Inv, TypeOK
  <2> QED
    BY <2>1, <2>2, Zenon
<1>5. CASE ~discarding /\ ~Oversize(n) /\ Extend(n)
  <2>1. CASE off + n = sent[line]
    <3>1. CASE len + n = 1
      BY <1>3, <1>5, <2>1, <3>1 DEF Extend, Deliver
    <3>2. CASE len + n # 1 /\ len + n > 1 /\ from = 0
      <4>1. /\ packets' = Append(packets, line)
            /\ FreshRead(line + 1, 0)
            /\ UNCHANGED link
        BY <1>5, <2>1, <3>2, Zenon DEF Extend, Deliver
      <4>2. packets' \in Seq(Nat)
        BY <1>1, <4>1, SMTT(30)
      <4> QED
        BY <1>1, <4>1, <4>2, NextLineOK, Zenon
    <3>3. CASE len + n # 1 /\ ~(len + n > 1 /\ from = 0)
      <4>1. link' = "failed" /\ UNCHANGED <<packets, line, off, from, len, discarding>>
        BY <1>5, <2>1, <3>3, Zenon DEF Extend, Deliver
      <4> QED
        BY <1>1, <4>1, Zenon DEF Inv, TypeOK, BufferExact
    <3> QED
      BY <3>1, <3>2, <3>3, Zenon
  <2>2. CASE off + n # sent[line]
    <3>1. /\ ~discarding /\ off' = off + n /\ len' = len + n /\ len + n <= MaxSize
          /\ line' = line /\ from' = from /\ packets' = packets
          /\ (discarding' <=> discarding)
      BY <1>1, <1>2, <1>5, <2>2, Lines, SMTT(30) DEF Extend, Oversize, Inv, TypeOK
    <3>2. /\ sent' \in Seq(Nat \ {0}) /\ packets' \in Seq(Nat) /\ off' \in Nat
          /\ from' \in Nat /\ len' \in Nat /\ sent' = sent
      BY <1>0, <1>1, <3>1, Lines DEF Inv, TypeOK
    <3>3. sent'[line'] = sent[line] /\ Len(sent') = Len(sent) /\ line' = line
      BY <3>1, <3>2, ZenonT(30)
    <3>4. /\ line' \in 1..(Len(sent') + 1) /\ line' <= Len(sent')
          /\ off' < sent'[line'] /\ from' <= off' /\ len' <= MaxSize
          /\ Len(sent') \in Nat
      BY <1>0, <2>2, <3>1, <3>3
    <3>5. (discarding' => len' = 0) /\ (~discarding' => len' = off' - from')
      BY <1>0, <3>1
    <3>6. BufferExact'
      BY <3>4, <3>5 DEF BufferExact
    <3> QED
      BY <3>2, <3>6, Zenon DEF Inv, TypeOK
  <2> QED
    BY <2>1, <2>2, Zenon
<1> QED
  BY <1>2, <1>4, <1>5, Zenon

\* Every step of the peer and of the reader keeps buf exact.
LEMMA InvStep == Inv /\ [Next]_vars => Inv'
<1> SUFFICES ASSUME Inv, [Next]_vars PROVE Inv'
  BY Zenon
<1>1. CASE PeerSends
  <2>1. PICK n \in Nat \ {0} : sent' = Append(sent, n)
    <3>1. Lengths \subseteq Nat \ {0}
      BY LineReaderAssumption, Zenon
    <3> QED
      BY <1>1, <3>1, Zenon DEF PeerSends
  <2>2. /\ sent' \in Seq(Nat \ {0}) /\ Len(sent') = Len(sent) + 1
        /\ \A i \in 1..Len(sent) : sent'[i] = sent[i]
        /\ sent'[Len(sent) + 1] = n
    BY <2>1 DEF Inv, TypeOK
  <2>3. UNCHANGED <<closed, line, off, from, len, discarding, packets, link, cuts>>
    BY <1>1, Zenon DEF PeerSends
  <2>4. TypeOK'
    BY <2>2, <2>3, Zenon DEF Inv, TypeOK
  <2>5. /\ line' \in 1..(Len(sent') + 1)
        /\ line' <= Len(sent') => off' < sent'[line']
        /\ line' > Len(sent') => off' = 0
    <3>1. CASE line <= Len(sent)
      BY <2>2, <2>3, <3>1, Lines DEF Inv, BufferExact
    <3>2. CASE line = Len(sent) + 1
      BY <2>2, <2>3, <3>2, Lines DEF Inv, BufferExact
    <3> QED
      BY <3>1, <3>2, Lines, SMTT(30)
  <2>6. BufferExact'
    BY <2>3, <2>5, Zenon DEF Inv, BufferExact
  <2> QED
    BY <2>4, <2>6, Zenon DEF Inv
<1>2. CASE PeerCloses
  BY <1>2, Zenon DEF PeerCloses, Inv, TypeOK, BufferExact
<1>3. CASE Chunk
  BY <1>3, ChunkOK, Zenon
<1>4. CASE EndOfStream
  <2>1. packets' \in Seq(Nat)
    <3>1. packets' = packets \/ packets' = Append(packets, line)
      BY <1>4, Zenon DEF EndOfStream
    <3>2. packets \in Seq(Nat) /\ line \in Nat
      BY Lines DEF Inv, TypeOK
    <3> QED
      BY <3>1, <3>2
  <2>2. UNCHANGED <<sent, closed, line, off, from, len, discarding, cuts>>
    BY <1>4, Zenon DEF EndOfStream
  <2> QED
    BY <2>1, <2>2, Zenon DEF Inv, TypeOK, BufferExact
<1>5. CASE Timeout
  BY <1>5, FreshReadOK, ZenonT(30) DEF Timeout, Inv, TypeOK, BufferExact
<1>6. CASE UNCHANGED vars
  BY <1>6, Zenon DEF vars, Inv, TypeOK, BufferExact
<1> QED
  BY <1>1, <1>2, <1>3, <1>4, <1>5, <1>6, Zenon DEF Next

\* Whatever a peer sends, however the stream is cut into chunks and whenever
\* reads time out, read_steady_line's buffer holds exactly the bytes consumed
\* since the read began and never more than MAX_STEADY_PACKET_SIZE.
THEOREM BufferStaysExact == Spec => []BufferExact
<1>1. Init => Inv
  BY LineReaderAssumption DEF Init, Inv, TypeOK, BufferExact
<1>2. Inv => BufferExact
  BY Zenon DEF Inv
<1> QED
  BY <1>1, <1>2, InvStep, PTL DEF Spec

(***************************************************************************)
(* Which lines arrive.  A line is cut exactly when the current read began  *)
(* inside it, and a line is discarded only once more bytes of it than the  *)
(* cap were read.                                                          *)
(***************************************************************************)
ReaderInv ==
    /\ cuts \subseteq 1..line
    /\ line \in cuts <=> from # 0
    /\ discarding => off - from > MaxSize
    /\ LinkSurvives
    /\ NothingLost

\* A line that is passed over was not owed.
LEMMA PassOver ==
    ASSUME Inv, ReaderInv, link = "open", line <= Len(sent), UNCHANGED <<sent, cuts, packets, link>>,
           FreshRead(line + 1, 0), sent[line] = 1 \/ sent[line] > MaxSize \/ line \in cuts
    PROVE  ReaderInv'
<1>1. /\ line' = line + 1 /\ off' = 0 /\ from' = 0 /\ ~discarding'
  BY Zenon DEF FreshRead
<1>2. /\ line \in Nat /\ line >= 1 /\ MaxSize \in Nat /\ cuts \subseteq 1..line
      /\ \A i \in 1..line : sent[i] \in Nat
  BY Lines DEF ReaderInv
<1>3. Owed' = Owed
  BY <1>1, <1>2 DEF Owed
<1>4. NothingLost'
  BY <1>3, Zenon DEF ReaderInv, NothingLost
<1>5. cuts' \subseteq 1..line' /\ line' \notin cuts' /\ LinkSurvives'
  BY <1>1, <1>2, SMTT(30) DEF LinkSurvives
<1> QED
  BY <1>1, <1>4, <1>5, Zenon DEF ReaderInv

\* A line that is delivered was owed, and comes after those delivered before.
LEMMA DeliverOwed ==
    ASSUME Inv, ReaderInv, link = "open", line <= Len(sent), UNCHANGED <<sent, cuts, link>>,
           packets' = Append(packets, line), FreshRead(line + 1, 0),
           1 < sent[line], sent[line] <= MaxSize, line \notin cuts
    PROVE  ReaderInv'
<1>1. /\ line' = line + 1 /\ off' = 0 /\ from' = 0 /\ ~discarding'
  BY Zenon DEF FreshRead
<1>2. /\ line \in Nat /\ line >= 1 /\ MaxSize \in Nat /\ cuts \subseteq 1..line
      /\ \A i \in 1..line : sent[i] \in Nat
  BY Lines DEF ReaderInv
<1>3. Owed' = Owed \cup {line}
  BY <1>1, <1>2, SMTT(30) DEF Owed
<1>4. /\ Len(packets) \in Nat /\ Len(packets') = Len(packets) + 1
      /\ \A k \in 1..Len(packets) : packets'[k] = packets[k]
      /\ packets'[Len(packets) + 1] = line
  BY <1>2 DEF Inv, TypeOK
<1>5. {packets'[k] : k \in 1..Len(packets')} = {packets[k] : k \in 1..Len(packets)} \cup {line}
  BY <1>4, SMTT(30)
<1>6. \A k \in 1..Len(packets) : packets[k] \in Nat /\ packets[k] < line
  <2> TAKE k \in 1..Len(packets)
  <2>1. packets[k] \in Owed
    BY Zenon DEF ReaderInv, NothingLost
  <2>2. packets[k] \in 1..(line - 1)
    BY <2>1, Zenon DEF Owed
  <2> QED
    BY <1>2, <2>2
<1>7. \A j, k \in 1..Len(packets') : j < k => packets'[j] < packets'[k]
  BY <1>4, <1>6, SMTT(30) DEF ReaderInv, NothingLost
<1>8. NothingLost'
  BY <1>3, <1>5, <1>7, Zenon DEF ReaderInv, NothingLost
<1>9. cuts' \subseteq 1..line' /\ line' \notin cuts' /\ LinkSurvives'
  BY <1>1, <1>2 DEF LinkSurvives
<1> QED
  BY <1>1, <1>8, <1>9, Zenon DEF ReaderInv

\* One chunk from fill_buf.
LEMMA ChunkReads ==
    ASSUME Inv, ReaderInv, Chunk
    PROVE  ReaderInv'
<1>1. line <= Len(sent) /\ link = "open" /\ UNCHANGED <<sent, closed, cuts>>
  BY Zenon DEF Chunk
<1>2. PICK n \in 1..(sent[line] - off) :
         IF discarding \/ Oversize(n) THEN Discard(n) ELSE Extend(n)
  BY Zenon DEF Chunk
<1>3. /\ n \in Nat /\ n >= 1 /\ off + n <= sent[line]
      /\ off \in Nat /\ from \in Nat /\ from <= off /\ MaxSize \in Nat /\ len \in Nat
      /\ Len(sent) \in Nat /\ line \in Nat /\ 1 <= line /\ sent[line] \in Nat
      /\ ~discarding => len = off - from
  BY <1>1, <1>2, Lines DEF Inv, TypeOK, BufferExact
<1>4. CASE (discarding \/ Oversize(n)) /\ Discard(n)
  <2>0. off + n - from > MaxSize
    BY <1>3, <1>4, SMTT(30) DEF Oversize, ReaderInv
  <2>1. CASE off + n = sent[line]
    <3>1. sent[line] > MaxSize
      BY <1>3, <2>0, <2>1
    <3> QED
      BY <1>1, <1>4, <2>1, <3>1, PassOver, Zenon DEF Discard, Skip
  <2>2. CASE off + n # sent[line]
    <3>1. /\ off' = off + n /\ line' = line /\ from' = from /\ packets' = packets /\ link' = link
      BY <1>4, <2>2, Zenon DEF Discard
    <3>2. NothingLost' /\ LinkSurvives'
      BY <1>1, <3>1, Zenon DEF ReaderInv, NothingLost, Owed, LinkSurvives
    <3>3. off' - from' > MaxSize
      BY <1>3, <2>0, <3>1
    <3>4. cuts' \subseteq 1..line' /\ (line' \in cuts' <=> from' # 0)
      BY <1>1, <3>1, Zenon DEF ReaderInv
    <3> QED
      BY <3>2, <3>3, <3>4, Zenon DEF ReaderInv
  <2> QED
    BY <2>1, <2>2, Zenon
<1>5. CASE ~discarding /\ ~Oversize(n) /\ Extend(n)
  <2>0. len = off - from /\ len + n <= MaxSize
    BY <1>3, <1>5 DEF Oversize
  <2>1. CASE off + n = sent[line]
    <3>0. Deliver(n)
      BY <1>5, <2>1, Zenon DEF Extend
    <3>1. CASE len + n = 1
      <4>1. sent[line] = 1 \/ line \in cuts
        BY <1>3, <2>0, <2>1, <3>1 DEF ReaderInv
      <4> QED
        BY <1>1, <3>0, <3>1, <4>1, PassOver, SMTT(30) DEF Deliver, Skip
    <3>2. CASE len + n # 1 /\ from = 0
      <4>1. 1 < sent[line] /\ sent[line] <= MaxSize /\ line \notin cuts /\ len + n > 1
        BY <1>3, <2>0, <2>1, <3>2, SMTT(30) DEF ReaderInv
      <4> QED
        BY <1>1, <3>0, <3>2, <4>1, DeliverOwed, Zenon DEF Deliver
    <3>3. CASE len + n # 1 /\ from # 0
      <4>1. link' = "failed" /\ UNCHANGED <<packets, line, off, from, len, discarding>>
        BY <3>0, <3>3, Zenon DEF Deliver
      <4> QED
        BY <1>1, <3>3, <4>1, Zenon DEF ReaderInv, LinkSurvives, NothingLost
    <3> QED
      BY <3>1, <3>2, <3>3, Zenon
  <2>2. CASE off + n # sent[line]
    <3>1. /\ ~discarding' /\ line' = line /\ from' = from /\ packets' = packets /\ link' = link
      BY <1>5, <2>2, Zenon DEF Extend
    <3>2. NothingLost' /\ LinkSurvives'
      BY <1>1, <3>1, ZenonT(30) DEF ReaderInv, NothingLost, Owed, LinkSurvives
    <3> QED
      BY <1>1, <3>1, <3>2, Zenon DEF ReaderInv
  <2> QED
    BY <2>1, <2>2, Zenon
<1> QED
  BY <1>2, <1>4, <1>5, Zenon

\* Every step of the peer and of the reader keeps the account of the lines.
LEMMA ReaderStep == Inv /\ ReaderInv /\ [Next]_vars => ReaderInv'
<1> SUFFICES ASSUME Inv, ReaderInv, [Next]_vars PROVE ReaderInv'
  BY Zenon
<1>1. CASE PeerSends
  <2>1. PICK n : sent' = Append(sent, n)
    BY <1>1, Zenon DEF PeerSends
  <2>2. \A i \in 1..(line - 1) : sent'[i] = sent[i]
    BY <2>1, Lines, SMTT(30) DEF Inv, TypeOK
  <2>3. UNCHANGED <<closed, line, off, from, len, discarding, packets, link, cuts>>
    BY <1>1, Zenon DEF PeerSends
  <2>4. Owed' = Owed
    BY <2>2, <2>3, Zenon DEF Owed
  <2> QED
    BY <2>3, <2>4, ZenonT(30) DEF ReaderInv, NothingLost, LinkSurvives
<1>2. CASE PeerCloses
  BY <1>2, ZenonT(30) DEF PeerCloses, ReaderInv, NothingLost, Owed, LinkSurvives
<1>3. CASE Chunk
  BY <1>3, ChunkReads, Zenon
<1>4. CASE EndOfStream
  <2>1. closed' /\ link' # "open"
    BY <1>4, Zenon DEF EndOfStream
  <2> QED
    BY <1>4, <2>1, ZenonT(30) DEF EndOfStream, ReaderInv, NothingLost, LinkSurvives
<1>5. CASE Timeout
  <2>1. /\ line' = line /\ off' = off /\ from' = off /\ ~discarding'
        /\ link = "open" /\ UNCHANGED <<sent, closed, packets, link>>
    BY <1>5, Zenon DEF Timeout, FreshRead
  <2>2. line \in Nat /\ line >= 1 /\ off \in Nat /\ from \in Nat /\ from <= off
    BY Lines DEF Inv, TypeOK, BufferExact
  <2>3. /\ cuts' \subseteq 1..line
        /\ line \in cuts' <=> off # 0
        /\ \A i \in 1..(line - 1) : i \in cuts' <=> i \in cuts
    BY <1>5, <2>2 DEF Timeout, ReaderInv
  <2>4. Owed' = Owed
    BY <2>1, <2>3, Zenon DEF Owed
  <2> QED
    BY <2>1, <2>3, <2>4, Zenon DEF ReaderInv, NothingLost, LinkSurvives
<1>6. CASE UNCHANGED vars
  BY <1>6, Zenon DEF vars, ReaderInv, NothingLost, Owed, LinkSurvives
<1> QED
  BY <1>1, <1>2, <1>3, <1>4, <1>5, <1>6, Zenon DEF Next

\* A new reader has read nothing and owes nothing.
LEMMA ReaderInit == Init => Inv /\ ReaderInv
<1> SUFFICES ASSUME Init PROVE Inv /\ ReaderInv
  BY Zenon
<1>1. Inv
  BY LineReaderAssumption DEF Init, Inv, TypeOK, BufferExact
<1>2. Owed = {} /\ Len(packets) = 0
  BY DEF Init, Owed
<1>3. NothingLost
  BY <1>2 DEF NothingLost
<1> QED
  BY <1>1, <1>3, Zenon DEF Init, ReaderInv, LinkSurvives

\* Wherever the chunks fall, whatever lengths the peer sends and whenever reads
\* time out: recv_packet_inner has delivered exactly the non-blank lines up to
\* MAX_STEADY_PACKET_SIZE that no timeout cut, each once and in order.
THEOREM LinesArrive == Spec => []NothingLost
<1>1. ReaderInv => NothingLost
  BY Zenon DEF ReaderInv
<1> QED
  BY <1>1, ReaderInit, InvStep, ReaderStep, PTL DEF Spec

\* A link fails only when its peer closed it or a timeout cut a line: skipping an
\* oversized line never leaves a piece of it to be parsed as a packet.
THEOREM LinkStays == Spec => []LinkSurvives
<1>1. ReaderInv => LinkSurvives
  BY Zenon DEF ReaderInv
<1> QED
  BY <1>1, ReaderInit, InvStep, ReaderStep, PTL DEF Spec

-----------------------------------------------------------------------------
(* The pairing dialogue.  The two timeouts of pairing fit together, for    *)
(* every delay and every pair of timeouts that leaves room for two         *)
(* packets.                                                                *)

DgPackets == [kind : {"pair", "no", "data"}, ts : Nat, sent : Nat, accepts : BOOLEAN]
DgPending == [at : Nat, ts : Nat]
Pending == {<<>>} \cup {<<r>> : r \in DgPending}

DgTypes ==
    /\ dgNow \in Nat
    /\ dgWire \in [Sides -> Seq(DgPackets)]
    /\ dgOut \in [Sides -> Pending] /\ dgIn \in [Sides -> Pending]
    /\ dgPaired = [p \in Sides |-> dgPaired[p]]

OnlyData(s) == \A i \in 1..Len(s) : s[i].kind = "data"

\* q has asked: its request is pending, nothing else is.
Asked(q) == /\ dgOut[q] # <<>> /\ dgOut[q][1].at <= dgNow
            /\ dgOut[Other(q)] = <<>> /\ dgIn[q] = <<>>
            /\ ~dgPaired[q]

\* What a dialogue of one request looks like while the request is not sent, or was
\* dropped as stale; while it is under way; once it was read; once it was
\* accepted.
Unheard(q) == /\ Asked(q) /\ dgIn[Other(q)] = <<>> /\ ~dgPaired[Other(q)]
              /\ dgWire[q] = <<>> /\ dgWire[Other(q)] = <<>>

Sent(q) == /\ Asked(q) /\ dgIn[Other(q)] = <<>> /\ ~dgPaired[Other(q)]
           /\ dgWire[q] = <<>>
           /\ Len(dgWire[Other(q)]) = 1
           /\ LET pk == dgWire[Other(q)][1]
              IN  /\ pk.kind = "pair" /\ ~pk.accepts
                  /\ pk.sent = dgOut[q][1].at /\ dgNow <= pk.sent + DgDelay

Heard(q) == /\ Asked(q) /\ dgIn[Other(q)] # <<>> /\ ~dgPaired[Other(q)]
            /\ dgIn[Other(q)][1].at <= dgOut[q][1].at + DgDelay
            /\ dgWire[q] = <<>> /\ dgWire[Other(q)] = <<>>

DgAnswered(q) == /\ Asked(q) /\ dgIn[Other(q)] = <<>> /\ dgPaired[Other(q)]
               /\ dgWire[Other(q)] = <<>>
               /\ dgWire[q] # <<>> /\ OnlyData(Tail(dgWire[q]))
               /\ LET pk == dgWire[q][1]
                  IN  /\ pk.kind = "pair" /\ dgNow <= pk.sent + DgDelay
                      /\ pk.sent <= dgOut[q][1].at + DgDelay + PAIR_ACCEPT_TIMEOUT

Quiet == /\ dgOut = NoWire /\ dgIn = NoWire
         /\ \A p \in Sides : ~dgPaired[p] /\ dgWire[p] = <<>>

Agreed == /\ dgOut = NoWire /\ dgIn = NoWire
          /\ \A p \in Sides : dgPaired[p] /\ OnlyData(dgWire[p])

Phase == Quiet \/ Agreed \/ \E q \in Sides : Unheard(q) \/ Sent(q) \/ Heard(q) \/ DgAnswered(q)

\* A dialogue of one request is always in one of these phases, and the clock
\* has not passed what the delays of its packets allow.
DialogueInv == DgTypes /\ ~dgStray /\ (dgPlain => Phase)

-----------------------------------------------------------------------------
\* What a side sends is put behind what is under way, what it reads is the first
\* packet: the wire as send_packet and recv_packet use it.
LEMMA WireParts ==
    ASSUME NEW p \in Sides, DgTypes, NEW s \in Seq(DgPackets)
    PROVE  /\ Wire(p, 0, s) \in [Sides -> Seq(DgPackets)]
           /\ Wire(p, 0, s)[p] = dgWire[p]
           /\ Wire(p, 0, s)[Other(p)] = dgWire[Other(p)] \o s
           /\ dgWire[p] # <<>> => /\ Wire(p, 1, s) \in [Sides -> Seq(DgPackets)]
                                  /\ Wire(p, 1, s)[p] = Tail(dgWire[p])
                                  /\ Wire(p, 1, s)[Other(p)] = dgWire[Other(p)] \o s
<1>1. Other(p) \in Sides /\ Other(p) # p
  BY DEF Sides, Other
<1>2. dgWire \in [Sides -> Seq(DgPackets)]
  BY Zenon DEF DgTypes
<1>3. \A q \in Seq(DgPackets) : SubSeq(q, 0 + 1, Len(q)) = q
  OBVIOUS
<1>4. \A q \in Seq(DgPackets) : q # <<>> => /\ SubSeq(q, 1 + 1, Len(q)) = Tail(q)
                                           /\ Tail(q) \in Seq(DgPackets)
  OBVIOUS
<1>5. dgWire[Other(p)] \o s \in Seq(DgPackets)
  BY <1>1, <1>2
<1>6. dgWire[p] # <<>> => /\ Wire(p, 1, s) \in [Sides -> Seq(DgPackets)]
                          /\ Wire(p, 1, s)[p] = Tail(dgWire[p])
                          /\ Wire(p, 1, s)[Other(p)] = dgWire[Other(p)] \o s
  BY <1>1, <1>2, <1>4, <1>5, Zenon DEF Wire
<1>7. /\ Wire(p, 0, s) \in [Sides -> Seq(DgPackets)]
      /\ Wire(p, 0, s)[p] = dgWire[p]
      /\ Wire(p, 0, s)[Other(p)] = dgWire[Other(p)] \o s
  BY <1>1, <1>2, <1>3, <1>5, Zenon DEF Wire
<1> QED
  BY <1>6, <1>7, Zenon

\* The packets of the dialogue are packets.
LEMMA PacketTypes ==
    ASSUME DgTypes
    PROVE  /\ <<>> \in Seq(DgPackets)
           /\ <<pair_request(dgNow)>> \in Seq(DgPackets)
           /\ \A a \in BOOLEAN : <<pair_response(a)>> \in Seq(DgPackets)
           /\ <<Packet("data", 0, FALSE)>> \in Seq(DgPackets)
<1>1. dgNow \in Nat
  BY Zenon DEF DgTypes
<1>2. \A k \in {"pair", "no", "data"}, n \in Nat, b \in BOOLEAN : Packet(k, n, b) \in DgPackets
  BY <1>1, Zenon DEF Packet, DgPackets
<1>3. 0 \in Nat
  BY Zenon
<1>4. /\ \A n \in Nat : Packet("pair", n, FALSE) \in DgPackets
      /\ \A n \in Nat : Packet("pair", n, TRUE) \in DgPackets
      /\ \A n \in Nat : Packet("no", n, FALSE) \in DgPackets
      /\ \A n \in Nat : Packet("data", n, FALSE) \in DgPackets
  BY <1>2, Zenon
<1>6. \A x \in DgPackets : <<x>> \in Seq(DgPackets)
  OBVIOUS
<1>7. <<>> \in Seq(DgPackets)
  OBVIOUS
<1> QED
  BY <1>1, <1>3, <1>4, <1>6, <1>7, Zenon DEF pair_request, pair_response

\* Every step of either side keeps the pending requests and the wire well typed.
LEMMA TypesStep ==
    ASSUME DgTypes, [DgNext]_dgVars
    PROVE  DgTypes'
<1> USE PacketTypes
<1>0. NoWire \in [Sides -> Seq(DgPackets)] /\ <<>> \in Pending
  BY Zenon DEF NoWire, Pending
<1>1. CASE DgConnect \/ UNCHANGED dgVars
  BY <1>1, Zenon DEF DgConnect, DgTypes, dgVars
<1>2. CASE DgLose
  BY <1>0, <1>2, Zenon DEF DgLose, Down, DgTypes
<1>3. CASE DgTick
  BY <1>3 DEF DgTick, DgTypes
<1>4. ASSUME NEW p \in Sides PROVE Other(p) \in Sides /\ Other(p) # p
  BY DEF Sides, Other
<1>5. ASSUME NEW p \in Sides, AcceptDevice(p) PROVE DgTypes'
  <2>1. dgWire' \in [Sides -> Seq(DgPackets)]
    <3>1. CASE dgUp
      BY <1>5, <3>1, WireParts, ZenonT(30) DEF AcceptDevice
    <3>2. CASE ~dgUp
      BY <1>5, <3>2, Zenon DEF AcceptDevice, DgTypes
    <3> QED
      BY <3>1, <3>2, Zenon
  <2> QED
    BY <1>0, <1>5, <2>1, Zenon DEF AcceptDevice, accept_pairing, DgTypes
<1>6. ASSUME NEW p \in Sides, InitiateDevice(p) PROVE DgTypes'
  <2>1. dgWire' \in [Sides -> Seq(DgPackets)]
    <3>1. CASE dgUp
      BY <1>6, <3>1, WireParts, Zenon DEF InitiateDevice
    <3>2. CASE ~dgUp
      BY <1>6, <3>2, Zenon DEF InitiateDevice, DgTypes
    <3> QED
      BY <3>1, <3>2, Zenon
  <2>2. <<[at |-> dgNow, ts |-> dgNow]>> \in Pending
    BY Zenon DEF DgTypes, Pending, DgPending
  <2>3. CleanIn(p) \in Pending
    BY <1>0, Zenon DEF CleanIn, DgTypes
  <2> QED
    BY <1>6, <2>1, <2>2, <2>3, Zenon DEF InitiateDevice, DgTypes
<1>7. ASSUME NEW p \in Sides, UnpairDevice(p) PROVE DgTypes'
  <2>1. dgPaired' = [q \in Sides |-> dgPaired'[q]]
    <3>1. PICK x : dgPaired' = [dgPaired EXCEPT ![p] = FALSE, ![Other(p)] = x]
      BY <1>7, Zenon DEF UnpairDevice
    <3> QED
      BY <3>1, Zenon DEF DgTypes
  <2>2. dgOut' \in [Sides -> Pending] /\ dgIn' \in [Sides -> Pending]
    <3>1. \/ /\ dgOut' = [dgOut EXCEPT ![Other(p)] = <<>>]
             /\ dgIn' = [dgIn EXCEPT ![Other(p)] = <<>>]
          \/ dgOut' = dgOut /\ dgIn' = dgIn
      BY <1>7, Zenon DEF UnpairDevice
    <3> QED
      BY <1>0, <1>4, <3>1, ZenonT(30) DEF DgTypes
  <2> QED
    BY <1>0, <1>7, <2>1, <2>2, Zenon DEF UnpairDevice, Down, DgTypes
<1>8. ASSUME NEW p \in Sides, LoopAccepted(p) PROVE DgTypes'
  <2>1. dgWire' \in [Sides -> Seq(DgPackets)]
    BY <1>8, WireParts, Zenon DEF LoopAccepted, Reads
  <2> QED
    BY <1>0, <1>8, <2>1, Zenon DEF LoopAccepted, accept_pairing, DgTypes
<1>9. ASSUME NEW p \in Sides, LoopRequested(p) PROVE DgTypes'
  <2>1. dgWire' \in [Sides -> Seq(DgPackets)] /\ dgWire[p] # <<>>
    BY <1>9, WireParts, Zenon DEF LoopRequested, Reads
  <2>2. dgWire[p][1].ts \in Nat
    <3>1. dgWire[p] \in Seq(DgPackets) /\ dgWire[p] # <<>>
      BY <2>1, Zenon DEF DgTypes
    <3>2. dgWire[p][1] \in DgPackets
      BY <3>1
    <3> QED
      BY <3>2, Zenon DEF DgPackets
  <2>3. <<[at |-> dgNow, ts |-> dgWire[p][1].ts]>> \in Pending
    BY <2>2, Zenon DEF DgTypes, Pending, DgPending
  <2>4. CleanOut(p) \in Pending
    BY <1>0, Zenon DEF CleanOut, DgTypes
  <2> QED
    BY <1>9, <2>1, <2>3, <2>4, ZenonT(30) DEF LoopRequested, DgTypes
<1>10. ASSUME NEW p \in Sides, LoopRefused(p) PROVE DgTypes'
  <2>1. dgWire' \in [Sides -> Seq(DgPackets)]
    <3>1. dgWire[p] # <<>>
      BY <1>10, Zenon DEF LoopRefused, Reads
    <3>2. Wire(p, 1, <<>>) \in [Sides -> Seq(DgPackets)]
      BY <3>1, WireParts, Zenon
    <3>3. dgWire' = Wire(p, 1, <<>>) \/ dgWire' = NoWire
      BY <1>10, Zenon DEF LoopRefused, Down
    <3> QED
      BY <1>0, <3>2, <3>3, Zenon
  <2> QED
    BY <1>0, <1>10, <2>1, Zenon DEF LoopRefused, Down, DgTypes
<1>11. ASSUME NEW p \in Sides, LoopData(p) PROVE DgTypes'
  <2>1. dgWire' \in [Sides -> Seq(DgPackets)]
    <3>1. dgWire[p] # <<>>
      BY <1>11, Zenon DEF LoopData, Reads
    <3>2. /\ Wire(p, 1, <<>>) \in [Sides -> Seq(DgPackets)]
          /\ Wire(p, 1, <<pair_response(FALSE)>>) \in [Sides -> Seq(DgPackets)]
      BY <3>1, WireParts, Zenon
    <3>3. dgWire' = Wire(p, 1, <<>>) \/ dgWire' = Wire(p, 1, <<pair_response(FALSE)>>)
      BY <1>11, Zenon DEF LoopData
    <3> QED
      BY <3>2, <3>3, Zenon
  <2> QED
    BY <1>11, <2>1, Zenon DEF LoopData, DgTypes
<1>12. ASSUME NEW p \in Sides, PluginInit(p) PROVE DgTypes'
  <2>1. dgWire' \in [Sides -> Seq(DgPackets)]
    BY <1>12, WireParts, Zenon DEF PluginInit
  <2> QED
    BY <1>12, <2>1, Zenon DEF PluginInit, DgTypes
<1> QED
  BY <1>1, <1>2, <1>3, <1>5, <1>6, <1>7, <1>8, <1>9, <1>10, <1>11, <1>12, Zenon DEF DgNext

-----------------------------------------------------------------------------
\* The other side is a side, and its other side is this one.
LEMMA OtherSide ==
    ASSUME NEW p \in Sides
    PROVE  /\ Other(p) \in Sides /\ Other(p) # p /\ Other(Other(p)) = p
           /\ \A q \in Sides : q = p \/ q = Other(p)
  BY DEF Sides, Other

\* Reading a packet, or sending one of a plugin, leaves packets of plugins.
LEMMA DataStays ==
    ASSUME NEW s \in Seq(DgPackets), NEW d \in DgPackets, d.kind = "data"
    PROVE  /\ OnlyData(s) /\ s # <<>> => OnlyData(Tail(s))
           /\ OnlyData(s) => OnlyData(s \o <<d>>)
           /\ s # <<>> /\ OnlyData(Tail(s)) => OnlyData(Tail(s \o <<d>>))
           /\ s # <<>> => (s \o <<d>>)[1] = s[1] /\ s \o <<d>> # <<>>
<1>1. /\ s \o <<d>> \in Seq(DgPackets) /\ Len(s \o <<d>>) = Len(s) + 1
      /\ \A i \in 1..Len(s) : (s \o <<d>>)[i] = s[i]
      /\ (s \o <<d>>)[Len(s) + 1] = d
  OBVIOUS
<1>2. OnlyData(s) /\ s # <<>> => OnlyData(Tail(s))
  BY DEF OnlyData
<1>3. OnlyData(s) => OnlyData(s \o <<d>>)
  BY <1>1 DEF OnlyData
<1>4. s # <<>> => (s \o <<d>>)[1] = s[1] /\ s \o <<d>> # <<>>
  BY <1>1
<1>5. ASSUME s # <<>>, OnlyData(Tail(s)) PROVE OnlyData(Tail(s \o <<d>>))
  <2> DEFINE u == s \o <<d>>
  <2>1. u \in Seq(DgPackets) /\ u # <<>> /\ Len(u) = Len(s) + 1
    BY <1>1, <1>4
  <2>2. /\ Len(Tail(u)) = Len(s) /\ \A i \in 1..Len(s) : Tail(u)[i] = u[i + 1]
        /\ Len(Tail(s)) = Len(s) - 1 /\ \A i \in 1..(Len(s) - 1) : Tail(s)[i] = s[i + 1]
        /\ Len(s) \in Nat \ {0}
    <3> HIDE DEF u
    <3> QED
      BY <1>5, <2>1
  <2>3. ASSUME NEW i \in 1..Len(s) PROVE Tail(u)[i].kind = "data"
    <3>1. CASE i < Len(s)
      <4>1. s[i + 1].kind = "data"
        BY <1>5, <2>2, <3>1 DEF OnlyData
      <4>2. i + 1 \in 1..Len(s)
        BY <2>2, <3>1
      <4>3. u[i + 1] = s[i + 1]
        BY <1>1, <4>2, Zenon
      <4> HIDE DEF u
      <4> QED
        BY <2>2, <4>1, <4>3, Zenon
    <3>2. CASE i = Len(s)
      <4>1. u[i + 1] = d
        BY <1>1, <3>2, Zenon
      <4> HIDE DEF u
      <4> QED
        BY <2>2, <4>1, Zenon
    <3>3. i < Len(s) \/ i = Len(s)
      <4>1. Len(s) \in Nat
        OBVIOUS
      <4> QED
        BY <4>1
    <3> QED
      BY <3>1, <3>2, <3>3, Zenon
  <2> QED
    BY <2>2, <2>3, Zenon DEF OnlyData
<1> QED
  BY <1>2, <1>3, <1>4, <1>5, Zenon

\* The answer to a request that was accepted arrives before the requester gives
\* up: PAIR_REQUEST_TIMEOUT exceeds PAIR_ACCEPT_TIMEOUT by two delays.
LEMMA AnswerInTime ==
    ASSUME NEW q \in Sides, DgTypes, DgAnswered(q)
    PROVE  pair_state(q) = "Requested"
<1>1. /\ dgOut[q] # <<>> /\ dgOut[q] \in Pending /\ dgWire[q] \in Seq(DgPackets) /\ dgWire[q] # <<>>
      /\ ~dgPaired[q]
  BY Zenon DEF DgAnswered, Asked, DgTypes
<1>2. dgOut[q][1].at \in Nat
  BY <1>1 DEF Pending, DgPending
<1>3. dgWire[q][1] \in DgPackets
  BY <1>1
<1>4. dgWire[q][1].sent \in Nat
  BY <1>3, Zenon DEF DgPackets
<1>5. ~(dgNow > dgOut[q][1].at + PAIR_REQUEST_TIMEOUT)
  <2>1. {PAIR_REQUEST_TIMEOUT, PAIR_ACCEPT_TIMEOUT, DgDelay} \subseteq Nat
    BY DgAssumption, Zenon
  <2>2. /\ PAIR_REQUEST_TIMEOUT \in Nat /\ PAIR_ACCEPT_TIMEOUT \in Nat /\ DgDelay \in Nat
        /\ 2 * DgDelay <= PAIR_REQUEST_TIMEOUT - PAIR_ACCEPT_TIMEOUT
    BY <2>1, DgAssumption, Zenon
  <2>3. /\ dgNow \in Nat /\ dgNow <= dgWire[q][1].sent + DgDelay
        /\ dgWire[q][1].sent <= dgOut[q][1].at + DgDelay + PAIR_ACCEPT_TIMEOUT
    BY Zenon DEF DgAnswered, DgTypes
  <2> QED
    BY <1>2, <1>4, <2>2, <2>3
<1>6. has_outgoing(q)
  BY <1>1, <1>5, Zenon DEF has_outgoing, Live, is_expired
<1> QED
  BY <1>1, <1>6, Zenon DEF pair_state

-----------------------------------------------------------------------------
\* pair:true is the request, read by the side that was asked, or the answer, read
\* by the side that asked.
LEMMA ReadsPair ==
    ASSUME NEW p \in Sides, DgTypes, Phase, Reads(p, "pair")
    PROVE  Sent(Other(p)) \/ DgAnswered(p)
<1>1. dgWire[p] # <<>> /\ dgWire[p][1].kind = "pair" /\ dgWire[p] \in Seq(DgPackets)
  BY Zenon DEF Reads, DgTypes
<1>2. ~Quiet
  BY <1>1, Zenon DEF Quiet
<1>3. ~Agreed
  <2>1. 1 \in 1..Len(dgWire[p])
    BY <1>1
  <2> QED
    BY <1>1, <2>1, Zenon DEF Agreed, OnlyData
<1>4. PICK q \in Sides : Unheard(q) \/ Sent(q) \/ Heard(q) \/ DgAnswered(q)
  BY <1>2, <1>3, Zenon DEF Phase
<1>5. CASE q = p
  BY <1>1, <1>4, <1>5, Zenon DEF Unheard, Sent, Heard
<1>6. CASE q = Other(p)
  BY <1>1, <1>4, <1>6, OtherSide, Zenon DEF Unheard, Heard, DgAnswered
<1> QED
  BY <1>5, <1>6, OtherSide, Zenon

\* Packets of plugins are first on the wire only when both sides are paired.
LEMMA ReadsData ==
    ASSUME NEW p \in Sides, DgTypes, Phase, Reads(p, "data")
    PROVE  Agreed
<1>1. dgWire[p] # <<>> /\ dgWire[p][1].kind # "pair"
  BY Zenon DEF Reads
<1>2. ~Quiet
  BY <1>1, Zenon DEF Quiet
<1>3. ASSUME NEW q \in Sides, Unheard(q) \/ Sent(q) \/ Heard(q) \/ DgAnswered(q)
      PROVE  FALSE
  <2>1. CASE q = p
    BY <1>1, <1>3, <2>1, Zenon DEF Unheard, Sent, Heard, DgAnswered
  <2>2. CASE q = Other(p)
    BY <1>1, <1>3, <2>2, OtherSide, Zenon DEF Unheard, Sent, Heard, DgAnswered
  <2> QED
    BY <2>1, <2>2, OtherSide, Zenon
<1> QED
  BY <1>2, <1>3, Zenon DEF Phase

\* A request that arrives is either pending at the side that was asked, or dropped
\* as stale.
LEMMA RequestHeard ==
    ASSUME NEW p \in Sides, DgTypes, Sent(Other(p)), LoopRequested(p)
    PROVE  Phase'
<1> DEFINE q == Other(p)
<1>1. q \in Sides /\ q # p /\ Other(q) = p
  BY OtherSide, Zenon
<1>2. /\ dgOut[q] # <<>> /\ dgOut[q][1].at <= dgNow /\ dgOut[p] = <<>>
      /\ dgIn[q] = <<>> /\ dgIn[p] = <<>> /\ ~dgPaired[q] /\ ~dgPaired[p]
      /\ dgWire[q] = <<>> /\ Len(dgWire[p]) = 1
      /\ dgNow <= dgOut[q][1].at + DgDelay
  BY <1>1, Zenon DEF Sent, Asked
<1>3. /\ dgWire' = Wire(p, 1, <<>>) /\ dgWire[p] # <<>> /\ dgNow' = dgNow
      /\ dgWire[p] \in Seq(DgPackets)
  BY <1>1, Zenon DEF LoopRequested, Reads, DgTypes
<1>4. dgWire'[p] = Tail(dgWire[p]) /\ dgWire'[q] = dgWire[q] \o <<>>
  BY <1>1, <1>3, WireParts, PacketTypes, ZenonT(30)
<1>5. dgWire'[p] = <<>> /\ dgWire'[q] = <<>>
  <2>1. Tail(dgWire[p]) = <<>>
    <3>1. Tail(dgWire[p]) \in Seq(DgPackets) /\ Len(Tail(dgWire[p])) = 0
      BY <1>2, <1>3
    <3>2. \A s \in Seq(DgPackets) : Len(s) = 0 => s = <<>>
      OBVIOUS
    <3> QED
      BY <3>1, <3>2, Zenon
  <2>2. <<>> \o <<>> = <<>>
    BY SMTT(30)
  <2> QED
    BY <1>2, <1>4, <2>1, <2>2, Zenon
<1>6. CleanOut(p) = <<>> /\ CleanIn(p) = <<>>
  BY <1>2, Zenon DEF CleanOut, CleanIn, has_outgoing, has_incoming_request, Live
<1> HIDE DEF q
<1>7. CASE pair_timestamp_is_fresh(dgWire[p][1].ts)
  <2>1. /\ dgPaired' = [dgPaired EXCEPT ![p] = FALSE]
        /\ dgOut' = [dgOut EXCEPT ![p] = <<>>]
        /\ dgIn' = [dgIn EXCEPT ![p] = <<[at |-> dgNow, ts |-> dgWire[p][1].ts]>>]
    BY <1>6, <1>7, Zenon DEF LoopRequested
  <2>2. dgOut'[q] = dgOut[q] /\ dgOut'[p] = <<>> /\ dgIn'[q] = <<>>
    BY <1>1, <1>2, <2>1, Zenon DEF DgTypes
  <2>3. dgIn'[p] # <<>> /\ dgIn'[p][1].at = dgNow
    BY <1>1, <2>1, Zenon DEF DgTypes
  <2>4. ~dgPaired'[q] /\ ~dgPaired'[p]
    BY <1>1, <1>2, <2>1, Zenon DEF DgTypes
  <2>5. Heard(q)'
    BY <1>1, <1>2, <1>3, <1>5, <2>2, <2>3, <2>4, Zenon DEF Heard, Asked
  <2> QED
    BY <1>1, <2>5, Zenon DEF Phase
<1>8. CASE ~pair_timestamp_is_fresh(dgWire[p][1].ts)
  <2>1. UNCHANGED <<dgPaired, dgOut, dgIn>>
    BY <1>8, Zenon DEF LoopRequested
  <2>2. Unheard(q)'
    BY <1>1, <1>2, <1>3, <1>5, <2>1, Zenon DEF Unheard, Asked
  <2> QED
    BY <1>1, <2>2, Zenon DEF Phase
<1> QED
  BY <1>7, <1>8, Zenon

\* The answer that finds the request it answers pairs the side that asked.
LEMMA AnswerHeard ==
    ASSUME NEW p \in Sides, DgTypes, DgAnswered(p), LoopAccepted(p)
    PROVE  Agreed'
<1> DEFINE q == Other(p)
<1>1. q \in Sides /\ q # p /\ \A r \in Sides : r = p \/ r = q
  BY OtherSide, Zenon
<1>2. /\ dgOut[p] # <<>> /\ dgOut[q] = <<>> /\ dgIn[p] = <<>> /\ dgIn[q] = <<>> /\ dgPaired[q]
      /\ dgWire[q] = <<>> /\ dgWire[p] # <<>> /\ OnlyData(Tail(dgWire[p]))
  BY Zenon DEF DgAnswered, Asked
<1>3. dgWire'[p] = Tail(dgWire[p]) /\ dgWire'[q] = dgWire[q] \o <<>>
  BY <1>2, WireParts, PacketTypes, Zenon DEF LoopAccepted
<1>4. dgWire'[q] = <<>>
  BY <1>2, <1>3
<1> HIDE DEF q
<1>5. OnlyData(dgWire'[p]) /\ OnlyData(dgWire'[q])
  BY <1>2, <1>3, <1>4, SMTT(30) DEF OnlyData
<1>6. /\ dgPaired' = [dgPaired EXCEPT ![p] = TRUE]
      /\ dgOut' = [dgOut EXCEPT ![p] = <<>>] /\ dgIn' = dgIn
  BY <1>2, Zenon DEF LoopAccepted, accept_pairing
<1>7. dgPaired'[p] /\ dgPaired'[q]
  BY <1>1, <1>2, <1>6, Zenon DEF DgTypes
<1>8. dgOut' = NoWire /\ dgIn' = NoWire
  BY <1>1, <1>2, <1>6, Zenon DEF DgTypes, NoWire
<1> QED
  BY <1>1, <1>5, <1>7, <1>8 DEF Agreed, OnlyData

\* pair_device accepts a request that is pending: in time, and with nothing before
\* the answer on the wire.
LEMMA AcceptAnswers ==
    ASSUME NEW p \in Sides, DgTypes, Phase, AcceptDevice(p)
    PROVE  Phase'
<1> DEFINE q == Other(p)
<1>1. q \in Sides /\ q # p /\ Other(q) = p /\ \A r \in Sides : r = p \/ r = q
  BY OtherSide, Zenon
<1>2. dgIn[p] # <<>> /\ ~(dgNow > dgIn[p][1].at + PAIR_ACCEPT_TIMEOUT)
  BY Zenon DEF AcceptDevice, has_incoming_request, Live, is_expired
<1>3. Heard(q)
  <2>1. ~Quiet /\ ~Agreed
    BY <1>2, Zenon DEF Quiet, Agreed, NoWire
  <2>2. PICK r \in Sides : Unheard(r) \/ Sent(r) \/ Heard(r) \/ DgAnswered(r)
    BY <2>1, Zenon DEF Phase
  <2>3. r # p
    BY <1>2, <2>2, Zenon DEF Unheard, Sent, Heard, DgAnswered, Asked
  <2>4. r = q
    BY <1>1, <2>3, Zenon
  <2> QED
    BY <1>1, <1>2, <2>2, <2>4, ZenonT(30) DEF Unheard, Sent, DgAnswered
<1> HIDE DEF q
<1>4. /\ dgOut[q] # <<>> /\ dgOut[q][1].at <= dgNow /\ dgOut[p] = <<>>
      /\ dgIn[q] = <<>> /\ ~dgPaired[q] /\ ~dgPaired[p]
      /\ dgWire[q] = <<>> /\ dgWire[p] = <<>>
      /\ dgIn[p][1].at <= dgOut[q][1].at + DgDelay
  BY <1>1, <1>3, Zenon DEF Heard, Asked
<1>5. /\ dgNow \in Nat /\ dgIn[p][1].at \in Nat /\ dgOut[q][1].at \in Nat
      /\ DgDelay \in Nat /\ PAIR_ACCEPT_TIMEOUT \in Nat
  <2>1. dgIn[p] \in Pending /\ dgOut[q] \in Pending /\ dgNow \in Nat
    BY <1>1, Zenon DEF DgTypes
  <2>2. dgIn[p][1].at \in Nat /\ dgOut[q][1].at \in Nat
    BY <1>2, <1>4, <2>1 DEF Pending, DgPending
  <2>3. {PAIR_REQUEST_TIMEOUT, PAIR_ACCEPT_TIMEOUT, DgDelay} \subseteq Nat
    BY DgAssumption, Zenon
  <2> QED
    BY <2>1, <2>2, <2>3, Zenon
<1>6. CASE dgUp
  <2>1. /\ dgWire' = Wire(p, 0, <<pair_response(TRUE)>>)
        /\ dgPaired' = [dgPaired EXCEPT ![p] = TRUE]
        /\ dgIn' = [dgIn EXCEPT ![p] = <<>>] /\ dgOut' = dgOut /\ dgNow' = dgNow
    BY <1>4, <1>6, Zenon DEF AcceptDevice, accept_pairing
  <2>2. <<pair_response(TRUE)>> \in Seq(DgPackets)
    BY PacketTypes, Zenon
  <2>3. dgWire'[p] = <<>> /\ dgWire'[q] = <<>> \o <<pair_response(TRUE)>>
    BY <1>4, <2>1, <2>2, WireParts, Zenon DEF q
  <2>4. \A x : <<>> \o <<x>> = <<x>>
    OBVIOUS
  <2>5. dgWire'[q] = <<pair_response(TRUE)>>
    BY <2>3, <2>4, Zenon
  <2>6. pair_response(TRUE).kind = "pair" /\ pair_response(TRUE).sent = dgNow
    BY Zenon DEF pair_response, Packet
  <2>7. /\ dgWire'[q] # <<>> /\ OnlyData(Tail(dgWire'[q]))
        /\ dgWire'[q][1].kind = "pair" /\ dgWire'[q][1].sent = dgNow
    <3>1. /\ dgWire'[q] # <<>> /\ Len(Tail(dgWire'[q])) = 0
          /\ dgWire'[q][1] = pair_response(TRUE)
      <4> HIDE DEF pair_response
      <4> QED
        BY <2>2, <2>5
    <3>2. OnlyData(Tail(dgWire'[q]))
      <4>1. 1..0 = {}
        OBVIOUS
      <4> QED
        BY <3>1, <4>1, Zenon DEF OnlyData
    <3> QED
      BY <2>6, <3>1, <3>2, Zenon
  <2>8. dgPaired'[p] /\ ~dgPaired'[q]
    BY <1>1, <1>4, <2>1, Zenon DEF DgTypes
  <2>9. dgIn'[p] = <<>> /\ dgIn'[q] = <<>>
    BY <1>1, <1>4, <2>1, Zenon DEF DgTypes
  <2>10. /\ dgNow' <= dgWire'[q][1].sent + DgDelay
         /\ dgWire'[q][1].sent <= dgOut'[q][1].at + DgDelay + PAIR_ACCEPT_TIMEOUT
    <3>1. /\ dgNow <= dgNow + DgDelay
          /\ dgNow <= dgOut[q][1].at + DgDelay + PAIR_ACCEPT_TIMEOUT
      <4>1. /\ ~(dgNow > dgIn[p][1].at + PAIR_ACCEPT_TIMEOUT)
            /\ dgIn[p][1].at <= dgOut[q][1].at + DgDelay
        BY <1>2, <1>4, Zenon
      <4>2. \A now, in, out, delay, acc \in Nat :
              ~(now > in + acc) /\ in <= out + delay
                => now <= now + delay /\ now <= out + delay + acc
        OBVIOUS
      <4> QED
        BY <1>5, <4>1, <4>2, Zenon
    <3>2. dgWire'[q][1].sent = dgNow /\ dgOut'[q] = dgOut[q] /\ dgNow' = dgNow
      BY <2>1, <2>7, ZenonT(30)
    <3> QED
      BY <3>1, <3>2, ZenonT(30)
  <2>11. Asked(q)'
    BY <1>1, <1>4, <2>1, <2>8, <2>9, Zenon DEF Asked
  <2>12. DgAnswered(q)'
    BY <1>1, <2>3, <2>7, <2>8, <2>9, <2>10, <2>11, Zenon DEF DgAnswered, OnlyData
  <2> QED
    BY <1>1, <2>12, Zenon DEF Phase
<1>7. CASE ~dgUp
  <2>1. /\ dgOut' = [dgOut EXCEPT ![p] = <<>>] /\ dgIn' = [dgIn EXCEPT ![p] = <<>>]
        /\ UNCHANGED <<dgWire, dgPaired, dgNow>>
    BY <1>7, Zenon DEF AcceptDevice
  <2>2. dgOut' = dgOut /\ dgIn'[p] = <<>> /\ dgIn'[q] = <<>>
    BY <1>1, <1>4, <2>1, Zenon DEF DgTypes
  <2>3. Unheard(q)'
    BY <1>1, <1>4, <2>1, <2>2, Zenon DEF Unheard, Asked
  <2> QED
    BY <1>1, <2>3, Zenon DEF Phase
<1> QED
  BY <1>6, <1>7, Zenon

\* pair_device makes the first request of a dialogue.
LEMMA RequestMade ==
    ASSUME NEW p \in Sides, DgTypes, Phase, InitiateDevice(p), dgPlain'
    PROVE  Phase'
<1> DEFINE q == Other(p)
<1>1. q \in Sides /\ q # p /\ Other(p) = q /\ \A r \in Sides : r = p \/ r = q
  BY OtherSide, Zenon
<1>2. /\ \A r \in Sides : dgOut[r] = <<>> /\ dgIn[r] = <<>>
      /\ ~dgPaired[p] /\ dgNow' = dgNow /\ dgPaired' = dgPaired
  BY ZenonT(30) DEF InitiateDevice
<1>3. Quiet
  BY <1>1, <1>2, Zenon DEF Phase, Agreed, Unheard, Sent, Heard, DgAnswered, Asked
<1>4. ~dgPaired[q] /\ dgWire[p] = <<>> /\ dgWire[q] = <<>>
  BY <1>1, <1>3, Zenon DEF Quiet
<1>5. /\ dgOut' = [dgOut EXCEPT ![p] = <<[at |-> dgNow, ts |-> dgNow]>>]
      /\ dgIn' = [dgIn EXCEPT ![p] = CleanIn(p)] /\ CleanIn(p) = <<>>
  BY <1>2, Zenon DEF InitiateDevice, CleanIn
<1> HIDE DEF q
<1>6. /\ dgOut'[p] # <<>> /\ dgOut'[p][1].at = dgNow /\ dgOut'[q] = <<>>
      /\ dgIn'[p] = <<>> /\ dgIn'[q] = <<>>
  BY <1>1, <1>2, <1>5, Zenon DEF DgTypes
<1>7. Asked(p)'
  BY <1>1, <1>2, <1>6 DEF Asked, DgTypes
<1>8. CASE ~dgUp
  <2>1. dgWire' = dgWire
    BY <1>8, Zenon DEF InitiateDevice
  <2>2. Unheard(p)'
    BY <1>1, <1>2, <1>4, <1>6, <1>7, <2>1, Zenon DEF Unheard
  <2> QED
    BY <2>2, Zenon DEF Phase
<1>9. CASE dgUp
  <2>1. dgWire' = Wire(p, 0, <<pair_request(dgNow)>>)
    BY <1>9, Zenon DEF InitiateDevice
  <2>2. <<pair_request(dgNow)>> \in Seq(DgPackets)
    BY PacketTypes, Zenon
  <2>3. dgWire'[p] = <<>> /\ dgWire'[q] = <<>> \o <<pair_request(dgNow)>>
    <3>1. dgWire'[p] = dgWire[p] /\ dgWire'[q] = dgWire[q] \o <<pair_request(dgNow)>>
      BY <1>1, <2>1, <2>2, WireParts, Zenon
    <3> QED
      BY <1>4, <3>1, Zenon
  <2>4. \A x : <<>> \o <<x>> = <<x>>
    OBVIOUS
  <2>5. dgWire'[q] = <<pair_request(dgNow)>>
    BY <2>3, <2>4, Zenon
  <2>6. /\ pair_request(dgNow).kind = "pair" /\ ~pair_request(dgNow).accepts
        /\ pair_request(dgNow).sent = dgNow
    BY Zenon DEF pair_request, Packet
  <2>7. Len(dgWire'[q]) = 1 /\ dgWire'[q][1] = pair_request(dgNow)
    <3> HIDE DEF pair_request
    <3> QED
      BY <2>2, <2>5
  <2>8. dgNow <= dgNow + DgDelay
    <3>1. {DgDelay} \subseteq Nat
      BY DgAssumption, Zenon
    <3> QED
      BY <3>1 DEF DgTypes
  <2>9. /\ dgWire'[q][1].kind = "pair" /\ ~dgWire'[q][1].accepts
        /\ dgWire'[q][1].sent = dgOut'[p][1].at /\ dgNow' <= dgWire'[q][1].sent + DgDelay
    BY <1>2, <1>6, <2>6, <2>7, <2>8, ZenonT(30)
  <2>10. Sent(p)'
    BY <1>1, <1>2, <1>4, <1>6, <1>7, <2>3, <2>7, <2>9, Zenon DEF Sent
  <2> QED
    BY <2>10, Zenon DEF Phase
<1> QED
  BY <1>8, <1>9, Zenon

\* A packet of a plugin, read: both sides are paired, so it is not answered.
LEMMA DataRead ==
    ASSUME NEW p \in Sides, DgTypes, Agreed, LoopData(p)
    PROVE  Agreed'
<1> DEFINE q == Other(p)
<1>1. q \in Sides /\ q # p /\ \A r \in Sides : r = p \/ r = q
  BY OtherSide, Zenon
<1>2. /\ \A r \in Sides : dgPaired[r] /\ OnlyData(dgWire[r])
      /\ dgOut = NoWire /\ dgIn = NoWire
  BY Zenon DEF Agreed
<1>3. /\ dgWire' = Wire(p, 1, <<>>) /\ dgWire[p] # <<>>
      /\ UNCHANGED <<dgPaired, dgOut, dgIn>>
  BY <1>2, Zenon DEF LoopData, Reads
<1>4. dgWire'[p] = Tail(dgWire[p]) /\ dgWire'[q] = dgWire[q] \o <<>>
  BY <1>3, WireParts, PacketTypes, Zenon
<1> HIDE DEF q
<1>5. dgWire[p] \in Seq(DgPackets) /\ dgWire[q] \in Seq(DgPackets)
  BY <1>1, Zenon DEF DgTypes
<1>6. \A s \in Seq(DgPackets) : s \o <<>> = s
  OBVIOUS
<1>7. OnlyData(dgWire'[q])
  BY <1>1, <1>2, <1>4, <1>5, <1>6, Zenon
<1>8. OnlyData(dgWire'[p])
  <2>1. \A s \in Seq(DgPackets) : OnlyData(s) /\ s # <<>> => OnlyData(Tail(s))
    BY DEF OnlyData
  <2> QED
    BY <1>2, <1>3, <1>4, <1>5, <2>1, Zenon
<1> QED
  BY <1>1, <1>2, <1>3, <1>7, <1>8, Zenon DEF Agreed, OnlyData

\* A packet of a plugin, sent: by either side once both are paired, and before
\* that by the side that accepted, behind its answer.
LEMMA DataSent ==
    ASSUME NEW p \in Sides, DgTypes, Phase, PluginInit(p)
    PROVE  Phase'
<1> DEFINE q == Other(p)  d == Packet("data", 0, FALSE)
<1>1. q \in Sides /\ q # p /\ Other(q) = p /\ \A r \in Sides : r = p \/ r = q
  BY OtherSide, Zenon
<1>2. /\ dgPaired[p] /\ dgWire' = Wire(p, 0, <<d>>)
      /\ UNCHANGED <<dgNow, dgPaired, dgOut, dgIn>>
  BY Zenon DEF PluginInit
<1>3. <<d>> \in Seq(DgPackets)
  BY PacketTypes, Zenon
<1>4. dgWire'[p] = dgWire[p] /\ dgWire'[q] = dgWire[q] \o <<d>>
  BY <1>2, <1>3, WireParts, Zenon
<1>5. d.kind = "data"
  BY Zenon DEF Packet
<1> HIDE DEF q, d
<1>6. d \in DgPackets /\ dgWire[q] \in Seq(DgPackets)
  BY <1>1, <1>3 DEF DgTypes
<1>7. CASE Agreed
  <2>1. OnlyData(dgWire'[p]) /\ OnlyData(dgWire'[q])
    BY <1>1, <1>4, <1>5, <1>6, <1>7, DataStays, Zenon DEF Agreed
  <2>2. Agreed'
    BY <1>1, <1>2, <1>7, <2>1, SMTT(30) DEF Agreed, OnlyData
  <2> QED
    BY <2>2, Zenon DEF Phase
<1>8. CASE DgAnswered(q)
  <2>1. /\ dgWire[q] # <<>> /\ OnlyData(Tail(dgWire[q])) /\ dgWire[p] = <<>>
    BY <1>1, <1>8, Zenon DEF DgAnswered
  <2>2. /\ dgWire'[q] # <<>> /\ OnlyData(Tail(dgWire'[q]))
        /\ dgWire'[q][1] = dgWire[q][1]
    BY <1>4, <1>5, <1>6, <2>1, DataStays, Zenon
  <2>3. DgAnswered(q)'
    BY <1>1, <1>2, <1>4, <1>8, <2>1, <2>2, Zenon DEF DgAnswered, Asked, OnlyData
  <2> QED
    BY <1>1, <2>3, Zenon DEF Phase
<1>9. Agreed \/ DgAnswered(q)
  BY <1>1, <1>2, ZenonT(30) DEF Phase, Quiet, Unheard, Sent, Heard, DgAnswered, Asked
<1> QED
  BY <1>7, <1>8, <1>9, Zenon

\* Time passes, but not beyond the delay of the first packet under way.
LEMMA TimePasses ==
    ASSUME DgTypes, Phase, DgTick
    PROVE  Phase'
<1>1. /\ dgNow' = dgNow + 1 /\ dgNow \in Nat /\ DgDelay \in Nat
      /\ UNCHANGED <<dgWire, dgPaired, dgOut, dgIn>>
  <2>1. {DgDelay} \subseteq Nat
    BY DgAssumption, Zenon
  <2> QED
    BY <2>1, Zenon DEF DgTick, DgTypes
<1>2. \A p \in Sides : dgWire[p] # <<>> => dgNow < dgWire[p][1].sent + DgDelay
  BY Zenon DEF DgTick
<1>3. CASE Quiet \/ Agreed
  BY <1>1, <1>3, Zenon DEF Phase, Quiet, Agreed
<1>4. ASSUME NEW q \in Sides, Unheard(q) \/ Sent(q) \/ Heard(q) \/ DgAnswered(q)
      PROVE  Phase'
  <2>1. dgOut[q] # <<>> /\ dgOut[q] \in Pending /\ dgOut[q][1].at <= dgNow
    BY <1>4, Zenon DEF Unheard, Sent, Heard, DgAnswered, Asked, DgTypes
  <2>2. dgOut[q][1].at \in Nat
    BY <2>1, SMTT(30) DEF Pending, DgPending
  <2>3. dgOut[q][1].at <= dgNow + 1
    BY <1>1, <2>1, <2>2, SMTT(30)
  <2>4. Asked(q)'
    BY <1>1, <1>4, <2>3, Zenon DEF Unheard, Sent, Heard, DgAnswered, Asked
  <2>5. ASSUME NEW p \in Sides, dgWire[p] # <<>>
        PROVE  dgNow + 1 <= dgWire[p][1].sent + DgDelay
    <3>1. dgWire[p][1] \in DgPackets
      BY <2>5 DEF DgTypes
    <3>2. dgWire[p][1].sent \in Nat
      BY <3>1, Zenon DEF DgPackets
    <3> QED
      BY <1>1, <1>2, <2>5, <3>2, SMTT(30)
  <2>6. CASE Unheard(q)
    BY <1>1, <2>4, <2>6, Zenon DEF Unheard, Phase
  <2>7. CASE Sent(q)
    <3>1. Other(q) \in Sides /\ dgWire[Other(q)] # <<>>
      BY <2>7, OtherSide, SMTT(30) DEF Sent
    <3>2. Sent(q)'
      BY <1>1, <2>4, <2>5, <2>7, <3>1, Zenon DEF Sent
    <3> QED
      BY <3>2, Zenon DEF Phase
  <2>8. CASE Heard(q)
    BY <1>1, <2>4, <2>8, Zenon DEF Heard, Phase
  <2>9. CASE DgAnswered(q)
    <3>1. DgAnswered(q)'
      BY <1>1, <2>4, <2>5, <2>9, Zenon DEF DgAnswered, OnlyData
    <3> QED
      BY <3>1, Zenon DEF Phase
  <2> QED
    BY <1>4, <2>6, <2>7, <2>8, <2>9, Zenon
<1> QED
  BY <1>3, <1>4, Zenon DEF Phase

\* Every step of either side keeps a dialogue of one request in its phases.
LEMMA PhaseStep ==
    ASSUME DialogueInv, [DgNext]_dgVars, dgPlain'
    PROVE  Phase'
<1>1. DgTypes /\ dgPlain /\ Phase
  <2>1. dgPlain
    BY Zenon DEF DgNext, dgVars, DgConnect, DgLose, DgTick, AcceptDevice, InitiateDevice, UnpairDevice,
           LoopAccepted, LoopRequested, LoopRefused, LoopData, PluginInit
  <2> QED
    BY <2>1, Zenon DEF DialogueInv
<1>2. CASE DgConnect \/ UNCHANGED dgVars
  <2>1. UNCHANGED <<dgNow, dgWire, dgPaired, dgOut, dgIn>>
    BY <1>2, Zenon DEF DgConnect, dgVars
  <2> QED
    BY <1>1, <2>1, ZenonT(30) DEF Phase, Quiet, Agreed, Unheard, Sent, Heard, DgAnswered, Asked, OnlyData
<1>3. CASE DgTick
  BY <1>1, <1>3, TimePasses, Zenon
<1>4. ASSUME NEW p \in Sides, LoopAccepted(p) PROVE Phase'
  <2>1. ~Sent(Other(p))
    BY <1>4, OtherSide, Zenon DEF LoopAccepted, pair_state, has_outgoing, has_incoming_request, Live, Sent, Asked
  <2>2. DgAnswered(p)
    BY <1>1, <1>4, <2>1, ReadsPair, Zenon DEF LoopAccepted
  <2> QED
    BY <1>1, <1>4, <2>2, AnswerHeard, Zenon DEF Phase
<1>5. ASSUME NEW p \in Sides, LoopRequested(p) PROVE Phase'
  <2>1. Reads(p, "pair") /\ pair_state(p) # "Requested"
    BY <1>5, Zenon DEF LoopRequested
  <2> QED
    BY <1>1, <1>5, <2>1, ReadsPair, AnswerInTime, RequestHeard, Zenon
<1>6. ASSUME NEW p \in Sides, LoopData(p) PROVE Phase'
  <2>1. Agreed
    BY <1>1, <1>6, ReadsData, Zenon DEF LoopData
  <2> QED
    BY <1>1, <1>6, <2>1, DataRead, Zenon DEF Phase
<1>7. ~DgLose /\ \A p \in Sides : ~UnpairDevice(p) /\ ~LoopRefused(p)
  BY Zenon DEF DgLose, UnpairDevice, LoopRefused
<1> QED
  BY <1>1, <1>2, <1>3, <1>4, <1>5, <1>6, <1>7, AcceptAnswers, RequestMade, DataSent, Zenon DEF DgNext

\* pair:true is never taken for a request when it is an answer.
LEMMA NoStray ==
    ASSUME DialogueInv, [DgNext]_dgVars
    PROVE  ~dgStray'
<1>1. DgTypes /\ ~dgStray
  BY Zenon DEF DialogueInv
<1>2. ASSUME NEW p \in Sides, LoopRequested(p) PROVE ~dgStray'
  <2> SUFFICES ASSUME dgPlain, dgWire[p][1].accepts
               PROVE  FALSE
    BY <1>1, <1>2, ZenonT(30) DEF LoopRequested
  <2>1. Reads(p, "pair") /\ pair_state(p) # "Requested" /\ Phase
    BY <1>2, Zenon DEF LoopRequested, DialogueInv
  <2>2. Sent(Other(p))
    BY <1>1, <2>1, ReadsPair, AnswerInTime, Zenon
  <2> QED
    BY <2>2, OtherSide, Zenon DEF Sent
<1>3. ASSUME UNCHANGED dgStray PROVE ~dgStray'
  BY <1>1, <1>3, Zenon
<1> QED
  BY <1>2, <1>3, ZenonT(30) DEF DgNext, dgVars, DgConnect, DgLose, DgTick, AcceptDevice, InitiateDevice,
     UnpairDevice, LoopAccepted, LoopRefused, LoopData, PluginInit

\* "the requester times out at 30, so the accepter gives up first": for every two
\* timeouts that leave room for two packets, an accept made in time finds the
\* request it answers.
THEOREM TimeoutsFit == DgSpec => []AcceptFindsRequest
<1>1. DgInit => DialogueInv
  <2> SUFFICES ASSUME DgInit PROVE DialogueInv
    BY Zenon
  <2>1. DgTypes
    BY DEF DgInit, DgTypes, NoWire, Pending
  <2>2. Quiet
    BY Zenon DEF DgInit, Quiet, NoWire
  <2> QED
    BY <2>1, <2>2, Zenon DEF DgInit, DialogueInv, Phase
<1>2. DialogueInv /\ [DgNext]_dgVars => DialogueInv'
  BY TypesStep, NoStray, PhaseStep, Zenon DEF DialogueInv
<1>3. DialogueInv => AcceptFindsRequest
  BY Zenon DEF DialogueInv, AcceptFindsRequest
<1> QED
  BY <1>1, <1>2, <1>3, PTL DEF DgSpec

-----------------------------------------------------------------------------
(* Both sides are paired or neither is, once they have talked.             *)

\* A packet of a kind is under way.
UnderWay(s, kind) == \E i \in 1..Len(s) : s[i].kind = kind

\* Every pair packet under way has one of a plugin behind it.
DataBehind(s) ==
    \A i \in 1..Len(s) : s[i].kind = "pair" => \E j \in (i + 1)..Len(s) : s[j].kind = "data"

\* A paired side that has spoken has done so after its last pair packet.
SpokeLast(p) == dgPaired[p] /\ dgSpoke[p] => DataBehind(dgWire[Other(p)])

\* A side that the other has told it is not paired: the packet is under way, or it was
\* read by a side that neither is paired nor waits for an answer, or a pair packet of
\* that side is under way, which ends unpair_notified.
ToldInVain(p) ==
    dgTold[Other(p)] => \/ UnderWay(dgWire[p], "no")
                        \/ ~dgPaired[p] /\ ~has_outgoing(p)
                        \/ UnderWay(dgWire[Other(p)], "pair")

\* A side that is paired alone and has spoken will be told.
WillHear(p) ==
    dgPaired[p] /\ dgSpoke[p] /\ ~dgPaired[Other(p)] =>
        UnderWay(dgWire[p], "no") \/ UnderWay(dgWire[Other(p)], "data")

AgreeTypes ==
    /\ DgTypes
    /\ dgPaired \in [Sides -> BOOLEAN] /\ dgTold \in [Sides -> BOOLEAN]
    /\ dgSpoke \in [Sides -> BOOLEAN]
    /\ ~dgUp => \A p \in Sides : ~dgTold[p] /\ ~dgSpoke[p] /\ dgWire[p] = <<>>

AgreeOf(p) == SpokeLast(p) /\ ToldInVain(p) /\ WillHear(p)

AgreeInv == AgreeTypes /\ \A p \in Sides : AgreeOf(p)

\* What is under way stays under way until it is read.
LEMMA AfterReading ==
    ASSUME NEW s \in Seq(DgPackets), s # <<>>
    PROVE  /\ \A k : UnderWay(s, k) /\ s[1].kind # k => UnderWay(Tail(s), k)
           /\ DataBehind(s) => DataBehind(Tail(s))
           /\ DataBehind(s) /\ s[1].kind = "pair" => UnderWay(Tail(s), "data")
<1> DEFINE t == Tail(s)
<1>1. /\ Len(s) \in Nat /\ Len(s) >= 1 /\ Len(t) = Len(s) - 1
      /\ \A i \in 2..Len(s) : i - 1 \in 1..Len(t) /\ t[i - 1] = s[i]
      /\ \A i \in 1..Len(t) : i + 1 \in 2..Len(s) /\ t[i] = s[i + 1]
  OBVIOUS
<1> HIDE DEF t
<1>2. \A i \in 1..Len(s) : i = 1 \/ i \in 2..Len(s)
  BY <1>1
<1>3. ASSUME NEW k, UnderWay(s, k), s[1].kind # k PROVE UnderWay(t, k)
  <2>1. PICK i \in 1..Len(s) : s[i].kind = k
    BY <1>3, Zenon DEF UnderWay
  <2>2. i \in 2..Len(s)
    BY <1>2, <1>3, <2>1, Zenon
  <2> QED BY <1>1, <2>1, <2>2, Zenon DEF UnderWay
<1>4. ASSUME DataBehind(s) PROVE DataBehind(t)
  <2> SUFFICES ASSUME NEW i \in 1..Len(t), t[i].kind = "pair"
               PROVE  \E j \in (i + 1)..Len(t) : t[j].kind = "data"
    BY Zenon DEF DataBehind
  <2>1. i + 1 \in 2..Len(s) /\ s[i + 1].kind = "pair" /\ i + 1 \in 1..Len(s)
    BY <1>1
  <2>2. PICK j \in ((i + 1) + 1)..Len(s) : s[j].kind = "data"
    BY <1>4, <2>1, Zenon DEF DataBehind
  <2>3. j \in 2..Len(s) /\ j - 1 \in (i + 1)..Len(t)
    BY <1>1, <2>1, <2>2
  <2> QED BY <1>1, <2>2, <2>3, Zenon
<1>5. ASSUME DataBehind(s), s[1].kind = "pair" PROVE UnderWay(t, "data")
  <2>1. 1 \in 1..Len(s)
    BY <1>1
  <2>2. PICK j \in (1 + 1)..Len(s) : s[j].kind = "data"
    BY <1>5, <2>1, Zenon DEF DataBehind
  <2>3. j \in 2..Len(s)
    BY <1>1, <2>2
  <2> QED BY <1>1, <2>2, <2>3, Zenon DEF UnderWay
<1> QED BY <1>3, <1>4, <1>5, Zenon DEF t

\* A packet that is sent is under way behind the others.
LEMMA AfterSending ==
    ASSUME NEW s \in Seq(DgPackets), NEW d \in DgPackets
    PROVE  /\ \A k : UnderWay(s, k) => UnderWay(s \o <<d>>, k)
           /\ UnderWay(s \o <<d>>, d.kind)
           /\ DataBehind(s) /\ d.kind # "pair" => DataBehind(s \o <<d>>)
           /\ d.kind = "data" => DataBehind(s \o <<d>>)
<1> DEFINE t == s \o <<d>>
<1>1. /\ Len(s) \in Nat /\ Len(t) = Len(s) + 1
      /\ \A i \in 1..Len(s) : t[i] = s[i]
      /\ t[Len(s) + 1] = d
  OBVIOUS
<1> HIDE DEF t
<1>2. /\ Len(s) + 1 \in 1..Len(t)
      /\ \A i \in 1..Len(s) : i \in 1..Len(t) /\ Len(s) + 1 \in (i + 1)..Len(t)
      /\ \A i \in 1..Len(t) : i \in 1..Len(s) \/ i = Len(s) + 1
      /\ \A i \in 1..Len(s) : \A j \in (i + 1)..Len(s) : j \in (i + 1)..Len(t) /\ j \in 1..Len(s)
  BY <1>1
<1>3. ASSUME NEW k, UnderWay(s, k) PROVE UnderWay(t, k)
  BY <1>1, <1>2, <1>3, Zenon DEF UnderWay
<1>4. UnderWay(t, d.kind)
  BY <1>1, <1>2, Zenon DEF UnderWay
<1>5. ASSUME DataBehind(s), d.kind # "pair" PROVE DataBehind(t)
  <2> SUFFICES ASSUME NEW i \in 1..Len(t), t[i].kind = "pair"
               PROVE  \E j \in (i + 1)..Len(t) : t[j].kind = "data"
    BY Zenon DEF DataBehind
  <2>1. i \in 1..Len(s) /\ s[i].kind = "pair"
    BY <1>1, <1>2, <1>5, Zenon
  <2>2. PICK j \in (i + 1)..Len(s) : s[j].kind = "data"
    BY <1>5, <2>1, Zenon DEF DataBehind
  <2> QED BY <1>1, <1>2, <2>1, <2>2, Zenon
<1>6. ASSUME d.kind = "data" PROVE DataBehind(t)
  <2> SUFFICES ASSUME NEW i \in 1..Len(t), t[i].kind = "pair"
               PROVE  \E j \in (i + 1)..Len(t) : t[j].kind = "data"
    BY Zenon DEF DataBehind
  <2>1. i \in 1..Len(s)
    <3>1. i # Len(s) + 1
      <4>1. SUFFICES ASSUME i = Len(s) + 1 PROVE FALSE
        OBVIOUS
      <4>2. t[i] = d
        BY <1>1, <4>1, Zenon
      <4> QED BY <1>6, <4>2, Zenon
    <3> QED BY <1>2, <3>1, Zenon
  <2> QED BY <1>1, <1>2, <1>6, <2>1, Zenon
<1> QED BY <1>3, <1>4, <1>5, <1>6, Zenon DEF t

\* Of the four kinds of packets, what the loops and the API send.
LEMMA PacketKinds ==
    ASSUME DgTypes
    PROVE  /\ pair_request(dgNow) \in DgPackets /\ pair_request(dgNow).kind = "pair"
           /\ pair_response(TRUE) \in DgPackets /\ pair_response(TRUE).kind = "pair"
           /\ pair_response(FALSE) \in DgPackets /\ pair_response(FALSE).kind = "no"
           /\ Packet("data", 0, FALSE) \in DgPackets /\ Packet("data", 0, FALSE).kind = "data"
<1>1. dgNow \in Nat
  BY Zenon DEF DgTypes
<1>2. \A k \in {"pair", "no", "data"}, n \in Nat, b \in BOOLEAN :
          Packet(k, n, b) \in DgPackets /\ Packet(k, n, b).kind = k
  BY <1>1, Zenon DEF Packet, DgPackets
<1>3. 0 \in Nat
  BY Zenon
<1>4. /\ \A n \in Nat : Packet("pair", n, FALSE) \in DgPackets /\ Packet("pair", n, FALSE).kind = "pair"
      /\ \A n \in Nat : Packet("pair", n, TRUE) \in DgPackets /\ Packet("pair", n, TRUE).kind = "pair"
      /\ \A n \in Nat : Packet("no", n, FALSE) \in DgPackets /\ Packet("no", n, FALSE).kind = "no"
      /\ \A n \in Nat : Packet("data", n, FALSE) \in DgPackets /\ Packet("data", n, FALSE).kind = "data"
  BY <1>2, Zenon
<1> QED BY <1>1, <1>3, <1>4, Zenon DEF pair_request, pair_response

\* A side sends a packet.
LEMMA OneSent ==
    ASSUME AgreeTypes, NEW p \in Sides, NEW d \in DgPackets
    PROVE  /\ Wire(p, 0, <<d>>)[p] = dgWire[p]
           /\ Wire(p, 0, <<d>>)[Other(p)] = dgWire[Other(p)] \o <<d>>
           /\ dgWire[Other(p)] \in Seq(DgPackets)
<1>1. <<d>> \in Seq(DgPackets)
  OBVIOUS
<1> QED BY <1>1, WireParts, OtherSide, Zenon DEF AgreeTypes, DgTypes

\* A side reads a packet, and answers it or not.
LEMMA OneRead ==
    ASSUME AgreeTypes, NEW p \in Sides, dgWire[p] # <<>>, NEW d \in DgPackets
    PROVE  /\ dgWire[p] \in Seq(DgPackets) /\ dgWire[Other(p)] \in Seq(DgPackets)
           /\ Wire(p, 1, <<>>)[p] = Tail(dgWire[p]) /\ Wire(p, 1, <<d>>)[p] = Tail(dgWire[p])
           /\ Wire(p, 1, <<>>)[Other(p)] = dgWire[Other(p)]
           /\ Wire(p, 1, <<d>>)[Other(p)] = dgWire[Other(p)] \o <<d>>
<1>1. <<d>> \in Seq(DgPackets) /\ <<>> \in Seq(DgPackets)
  OBVIOUS
<1>2. dgWire[p] \in Seq(DgPackets) /\ dgWire[Other(p)] \in Seq(DgPackets)
  BY OtherSide, Zenon DEF AgreeTypes, DgTypes
<1>3. dgWire[Other(p)] \o <<>> = dgWire[Other(p)]
  BY <1>2
<1> QED BY <1>1, <1>2, <1>3, WireParts, Zenon DEF AgreeTypes

\* A pair packet with one of a plugin behind it is not alone.
LEMMA BehindAPair ==
    ASSUME NEW s \in Seq(DgPackets), DataBehind(s), UnderWay(s, "pair")
    PROVE  UnderWay(s, "data")
<1>1. PICK i \in 1..Len(s) : s[i].kind = "pair"
  BY Zenon DEF UnderWay
<1>2. PICK j \in (i + 1)..Len(s) : s[j].kind = "data"
  BY <1>1, Zenon DEF DataBehind
<1>3. j \in 1..Len(s)
  BY <1>1, <1>2
<1> QED BY <1>2, <1>3, Zenon DEF UnderWay

\* Every step keeps the flags well typed, and a link that is down has no packets, no
\* loop that was told and no side that spoke.
LEMMA AgreeTypesStep ==
    ASSUME AgreeTypes, [DgNext]_dgVars
    PROVE  AgreeTypes'
<1> USE DEF AgreeTypes
<1>0. DgTypes'
  BY TypesStep, Zenon
<1>1. CASE DgConnect \/ UNCHANGED dgVars
  BY <1>0, <1>1, Zenon DEF DgConnect, dgVars
<1>2. ASSUME Down, dgPaired' \in [Sides -> BOOLEAN] PROVE AgreeTypes'
  BY <1>0, <1>2, Zenon DEF Down, NoWire
<1>3. CASE DgLose
  BY <1>2, <1>3, Zenon DEF DgLose
<1>4. CASE DgTick
  BY <1>0, <1>4, Zenon DEF DgTick
<1>5. ASSUME NEW p \in Sides, AcceptDevice(p) PROVE AgreeTypes'
  <2>1. CASE dgUp
    BY <1>0, <1>5, <2>1, Zenon DEF AcceptDevice, accept_pairing
  <2>2. CASE ~dgUp
    BY <1>0, <1>5, <2>2, Zenon DEF AcceptDevice
  <2> QED BY <2>1, <2>2, Zenon
<1>6. ASSUME NEW p \in Sides, InitiateDevice(p) PROVE AgreeTypes'
  BY <1>0, <1>6, Zenon DEF InitiateDevice
<1>7. ASSUME NEW p \in Sides, UnpairDevice(p) PROVE AgreeTypes'
  <2>1. PICK told \in {dgUp, FALSE} :
            dgPaired' = [dgPaired EXCEPT ![p] = FALSE, ![Other(p)] = @ /\ ~told]
    BY <1>7, Zenon DEF UnpairDevice
  <2>2. dgPaired' \in [Sides -> BOOLEAN]
    BY <2>1, Zenon
  <2> QED BY <1>2, <1>7, <2>2, Zenon DEF UnpairDevice
<1>8. ASSUME NEW p \in Sides, LoopAccepted(p) PROVE AgreeTypes'
  BY <1>0, <1>8, Zenon DEF LoopAccepted, accept_pairing, Reads
<1>9. ASSUME NEW p \in Sides, LoopRequested(p) PROVE AgreeTypes'
  BY <1>0, <1>9, Zenon DEF LoopRequested, Reads
<1>10. ASSUME NEW p \in Sides, LoopRefused(p) PROVE AgreeTypes'
  <2>1. CASE pair_state(p) = "NotPaired"
    BY <1>0, <1>10, <2>1, Zenon DEF LoopRefused, Reads
  <2>2. CASE pair_state(p) # "NotPaired"
    BY <1>2, <1>10, <2>2, Zenon DEF LoopRefused
  <2> QED BY <2>1, <2>2, Zenon
<1>11. ASSUME NEW p \in Sides, LoopData(p) PROVE AgreeTypes'
  BY <1>0, <1>11, Zenon DEF LoopData, Reads
<1>12. ASSUME NEW p \in Sides, PluginInit(p) PROVE AgreeTypes'
  BY <1>0, <1>12, Zenon DEF PluginInit
<1> QED
  BY <1>1, <1>3, <1>4, <1>5, <1>6, <1>7, <1>8, <1>9, <1>10, <1>11, <1>12, Zenon DEF DgNext

\* On a new link nobody has spoken, and nobody was told.
LEMMA NewLinkAgrees ==
    ASSUME \A p \in Sides : ~dgSpoke'[p] /\ ~dgTold'[p]
    PROVE  \A p \in Sides : AgreeOf(p)'
<1> TAKE p \in Sides
<1>1. Other(p) \in Sides
  BY OtherSide, Zenon
<1> QED BY <1>1, Zenon DEF AgreeOf, SpokeLast, ToldInVain, WillHear

\* What is said of a side holds on while its packets and flags stay and its request
\* does not come back to life.
LEMMA SameAgrees ==
    ASSUME NEW p \in Sides, AgreeOf(p),
           dgWire'[p] = dgWire[p], dgWire'[Other(p)] = dgWire[Other(p)],
           dgPaired'[p] = dgPaired[p], dgPaired'[Other(p)] = dgPaired[Other(p)],
           dgSpoke'[p] = dgSpoke[p], dgTold'[Other(p)] = dgTold[Other(p)],
           has_outgoing(p)' => has_outgoing(p)
    PROVE  AgreeOf(p)'
<1>1. SpokeLast(p)' /\ WillHear(p)'
  BY Zenon DEF AgreeOf, SpokeLast, WillHear
<1>2. ToldInVain(p)'
  BY Zenon DEF AgreeOf, ToldInVain
<1> QED BY <1>1, <1>2, Zenon DEF AgreeOf

\* A request that is dropped, or that time passes over, does not come back to life.
LEMMA RequestAges ==
    ASSUME DgTypes, DgTypes', NEW p \in Sides,
           \/ dgOut'[p] = dgOut[p] /\ dgNow' \in {dgNow, dgNow + 1}
           \/ dgOut'[p] = <<>>
    PROVE  has_outgoing(p)' => has_outgoing(p)
<1>1. CASE dgOut'[p] = <<>>
  BY <1>1, Zenon DEF has_outgoing, Live
<1>2. CASE dgOut'[p] = dgOut[p] /\ dgNow' \in {dgNow, dgNow + 1}
  <2> SUFFICES ASSUME dgOut[p] # <<>>, ~is_expired(dgOut[p][1], PAIR_REQUEST_TIMEOUT)'
               PROVE  ~is_expired(dgOut[p][1], PAIR_REQUEST_TIMEOUT)
    BY <1>2, Zenon DEF has_outgoing, Live
  <2>1. dgNow \in Nat /\ dgOut[p] \in Pending
    BY Zenon DEF DgTypes
  <2>2. PICK r \in DgPending : dgOut[p] = <<r>>
    BY <2>1, Zenon DEF Pending
  <2>3. dgOut[p][1].at \in Nat /\ PAIR_REQUEST_TIMEOUT \in Nat
    <3>1. dgOut[p][1] = r
      BY <2>2
    <3> QED BY <3>1, DgAssumption, Zenon DEF DgPending
  <2>4. dgOut'[p][1] = dgOut[p][1] /\ ~(dgNow' > dgOut[p][1].at + PAIR_REQUEST_TIMEOUT)
    BY <1>2, Zenon DEF is_expired
  <2>5. ~(dgNow > dgOut[p][1].at + PAIR_REQUEST_TIMEOUT)
    <3> DEFINE at == dgOut[p][1].at
    <3>1. at \in Nat /\ ~(dgNow' > at + PAIR_REQUEST_TIMEOUT) /\ PAIR_REQUEST_TIMEOUT \in Nat
      BY <2>3, <2>4, Zenon
    <3> HIDE DEF at
    <3>2. ~(dgNow > at + PAIR_REQUEST_TIMEOUT)
      BY <1>2, <2>1, <3>1
    <3> QED BY <3>2, Zenon DEF at
  <2> QED BY <2>5, Zenon DEF is_expired
<1> QED BY <1>1, <1>2, Zenon

\* pair_device: the accept, sent before the pairing, goes before what a plugin says.
LEMMA AcceptAgrees ==
    ASSUME AgreeInv, AgreeTypes', NEW p \in Sides, AcceptDevice(p)
    PROVE  \A x \in Sides : AgreeOf(x)'
<1> DEFINE q == Other(p)
<1>1. /\ q \in Sides /\ q # p /\ Other(q) = p /\ \A x \in Sides : x = p \/ x = q
      /\ AgreeTypes /\ DgTypes /\ DgTypes' /\ AgreeOf(p) /\ AgreeOf(q)
  BY OtherSide, Zenon DEF AgreeInv, AgreeTypes
<1>2. CASE ~dgUp
  <2>1. \A x \in Sides : ~dgSpoke'[x] /\ ~dgTold'[x]
    BY <1>2, Zenon DEF AcceptDevice, AgreeInv, AgreeTypes
  <2> QED BY <2>1, NewLinkAgrees, Zenon
<1>3. CASE dgUp
  <2>1. /\ dgWire' = Wire(p, 0, <<pair_response(TRUE)>>) /\ accept_pairing(p)
        /\ dgTold' = dgTold /\ dgNow' = dgNow
    BY <1>3, Zenon DEF AcceptDevice
  <2>2. /\ dgWire'[p] = dgWire[p] /\ dgWire'[q] = dgWire[q] \o <<pair_response(TRUE)>>
        /\ dgWire[q] \in Seq(DgPackets) /\ pair_response(TRUE) \in DgPackets
        /\ pair_response(TRUE).kind = "pair"
    BY <1>1, <2>1, OneSent, PacketKinds, Zenon
  <2>3. /\ dgPaired'[p] /\ dgPaired'[q] = dgPaired[q]
        /\ ~dgSpoke'[p] /\ dgSpoke'[q] = dgSpoke[q]
    BY <1>1, <2>1, Zenon DEF accept_pairing, AgreeTypes
  <2>4. /\ \A k : UnderWay(dgWire[q], k) => UnderWay(dgWire'[q], k)
        /\ UnderWay(dgWire'[q], "pair")
    BY <2>2, AfterSending, Zenon
  <2>5. AgreeOf(p)'
    BY <1>1, <2>3, <2>4, Zenon DEF AgreeOf, SpokeLast, ToldInVain, WillHear
  <2>6. has_outgoing(q)' => has_outgoing(q)
    <3>1. dgOut'[q] = dgOut[q]
      BY <1>1, <2>1, Zenon DEF accept_pairing, DgTypes
    <3> QED BY <1>1, <2>1, <3>1, RequestAges, Zenon
  <2>7. AgreeOf(q)'
    <3>1. SpokeLast(q)'
      BY <1>1, <2>2, <2>3, Zenon DEF AgreeOf, SpokeLast
    <3>2. ToldInVain(q)'
      BY <1>1, <2>1, <2>2, <2>3, <2>4, <2>6, Zenon DEF AgreeOf, ToldInVain
    <3>3. WillHear(q)'
      BY <1>1, <2>3, Zenon DEF WillHear
    <3> QED BY <3>1, <3>2, <3>3, Zenon DEF AgreeOf
  <2> QED BY <1>1, <2>5, <2>7, Zenon
<1> QED BY <1>2, <1>3, Zenon

\* pair_device without a request: only a side that is not paired asks.
LEMMA InitiateAgrees ==
    ASSUME AgreeInv, AgreeTypes', NEW p \in Sides, InitiateDevice(p)
    PROVE  \A x \in Sides : AgreeOf(x)'
<1> DEFINE q == Other(p)
<1>1. /\ q \in Sides /\ q # p /\ Other(q) = p /\ \A x \in Sides : x = p \/ x = q
      /\ AgreeTypes /\ DgTypes /\ DgTypes' /\ AgreeOf(p) /\ AgreeOf(q)
  BY OtherSide, Zenon DEF AgreeInv, AgreeTypes
<1>2. CASE ~dgUp
  <2>1. \A x \in Sides : ~dgSpoke'[x] /\ ~dgTold'[x]
    BY <1>2, Zenon DEF InitiateDevice, AgreeInv, AgreeTypes
  <2> QED BY <2>1, NewLinkAgrees, Zenon
<1>3. CASE dgUp
  <2>1. /\ dgWire' = Wire(p, 0, <<pair_request(dgNow)>>)
        /\ ~dgPaired[p] /\ dgPaired' = dgPaired /\ dgSpoke' = dgSpoke
        /\ dgTold' = dgTold /\ dgNow' = dgNow
    BY <1>3, Zenon DEF InitiateDevice
  <2>2. /\ dgWire'[p] = dgWire[p] /\ dgWire'[q] = dgWire[q] \o <<pair_request(dgNow)>>
        /\ dgWire[q] \in Seq(DgPackets) /\ pair_request(dgNow) \in DgPackets
        /\ pair_request(dgNow).kind = "pair"
    BY <1>1, <2>1, OneSent, PacketKinds, Zenon
  <2>4. /\ \A k : UnderWay(dgWire[q], k) => UnderWay(dgWire'[q], k)
        /\ UnderWay(dgWire'[q], "pair")
    BY <2>2, AfterSending, Zenon
  <2>5. AgreeOf(p)'
    BY <1>1, <2>1, <2>4, Zenon DEF AgreeOf, SpokeLast, ToldInVain, WillHear
  <2>6. has_outgoing(q)' => has_outgoing(q)
    <3>1. dgOut'[q] = dgOut[q]
      BY <1>1, Zenon DEF InitiateDevice, DgTypes
    <3> QED BY <1>1, <2>1, <3>1, RequestAges, Zenon
  <2>7. AgreeOf(q)'
    <3>1. SpokeLast(q)'
      BY <1>1, <2>1, <2>2, Zenon DEF AgreeOf, SpokeLast
    <3>2. ToldInVain(q)'
      BY <1>1, <2>1, <2>2, <2>4, <2>6, Zenon DEF AgreeOf, ToldInVain
    <3>3. WillHear(q)'
      BY <1>1, <2>1, <2>2, <2>4, Zenon DEF AgreeOf, WillHear
    <3> QED BY <3>1, <3>2, <3>3, Zenon DEF AgreeOf
  <2> QED BY <1>1, <2>5, <2>7, Zenon
<1> QED BY <1>2, <1>3, Zenon

\* The loop reads pair:true: it is an answer, or a request of a device that may have
\* been paired; in both cases unpair_notified ends.
LEMMA PairReadAgrees ==
    ASSUME AgreeInv, AgreeTypes', NEW p \in Sides, LoopAccepted(p) \/ LoopRequested(p)
    PROVE  \A x \in Sides : AgreeOf(x)'
<1> DEFINE q == Other(p)
<1>1. /\ q \in Sides /\ q # p /\ Other(q) = p /\ \A x \in Sides : x = p \/ x = q
      /\ AgreeTypes /\ DgTypes /\ DgTypes' /\ AgreeOf(p) /\ AgreeOf(q)
  BY OtherSide, Zenon DEF AgreeInv, AgreeTypes
<1>2. /\ Reads(p, "pair") /\ dgWire' = Wire(p, 1, <<>>)
      /\ dgTold' = [dgTold EXCEPT ![p] = FALSE] /\ dgNow' = dgNow
  BY Zenon DEF LoopAccepted, LoopRequested
<1>3. /\ dgWire[p] # <<>> /\ dgWire[p] \in Seq(DgPackets) /\ dgWire[p][1].kind = "pair"
      /\ dgWire'[p] = Tail(dgWire[p]) /\ dgWire'[q] = dgWire[q]
  BY <1>1, <1>2, OneRead, PacketKinds, Zenon DEF Reads
<1>4. /\ UnderWay(dgWire[p], "no") => UnderWay(dgWire'[p], "no")
      /\ UnderWay(dgWire[p], "data") => UnderWay(dgWire'[p], "data")
      /\ DataBehind(dgWire[p]) => DataBehind(dgWire'[p]) /\ UnderWay(dgWire'[p], "data")
  BY <1>3, AfterReading, Zenon
<1>5. ~dgTold'[p] /\ dgTold'[q] = dgTold[q]
  BY <1>1, <1>2, Zenon DEF AgreeTypes
<1>6. /\ dgPaired'[q] = dgPaired[q] /\ dgSpoke'[q] = dgSpoke[q] /\ dgOut'[q] = dgOut[q]
      /\ \/ dgPaired'[p] /\ ~dgSpoke'[p] /\ has_outgoing(p)
         \/ ~dgPaired'[p] /\ (has_outgoing(p)' => has_outgoing(p))
         \/ /\ dgPaired'[p] = dgPaired[p] /\ dgSpoke'[p] = dgSpoke[p]
            /\ has_outgoing(p)' => has_outgoing(p)
  <2>1. CASE LoopAccepted(p)
    <3>1. accept_pairing(p) /\ has_outgoing(p)
      BY <2>1, Zenon DEF LoopAccepted, pair_state
    <3> QED BY <1>1, <3>1, Zenon DEF accept_pairing, AgreeTypes, DgTypes
  <2>2. CASE LoopRequested(p)
    <3>1. dgSpoke' = dgSpoke
      BY <2>2, Zenon DEF LoopRequested
    <3>2. CASE pair_timestamp_is_fresh(dgWire[p][1].ts)
      <4>1. /\ dgPaired' = [dgPaired EXCEPT ![p] = FALSE]
            /\ dgOut' = [dgOut EXCEPT ![p] = CleanOut(p)]
        BY <2>2, <3>2, Zenon DEF LoopRequested
      <4>2. dgOut'[p] = dgOut[p] \/ dgOut'[p] = <<>>
        BY <1>1, <4>1, Zenon DEF CleanOut, DgTypes
      <4>3. has_outgoing(p)' => has_outgoing(p)
        BY <1>1, <1>2, <4>2, RequestAges, Zenon
      <4> QED BY <1>1, <3>1, <4>1, <4>3, Zenon DEF AgreeTypes, DgTypes
    <3>3. CASE ~pair_timestamp_is_fresh(dgWire[p][1].ts)
      <4>1. dgPaired' = dgPaired /\ dgOut' = dgOut
        BY <2>2, <3>3, Zenon DEF LoopRequested
      <4>2. has_outgoing(p)' => has_outgoing(p)
        BY <1>1, <1>2, <4>1, RequestAges, Zenon
      <4> QED BY <3>1, <4>1, <4>2, Zenon
    <3> QED BY <3>2, <3>3, Zenon
  <2> QED BY <2>1, <2>2, Zenon
<1>7. has_outgoing(q)' => has_outgoing(q)
  BY <1>1, <1>2, <1>6, RequestAges, Zenon
<1>8. AgreeOf(p)'
  <2>1. SpokeLast(p)'
    BY <1>1, <1>3, <1>6, Zenon DEF AgreeOf, SpokeLast
  <2>2. ToldInVain(p)'
    BY <1>1, <1>3, <1>4, <1>5, <1>6, Zenon DEF AgreeOf, ToldInVain
  <2>3. WillHear(p)'
    BY <1>1, <1>3, <1>4, <1>6, Zenon DEF AgreeOf, WillHear
  <2> QED BY <2>1, <2>2, <2>3, Zenon DEF AgreeOf
<1>9. AgreeOf(q)'
  <2>1. SpokeLast(q)'
    BY <1>1, <1>4, <1>6, Zenon DEF AgreeOf, SpokeLast
  <2>2. ToldInVain(q)'
    BY <1>1, <1>5, Zenon DEF ToldInVain
  <2>3. WillHear(q)'
    BY <1>1, <1>3, <1>4, <1>6, Zenon DEF AgreeOf, WillHear, SpokeLast
  <2> QED BY <2>1, <2>2, <2>3, Zenon DEF AgreeOf
<1> QED BY <1>1, <1>8, <1>9, Zenon

\* The loop reads pair:false: the link ends, unless the side neither is paired nor
\* has a request.
LEMMA RefusedAgrees ==
    ASSUME AgreeInv, AgreeTypes', NEW p \in Sides, LoopRefused(p)
    PROVE  \A x \in Sides : AgreeOf(x)'
<1> DEFINE q == Other(p)
<1>1. /\ q \in Sides /\ q # p /\ Other(q) = p /\ \A x \in Sides : x = p \/ x = q
      /\ AgreeTypes /\ DgTypes /\ DgTypes' /\ AgreeOf(p) /\ AgreeOf(q)
  BY OtherSide, Zenon DEF AgreeInv, AgreeTypes
<1>2. CASE pair_state(p) # "NotPaired"
  <2>1. Down
    BY <1>2, Zenon DEF LoopRefused
  <2>2. \A x \in Sides : ~dgSpoke'[x] /\ ~dgTold'[x]
    BY <2>1, Zenon DEF Down
  <2> QED BY <2>2, NewLinkAgrees, Zenon
<1>3. CASE pair_state(p) = "NotPaired"
  <2>1. /\ Reads(p, "no") /\ dgWire' = Wire(p, 1, <<>>) /\ dgTold' = [dgTold EXCEPT ![p] = FALSE]
        /\ dgPaired' = dgPaired /\ dgSpoke' = dgSpoke /\ dgOut' = dgOut /\ dgNow' = dgNow
    BY <1>3, Zenon DEF LoopRefused
  <2>2. /\ dgWire[p] # <<>> /\ dgWire[p] \in Seq(DgPackets) /\ dgWire[p][1].kind = "no"
        /\ dgWire'[p] = Tail(dgWire[p]) /\ dgWire'[q] = dgWire[q]
    BY <1>1, <2>1, OneRead, PacketKinds, Zenon DEF Reads
  <2>3. /\ UnderWay(dgWire[p], "pair") => UnderWay(dgWire'[p], "pair")
        /\ UnderWay(dgWire[p], "data") => UnderWay(dgWire'[p], "data")
        /\ DataBehind(dgWire[p]) => DataBehind(dgWire'[p])
    BY <2>2, AfterReading, Zenon
  <2>4. ~dgPaired[p] /\ ~has_outgoing(p)
    BY <1>3, Zenon DEF pair_state
  <2>5. (has_outgoing(p)' => has_outgoing(p)) /\ ~dgTold'[p]
    BY <1>1, <2>1, RequestAges, Zenon DEF AgreeTypes
  <2>6. AgreeOf(p)'
    BY <1>1, <2>1, <2>2, <2>4, <2>5, Zenon DEF AgreeOf, SpokeLast, ToldInVain, WillHear
  <2>7. AgreeOf(q)'
    <3>1. SpokeLast(q)'
      BY <1>1, <2>1, <2>3, Zenon DEF AgreeOf, SpokeLast
    <3>2. ToldInVain(q)'
      BY <1>1, <2>5, Zenon DEF ToldInVain
    <3>3. WillHear(q)'
      BY <1>1, <2>1, <2>2, <2>3, Zenon DEF AgreeOf, WillHear
    <3> QED BY <3>1, <3>2, <3>3, Zenon DEF AgreeOf
  <2> QED BY <1>1, <2>6, <2>7, Zenon
<1> QED BY <1>2, <1>3, Zenon

\* The loop reads a plugin's packet: a device that is not paired is told so, unless
\* it was told already.
LEMMA DataReadAgrees ==
    ASSUME AgreeInv, AgreeTypes', NEW p \in Sides, LoopData(p)
    PROVE  \A x \in Sides : AgreeOf(x)'
<1> DEFINE q == Other(p)
<1>1. /\ q \in Sides /\ q # p /\ Other(q) = p /\ \A x \in Sides : x = p \/ x = q
      /\ AgreeTypes /\ DgTypes /\ DgTypes' /\ AgreeOf(p) /\ AgreeOf(q)
  BY OtherSide, Zenon DEF AgreeInv, AgreeTypes
<1>2. /\ Reads(p, "data") /\ dgPaired' = dgPaired /\ dgSpoke' = dgSpoke /\ dgOut' = dgOut
      /\ dgNow' = dgNow
  BY Zenon DEF LoopData
<1>3. /\ dgWire[p] # <<>> /\ dgWire[p] \in Seq(DgPackets) /\ dgWire[p][1].kind = "data"
      /\ dgWire[q] \in Seq(DgPackets) /\ pair_response(FALSE) \in DgPackets
      /\ pair_response(FALSE).kind = "no"
  BY <1>1, <1>2, OneRead, PacketKinds, Zenon DEF Reads
<1>4. /\ dgWire'[p] = Tail(dgWire[p]) /\ dgTold'[q] = dgTold[q]
      /\ \/ (dgPaired[p] \/ dgTold[p]) /\ dgWire'[q] = dgWire[q] /\ dgTold'[p] = dgTold[p]
         \/ ~dgPaired[p] /\ dgWire'[q] = dgWire[q] \o <<pair_response(FALSE)>>
  <2>1. CASE dgPaired[p] \/ dgTold[p]
    <3>1. dgWire' = Wire(p, 1, <<>>) /\ dgTold' = dgTold
      BY <2>1, Zenon DEF LoopData
    <3> QED BY <1>1, <1>3, <2>1, <3>1, OneRead, Zenon
  <2>2. CASE ~(dgPaired[p] \/ dgTold[p])
    <3>1. /\ dgWire' = Wire(p, 1, <<pair_response(FALSE)>>)
          /\ dgTold' = [dgTold EXCEPT ![p] = TRUE]
      BY <2>2, Zenon DEF LoopData
    <3> QED BY <1>1, <1>3, <2>2, <3>1, OneRead, Zenon DEF AgreeTypes
  <2> QED BY <2>1, <2>2, Zenon
<1>5. /\ UnderWay(dgWire[p], "no") => UnderWay(dgWire'[p], "no")
      /\ UnderWay(dgWire[p], "pair") => UnderWay(dgWire'[p], "pair")
      /\ DataBehind(dgWire[p]) => DataBehind(dgWire'[p])
  BY <1>3, <1>4, AfterReading, Zenon
<1>6. /\ \A k : UnderWay(dgWire[q], k) => UnderWay(dgWire'[q], k)
      /\ DataBehind(dgWire[q]) => DataBehind(dgWire'[q])
      /\ UnderWay(dgWire'[q], "no") \/ dgWire'[q] = dgWire[q]
  <2>1. CASE dgWire'[q] = dgWire[q]
    BY <2>1, Zenon
  <2>2. CASE dgWire'[q] = dgWire[q] \o <<pair_response(FALSE)>>
    <3>1. "no" # "pair"
      OBVIOUS
    <3> QED BY <1>3, <2>2, <3>1, AfterSending, Zenon
  <2> QED BY <1>4, <2>1, <2>2, Zenon
<1>7. (has_outgoing(p)' => has_outgoing(p)) /\ (has_outgoing(q)' => has_outgoing(q))
  BY <1>1, <1>2, RequestAges, Zenon
<1>8. AgreeOf(p)'
  <2>1. SpokeLast(p)'
    BY <1>1, <1>2, <1>6, Zenon DEF AgreeOf, SpokeLast
  <2>2. ToldInVain(p)'
    BY <1>1, <1>2, <1>4, <1>5, <1>6, <1>7, Zenon DEF AgreeOf, ToldInVain
  <2>3. WillHear(p)'
    BY <1>1, <1>2, <1>5, <1>6, Zenon DEF AgreeOf, WillHear
  <2> QED BY <2>1, <2>2, <2>3, Zenon DEF AgreeOf
<1>9. AgreeOf(q)'
  <2>1. SpokeLast(q)'
    BY <1>1, <1>2, <1>5, Zenon DEF AgreeOf, SpokeLast
  <2>2. ToldInVain(q)'
    <3>1. CASE UnderWay(dgWire'[q], "no")
      BY <3>1, Zenon DEF ToldInVain
    <3>2. CASE dgTold'[p] = dgTold[p]
      BY <1>1, <1>2, <1>5, <1>6, <1>7, <3>2, Zenon DEF AgreeOf, ToldInVain
    <3> QED BY <1>3, <1>4, <3>1, <3>2, AfterSending, Zenon
  <2>3. WillHear(q)'
    <3> SUFFICES ASSUME dgPaired[q], dgSpoke[q], ~dgPaired[p]
                 PROVE  UnderWay(dgWire'[q], "no") \/ UnderWay(dgWire'[p], "data")
      BY <1>1, <1>2, Zenon DEF WillHear
    <3>1. CASE dgTold[p]
      <4>1. UnderWay(dgWire[q], "no") \/ UnderWay(dgWire[p], "pair")
        BY <1>1, <3>1, Zenon DEF AgreeOf, ToldInVain
      <4>2. ASSUME UnderWay(dgWire[p], "pair") PROVE UnderWay(dgWire'[p], "data")
        <5>1. DataBehind(dgWire'[p]) /\ UnderWay(dgWire'[p], "pair")
          BY <1>1, <1>5, <4>2, Zenon DEF AgreeOf, SpokeLast
        <5> QED BY <1>1, <5>1, BehindAPair, Zenon DEF DgTypes
      <4> QED BY <1>6, <4>1, <4>2, Zenon
    <3>2. CASE ~dgTold[p]
      BY <1>3, <1>4, <3>2, AfterSending, Zenon
    <3> QED BY <3>1, <3>2, Zenon
  <2> QED BY <2>1, <2>2, <2>3, Zenon DEF AgreeOf
<1> QED BY <1>1, <1>8, <1>9, Zenon

\* The plugins of a side speak.
LEMMA SpeakAgrees ==
    ASSUME AgreeInv, AgreeTypes', NEW p \in Sides, PluginInit(p)
    PROVE  \A x \in Sides : AgreeOf(x)'
<1> DEFINE q == Other(p)
           d == Packet("data", 0, FALSE)
<1>1. /\ q \in Sides /\ q # p /\ Other(q) = p /\ \A x \in Sides : x = p \/ x = q
      /\ AgreeTypes /\ DgTypes /\ DgTypes' /\ AgreeOf(p) /\ AgreeOf(q)
  BY OtherSide, Zenon DEF AgreeInv, AgreeTypes
<1>2. /\ dgWire' = Wire(p, 0, <<d>>) /\ dgPaired' = dgPaired /\ dgTold' = dgTold
      /\ dgOut' = dgOut /\ dgNow' = dgNow /\ dgSpoke' = [dgSpoke EXCEPT ![p] = TRUE]
  BY Zenon DEF PluginInit
<1>3. /\ dgWire'[p] = dgWire[p] /\ dgWire'[q] = dgWire[q] \o <<d>>
      /\ dgWire[q] \in Seq(DgPackets) /\ d \in DgPackets /\ d.kind = "data"
  BY <1>1, <1>2, OneSent, PacketKinds, Zenon
<1> HIDE DEF d
<1>4. /\ \A k : UnderWay(dgWire[q], k) => UnderWay(dgWire'[q], k)
      /\ UnderWay(dgWire'[q], "data") /\ DataBehind(dgWire'[q])
  BY <1>3, AfterSending, Zenon
<1>5. (has_outgoing(p)' => has_outgoing(p)) /\ (has_outgoing(q)' => has_outgoing(q))
  BY <1>1, <1>2, RequestAges, Zenon
<1>6. dgSpoke'[q] = dgSpoke[q]
  BY <1>1, <1>2, Zenon DEF AgreeTypes
<1>7. AgreeOf(p)'
  <2>1. ToldInVain(p)'
    BY <1>1, <1>2, <1>3, <1>4, <1>5, Zenon DEF AgreeOf, ToldInVain
  <2> QED BY <1>4, <2>1, Zenon DEF AgreeOf, SpokeLast, WillHear
<1>8. AgreeOf(q)'
  <2>1. SpokeLast(q)'
    BY <1>1, <1>2, <1>3, <1>6, Zenon DEF AgreeOf, SpokeLast
  <2>2. ToldInVain(q)'
    BY <1>1, <1>2, <1>3, <1>4, <1>5, Zenon DEF AgreeOf, ToldInVain
  <2>3. WillHear(q)'
    BY <1>1, <1>2, <1>3, <1>4, <1>6, Zenon DEF AgreeOf, WillHear
  <2> QED BY <2>1, <2>2, <2>3, Zenon DEF AgreeOf
<1> QED BY <1>1, <1>7, <1>8, Zenon

\* Every step of the two sides and of the link keeps what is said of both.
LEMMA AgreeStep ==
    ASSUME AgreeInv, [DgNext]_dgVars
    PROVE  AgreeInv'
<1>1. AgreeTypes /\ AgreeTypes' /\ DgTypes /\ DgTypes'
  BY AgreeTypesStep, Zenon DEF AgreeInv, AgreeTypes
<1>2. CASE DgConnect
  <2>1. \A x \in Sides : ~dgSpoke'[x] /\ ~dgTold'[x]
    BY <1>1, <1>2, Zenon DEF DgConnect, AgreeTypes
  <2> QED BY <1>1, <2>1, NewLinkAgrees, Zenon DEF AgreeInv
<1>3. CASE DgLose \/ \E p \in Sides : UnpairDevice(p)
  <2>1. Down
    BY <1>3, Zenon DEF DgLose, UnpairDevice
  <2>2. \A x \in Sides : ~dgSpoke'[x] /\ ~dgTold'[x]
    BY <2>1, Zenon DEF Down
  <2> QED BY <1>1, <2>2, NewLinkAgrees, Zenon DEF AgreeInv
<1>4. CASE DgTick \/ UNCHANGED dgVars
  <2>1. /\ dgWire' = dgWire /\ dgPaired' = dgPaired /\ dgSpoke' = dgSpoke /\ dgTold' = dgTold
        /\ dgOut' = dgOut /\ dgNow' \in {dgNow, dgNow + 1}
    BY <1>4, Zenon DEF DgTick, dgVars
  <2>2. ASSUME NEW x \in Sides PROVE AgreeOf(x)'
    <3>1. has_outgoing(x)' => has_outgoing(x)
      BY <1>1, <2>1, RequestAges, Zenon
    <3>2. AgreeOf(x)
      BY Zenon DEF AgreeInv
    <3> QED BY <2>1, <3>1, <3>2, SameAgrees, Zenon
  <2> QED BY <1>1, <2>2, Zenon DEF AgreeInv
<1>5. ASSUME NEW p \in Sides,
             AcceptDevice(p) \/ InitiateDevice(p) \/ LoopAccepted(p) \/ LoopRequested(p)
                \/ LoopRefused(p) \/ LoopData(p) \/ PluginInit(p)
      PROVE  AgreeInv'
  <2>1. \A x \in Sides : AgreeOf(x)'
    BY <1>1, <1>5, AcceptAgrees, InitiateAgrees, PairReadAgrees, RefusedAgrees, DataReadAgrees,
       SpeakAgrees, Zenon
  <2> QED BY <1>1, <2>1, Zenon DEF AgreeInv
<1> QED BY <1>2, <1>3, <1>4, <1>5, Zenon DEF DgNext

\* Whatever was lost, crossed or came late: once nothing is under way and every paired
\* side has sent a plugin's packet, connection_loop.rs has unpaired whoever was paired
\* alone.
THEOREM BothOrNeither == DgSpec => []SidesAgree
<1>1. DgInit => AgreeInv
  <2> SUFFICES ASSUME DgInit PROVE AgreeInv
    BY Zenon
  <2>1. DgTypes
    BY DEF DgInit, DgTypes, NoWire, Pending
  <2>2. AgreeTypes /\ \A p \in Sides : ~dgSpoke[p] /\ ~dgTold[p]
    BY <2>1, Zenon DEF DgInit, AgreeTypes, NoWire
  <2> QED BY <2>2, OtherSide, Zenon DEF AgreeInv, AgreeOf, SpokeLast, ToldInVain, WillHear
<1>2. AgreeInv /\ [DgNext]_dgVars => AgreeInv'
  BY AgreeStep, Zenon
<1>3. AgreeInv => SidesAgree
  <2> SUFFICES ASSUME AgreeInv, dgWire = NoWire, \A p \in Sides : dgPaired[p] => dgSpoke[p]
               PROVE  dgPaired[1] = dgPaired[2]
    BY Zenon DEF SidesAgree
  <2>1. \A p \in Sides : \A k : ~UnderWay(dgWire[p], k)
    BY DEF UnderWay, NoWire
  <2>2. \A p \in Sides : dgPaired[p] => dgPaired[Other(p)]
    BY <2>1, OtherSide, Zenon DEF AgreeInv, AgreeOf, WillHear
  <2>3. 1 \in Sides /\ 2 \in Sides /\ Other(1) = 2 /\ Other(2) = 1
    BY DEF Sides, Other
  <2>4. dgPaired[1] \in BOOLEAN /\ dgPaired[2] \in BOOLEAN
    BY <2>3, Zenon DEF AgreeInv, AgreeTypes
  <2>5. dgPaired[1] <=> dgPaired[2]
    BY <2>2, <2>3, Zenon
  <2> QED BY <2>4, <2>5, Zenon
<1> QED BY <1>1, <1>2, <1>3, PTL DEF DgSpec

-----------------------------------------------------------------------------
(* Captured input on its way to a peer (shareinputdevices/ei.rs, mod.rs).  *)

IgEvents == [cycle : Nat \ {0}, n : Nat, kind : IgKinds \cup {"start"}]

\* A request is on its way to a peer, has gone out, or met none.
IgAnnounced ==
    \/ igMissed # {} \/ igActivated # <<>>
    \/ \E j \in 1..Len(igOut) : igOut[j].kind = "request"

IsSeq(s) == s \in Seq({s[i] : i \in DOMAIN s})

IgTypes ==
    /\ igEi \in Seq(IgEvents) /\ igBus \in Seq(Nat) /\ igCycle \in Nat /\ igItem \in Nat
    /\ igSeq \in Nat /\ igAct \in Nat /\ igSlot \in BOOLEAN /\ igDeferred \in Nat
    /\ igPc \in [IgCallers -> {"wait", "slot", "populate", "drain", "replay", "start", "flush", "run"}]
    /\ igId \in [IgCallers -> Nat] /\ DOMAIN igReplay = IgCallers
    /\ IsSeq(igOut)

\* Whatever lets input pass the gate follows an announcement: an id that was deferred,
\* carried or set, and what is on the wire or about to be.  Before the pump runs
\* nothing is held or sent; before the first start the stream holds no input.
GateInv ==
    /\ IgTypes
    /\ igAct # 0 \/ igDeferred # 0 \/ igPc["signal"] # "wait" \/ igPc["setup"] \in {"drain", "replay"}
          \/ igHand # <<>> \/ igWire # <<>> \/ (\E c \in IgCallers : igReplay[c] # <<>>) => IgAnnounced
    /\ igPc["setup"] # "run" =>
          /\ igPending = <<>> /\ igHand = <<>> /\ igWire = <<>>
          /\ \A c \in IgCallers : igReplay[c] = <<>>
    /\ igSlot <=> igPc["setup"] # "populate"
    /\ igPc["setup"] # "populate" => igDeferred = 0
    /\ igSeq = 0 => (igCycle = 0 /\ igEi = <<>>) \/ (igEi # <<>> /\ Head(igEi).kind = "start")
    /\ RequestFirst

\* Nothing held is nothing planned.
LEMMA PlanNothing == IgPlanAll(<<>>) = <<>>
<1> DEFINE Goes(f) == f = [i \in 0..Len(<<>>) |-> IF i = 0 THEN <<>> ELSE f[i - 1] \o IgPlan(<<>>[i])]
           g == [i \in 0..0 |-> <<>>]
           h == CHOOSE f : Goes(f)
<1>1. Len(<<>>) = 0 /\ \A i \in 0..0 : i = 0
  OBVIOUS
<1>2. Goes(g)
  BY <1>1, Zenon
<1>3. Goes(h)
  BY <1>2, Zenon
<1>4. 0 \in 0..Len(<<>>)
  BY <1>1
<1>5. h[0] = <<>>
  <2> HIDE DEF h
  <2> QED BY <1>3, <1>4, Zenon
<1>6. IgPlanAll(<<>>) = h[Len(<<>>)]
  BY Zenon DEF IgPlanAll
<1> QED BY <1>1, <1>5, <1>6, Zenon

\* A queue of the stream with one more element at its end.
LEMMA OneMore ==
    ASSUME NEW s, IsSeq(s), NEW e
    PROVE  /\ IsSeq(Append(s, e)) /\ Len(s) \in Nat /\ Len(Append(s, e)) = Len(s) + 1
           /\ \A i \in 1..Len(s) : Append(s, e)[i] = s[i]
           /\ Append(s, e)[Len(s) + 1] = e
<1> DEFINE R == {s[i] : i \in DOMAIN s} \cup {e}
           t == Append(s, e)
<1>1. s \in Seq(R) /\ e \in R
  BY DEF IsSeq
<1> HIDE DEF R
<1>2. /\ t \in Seq(R) /\ Len(s) \in Nat /\ Len(t) = Len(s) + 1 /\ DOMAIN t = 1..Len(s) + 1
      /\ \A i \in 1..Len(s) : t[i] = s[i]
      /\ t[Len(s) + 1] = e
  BY <1>1
<1> HIDE DEF t
<1>3. IsSeq(t)
  <2>1. t = [i \in 1..Len(s) + 1 |-> t[i]] /\ Len(s) + 1 \in Nat
    BY <1>2
  <2> QED BY <1>2, <2>1 DEF IsSeq
<1> QED BY <1>2, <1>3, Zenon DEF t

\* Input and requests pile up at the compositor.
LEMMA SourceStep ==
    ASSUME GateInv, IgCross \/ \E k \in IgKinds : IgInput(k)
    PROVE  GateInv'
<1>1. PICK e \in IgEvents : /\ igEi' = Append(igEi, e) /\ igBus' \in Seq(Nat)
                            /\ igCycle' \in Nat \ {0} /\ igItem' \in Nat
                            /\ igCycle # 0 \/ e.kind = "start"
  <2>1. CASE IgCross
    <3> DEFINE e == [cycle |-> igCycle + 1, n |-> 0, kind |-> "start"]
    <3>1. e \in IgEvents /\ e.kind = "start" /\ igCycle + 1 \in Nat \ {0}
      BY DEF GateInv, IgTypes, IgEvents
    <3>2. Append(igBus, igCycle + 1) \in Seq(Nat)
      BY SMTT(30) DEF GateInv, IgTypes
    <3>3. igEi' = Append(igEi, e) /\ igBus' \in Seq(Nat) /\ igCycle' = igCycle + 1 /\ igItem' \in Nat
      BY <2>1, <3>2, Zenon DEF GateInv, IgTypes, IgCross
    <3> HIDE DEF e
    <3> QED BY <3>1, <3>3, Zenon
  <2>2. CASE \E k \in IgKinds : IgInput(k)
    <3>0. PICK k \in IgKinds : IgInput(k)
      BY <2>2, Zenon
    <3>1. [cycle |-> igCycle, n |-> igItem + 1, kind |-> k] \in IgEvents
      BY <3>0 DEF GateInv, IgTypes, IgEvents, IgInput
    <3> QED BY <3>0, <3>1 DEF GateInv, IgTypes, IgInput
  <2> QED BY <2>1, <2>2, Zenon
<1>2. UNCHANGED <<igGate, igHand, igWiring, igCalls, igSink, igWire>>
  BY Zenon DEF IgCross, IgInput
<1>3. /\ igEi' \in Seq(IgEvents) /\ igEi' # <<>>
      /\ igEi # <<>> => Head(igEi') = Head(igEi)
      /\ igEi = <<>> => Head(igEi') = e
  BY <1>1 DEF GateInv, IgTypes
<1>4. igSeq = 0 => Head(igEi').kind = "start"
  BY <1>1, <1>3, Zenon DEF GateInv
<1> QED BY <1>1, <1>2, <1>3, <1>4, Zenon
        DEF GateInv, IgTypes, IgAnnounced, RequestFirst, igGate, igWiring, igCalls, igSink

\* The pump lets input pass only when the last Activated is as new as the stream.
LEMMA PumpStep ==
    ASSUME GateInv, IgPumpStart \/ IgPumpItem \/ IgPumpSend
    PROVE  GateInv'
<1>1. CASE IgPumpStart
  <2>1. Head(igEi) \in IgEvents /\ Tail(igEi) \in Seq(IgEvents)
    BY <1>1, SMTT(30) DEF GateInv, IgTypes, IgPumpStart
  <2>2. igSeq' \in Nat \ {0}
    BY <1>1, <2>1, Zenon DEF IgPumpStart, IgEvents
  <2> QED BY <1>1, <2>1, <2>2, Zenon
          DEF GateInv, IgTypes, IgAnnounced, RequestFirst, IgPumpStart, igWiring, igCalls, igSink
<1>2. CASE IgPumpItem
  <2>1. Tail(igEi) \in Seq(IgEvents) /\ igSeq # 0
    BY <1>2, SMTT(30) DEF GateInv, IgTypes, IgPumpItem
  <2>2. igHand' # <<>> => IgAnnounced
    BY <1>2, <2>1 DEF GateInv, IgTypes, IgPumpItem, IgShouldQueue
  <2> QED BY <1>2, <2>1, <2>2, Zenon
          DEF GateInv, IgTypes, IgAnnounced, RequestFirst, IgPumpItem, igWiring, igCalls, igSink
<1>3. CASE IgPumpSend
  <2>1. IgAnnounced /\ igPc["setup"] = "run"
    BY <1>3, Zenon DEF GateInv, IgPumpSend
  <2> QED BY <1>3, <2>1, Zenon
          DEF GateInv, IgTypes, IgAnnounced, RequestFirst, IgPumpSend, igSource, igGate, igWiring, igCalls, igSink
<1> QED BY <1>1, <1>2, <1>3, Zenon

\* The signal handler announces first, and defers only while the slot is empty.
LEMMA SignalStep ==
    ASSUME GateInv, IgSignal \/ IgSlotCheck
    PROVE  GateInv'
<1>0. "signal" \in IgCallers /\ "setup" \in IgCallers
  BY Zenon DEF IgCallers
<1>1. CASE IgSignal
  <2>1. Head(igBus) \in Nat /\ Tail(igBus) \in Seq(Nat)
    BY <1>1, SMTT(30) DEF GateInv, IgTypes, IgSignal
  <2>2. igActivated' # <<>>
    BY <1>1 DEF IgSignal
  <2> QED BY <1>0, <1>1, <2>1, <2>2, ZenonT(30)
          DEF GateInv, IgTypes, IgAnnounced, RequestFirst, IgSignal, igGate, igWiring
<1>2. CASE IgSlotCheck
  <2>1. IgAnnounced /\ igId["signal"] \in Nat
    BY <1>0, <1>2, Zenon DEF GateInv, IgTypes, IgSlotCheck
  <2>2. CASE igSlot
    BY <1>0, <1>2, <2>1, <2>2, Zenon
       DEF GateInv, IgTypes, IgAnnounced, RequestFirst, IgSlotCheck, igSource, igGate, igSink
  <2>3. CASE ~igSlot
    BY <1>0, <1>2, <2>1, <2>3, Zenon
       DEF GateInv, IgTypes, IgAnnounced, RequestFirst, IgSlotCheck, igSource, igGate, igSink
  <2> QED BY <2>2, <2>3, Zenon
<1> QED BY <1>1, <1>2, Zenon

\* The activation takes the deferred id, if there is one, and starts the pump.
LEMMA SetupStep ==
    ASSUME GateInv, IgPopulate \/ IgStart \/ IgFlush
    PROVE  GateInv'
<1>0. "signal" \in IgCallers /\ "setup" \in IgCallers
  BY Zenon DEF IgCallers
<1>1. CASE IgPopulate
  BY <1>0, <1>1, Zenon DEF GateInv, IgTypes, IgAnnounced, RequestFirst, IgPopulate, igSource, igGate, igSink
<1>2. CASE IgStart
  BY <1>0, <1>2, ZenonT(30) DEF GateInv, IgTypes, IgAnnounced, RequestFirst, IgStart, igSource, igGate, igSink
<1>3. CASE IgFlush
  <2>1. igWire' = <<>>
    <3>1. igWire = <<>> /\ IgPlanAll(igPending) = <<>>
      BY <1>3, PlanNothing, Zenon DEF GateInv, IgFlush
    <3>2. <<>> \o <<>> = <<>>
      OBVIOUS
    <3> QED BY <1>3, <3>1, <3>2, Zenon DEF IgFlush
  <2> QED BY <1>0, <1>3, <2>1, ZenonT(30)
          DEF GateInv, IgTypes, IgAnnounced, RequestFirst, IgFlush, igSource, igWiring, igSink
<1> QED BY <1>1, <1>2, <1>3, Zenon

\* Both of them replay after they were announced.
LEMMA ReplayStep ==
    ASSUME GateInv, NEW c \in IgCallers, IgDrain(c) \/ IgReplayOne(c) \/ IgReplayed(c)
    PROVE  GateInv'
<1>0. "signal" \in IgCallers /\ "setup" \in IgCallers /\ c \in {"signal", "setup"}
  BY Zenon DEF IgCallers
<1>1. CASE IgDrain(c)
  <2>1. IgAnnounced /\ igId[c] \in Nat
    BY <1>0, <1>1, Zenon DEF GateInv, IgTypes, IgDrain
  <2>2. DOMAIN igReplay' = IgCallers
        /\ (igPc["setup"] # "run" => igPending' = <<>> /\ \A o \in IgCallers : igReplay'[o] = <<>>)
    BY <1>1, PlanNothing, Zenon DEF GateInv, IgTypes, IgDrain
  <2> QED BY <1>0, <1>1, <2>1, <2>2, ZenonT(30)
          DEF GateInv, IgTypes, IgAnnounced, RequestFirst, IgDrain, igSource, igWiring, igSink
<1>2. CASE IgReplayOne(c)
  <2>1. IgAnnounced /\ igPc["setup"] = "run"
    BY <1>2, Zenon DEF GateInv, IgReplayOne
  <2> QED BY <1>0, <1>2, <2>1, ZenonT(30)
          DEF GateInv, IgTypes, IgAnnounced, RequestFirst, IgReplayOne, igSource, igGate, igWiring, igSink
<1>3. CASE IgReplayed(c)
  BY <1>0, <1>3, ZenonT(30) DEF GateInv, IgTypes, IgAnnounced, RequestFirst, IgReplayed, igSource, igGate, igWiring, igSink
<1> QED BY <1>1, <1>2, <1>3, Zenon

\* The consumer takes requests first, so that a body follows one that went out.
LEMMA RelayStep ==
    ASSUME GateInv, IgRelayRequest \/ IgRelayBody
    PROVE  GateInv'
<1>1. CASE IgRelayRequest
  <2>1. CASE igMissed' # {} /\ igOut' = igOut
    BY <1>1, <2>1, ZenonT(30) DEF GateInv, IgTypes, IgAnnounced, RequestFirst, IgRelayRequest, igSource, igGate, igWiring, igCalls
  <2>2. CASE igOut' = Append(igOut, [cycle |-> Head(igActivated), n |-> 0, kind |-> "request"]) /\ igMissed' = igMissed
    <3> DEFINE e == [cycle |-> Head(igActivated), n |-> 0, kind |-> "request"]
    <3>1. igOut' = Append(igOut, e) /\ e.kind = "request"
      BY <2>2, Zenon
    <3> HIDE DEF e
    <3>2. /\ IsSeq(igOut') /\ Len(igOut) \in Nat /\ Len(igOut') = Len(igOut) + 1
          /\ \A i \in 1..Len(igOut) : igOut'[i] = igOut[i]
          /\ igOut'[Len(igOut) + 1].kind = "request"
      BY <3>1, OneMore, SMTT(30) DEF GateInv, IgTypes
    <3>3. RequestFirst' /\ IgAnnounced'
      BY <2>2, <3>2, SMTT(30) DEF GateInv, RequestFirst, IgAnnounced
    <3> QED BY <1>1, <2>2, <3>2, <3>3, Zenon DEF GateInv, IgTypes, IgRelayRequest, igSource, igGate, igWiring, igCalls
  <2> QED BY <1>1, <2>1, <2>2, Zenon DEF IgRelayRequest
<1>2. CASE IgRelayBody
  <2>1. IgAnnounced /\ igPc["setup"] = "run" /\ igActivated = <<>> /\ UNCHANGED <<igActivated, igMissed>>
    BY <1>2, ZenonT(30) DEF GateInv, IgRelayBody, IgWireTurn
  <2>2. IsSeq(igOut') /\ RequestFirst' /\ IgAnnounced'
    <3>1. CASE igOut' = igOut
      BY <2>1, <3>1, ZenonT(30) DEF GateInv, IgTypes, IgAnnounced, RequestFirst
    <3>2. CASE igOut' = Append(igOut, Head(igWire))
      <4>1. /\ IsSeq(igOut') /\ Len(igOut) \in Nat /\ Len(igOut') = Len(igOut) + 1
            /\ \A i \in 1..Len(igOut) : igOut'[i] = igOut[i]
        BY <3>2, OneMore, SMTT(30) DEF GateInv, IgTypes
      <4>2. igMissed # {} \/ \E j \in 1..Len(igOut) : igOut[j].kind = "request"
        BY <2>1, Zenon DEF IgAnnounced
      <4> QED BY <2>1, <4>1, <4>2, SMTT(30) DEF GateInv, IgAnnounced, RequestFirst
    <3> QED BY <1>2, <3>1, <3>2, Zenon DEF IgRelayBody
  <2> QED BY <1>2, <2>1, <2>2, ZenonT(30) DEF GateInv, IgTypes, IgRelayBody, igSource, igGate, igWiring, igCalls
<1> QED BY <1>1, <1>2, Zenon

\* Every step of the compositor, the handlers, the pump and the consumer keeps it.
LEMMA GateStep ==
    ASSUME GateInv, [IgNext]_igVars
    PROVE  GateInv'
<1>1. CASE UNCHANGED igVars
  BY <1>1, ZenonT(30) DEF igVars, GateInv, IgTypes, IgAnnounced, RequestFirst
<1> QED BY <1>1, SourceStep, PumpStep, SignalStep, SetupStep, ReplayStep, RelayStep, Zenon DEF IgNext

\* It holds before anything has been captured.
LEMMA GateInit == IgInit => GateInv
<1> SUFFICES ASSUME IgInit PROVE GateInv
  BY Zenon
<1>1. IsSeq(<<>>)
  BY DEF IsSeq
<1>2. Len(<<>>) = 0 /\ <<>> \in Seq(IgEvents) /\ <<>> \in Seq(Nat)
  OBVIOUS
<1>3. IgTypes
  BY <1>1, <1>2, ZenonT(30) DEF IgInit, IgTypes, IgCallers
<1>4. RequestFirst
  BY <1>2 DEF IgInit, RequestFirst
<1> QED BY <1>3, <1>4, Zenon DEF IgInit, GateInv, IgCallers

\* Input follows the request that announces it (ei.rs, portal.rs, the wire consumer):
\* for any number of crossings, any input and any speed of the two channels.
THEOREM InputIsAnnounced == IgSpec => []RequestFirst
<1>1. GateInv => RequestFirst
  BY Zenon DEF GateInv
<1> QED BY <1>1, GateInit, GateStep, PTL DEF IgSpec

\* An Activated that came early is replayed (populate_ei_receiver).
THEOREM EarlyIsReplayed == IgSpec => []DeferredIsReplayed
<1>1. GateInv => DeferredIsReplayed
  BY Zenon DEF GateInv, DeferredIsReplayed
<1> QED BY <1>1, GateInit, GateStep, PTL DEF IgSpec

\* Captured input follows the request that announces it, and an early activation is
\* replayed, however the signal handler, the pump and the consumer interleave.
THEOREM GateIsInOrder == IgSpec => []GateInOrder
  BY InputIsAnnounced, EarlyIsReplayed, PTL DEF GateInOrder
=============================================================================
