----------------------------- MODULE LineReader -----------------------------
(***************************************************************************)
(* The read side of a link: read_steady_line splits the TLS byte stream    *)
(* into lines, recv_packet_inner runs it under a 30 second timeout and     *)
(* turns lines into packets.                                               *)
(*                                                                         *)
(* A line is its length in bytes, the delimiter included; what matters is  *)
(* where the chunks that fill_buf returns fall.  Every peer line is a      *)
(* packet, or blank when it is only a delimiter, so a line the reader      *)
(* assembled is a packet exactly when it starts where a peer line starts.  *)
(***************************************************************************)
EXTENDS Naturals, Sequences

CONSTANTS
    MaxSize,      \* MAX_STEADY_PACKET_SIZE
    Lengths,      \* the lengths of lines a peer sends
    MaxLines      \* bound: lines sent on the link

ASSUME LineReaderAssumption ==
    /\ MaxSize \in Nat \ {0}
    /\ Lengths \subseteq Nat \ {0}

VARIABLES
    sent,        \* the lines of the peer, in order
    closed,      \* the peer has closed its side, maybe in mid-line
    line, off,   \* the stream position: bytes of line `line` consumed
    from,        \* the offset in that line at which buf starts
    len,         \* buf.len()
    discarding,
    packets,     \* the lines delivered as packets
    link,        \* "open", "closed" (EOF) or "failed" (a read error)
    cuts         \* history: the lines in the middle of which a read timed out

vars == <<sent, closed, line, off, from, len, discarding, packets, link, cuts>>

Init ==
    /\ sent = <<>> /\ closed = FALSE
    /\ line = 1 /\ off = 0 /\ from = 0 /\ len = 0
    /\ discarding = FALSE
    /\ packets = <<>>
    /\ link = "open"
    /\ cuts = {}

PeerSends ==
    /\ ~closed /\ Len(sent) < MaxLines
    /\ \E n \in Lengths : sent' = Append(sent, n)
    /\ UNCHANGED <<closed, line, off, from, len, discarding, packets, link, cuts>>

PeerCloses ==
    /\ ~closed
    /\ closed' = TRUE
    /\ UNCHANGED <<sent, line, off, from, len, discarding, packets, link, cuts>>

\* read_steady_line is called with an empty buf at offset `at` of the stream.
FreshRead(l, at) ==
    /\ line' = l /\ off' = at /\ from' = at
    /\ len' = 0
    /\ discarding' = FALSE

\* Mutant of Skip: the line's last chunk is not consumed.
SkipUnconsumed == FreshRead(line, off) /\ UNCHANGED <<packets, link>>

\* OversizeSkipped, or a line of whitespace: read the next one.
Skip == FreshRead(line + 1, 0) /\ UNCHANGED <<packets, link>>

\* A line with the delimiter in it, n bytes after `off`: a packet when buf
\* holds the whole peer line, blank when only the delimiter is left of it.
Deliver(n) ==
    CASE len + n = 1 -> Skip
      [] len + n > 1 /\ from = 0 ->
            /\ packets' = Append(packets, line)
            /\ FreshRead(line + 1, 0)
            /\ UNCHANGED link
      [] OTHER -> link' = "failed" /\ UNCHANGED <<packets, line, off, from, len, discarding>>

\* The chunk fits into buf.
Extend(n) ==
    IF off + n = sent[line]
    THEN Deliver(n)
    ELSE /\ off' = off + n /\ len' = len + n
         /\ UNCHANGED <<line, from, discarding, packets, link>>

\* Mutant of Discard: the rest of the line is read as a line of its own.
DiscardOnce(n) ==
    IF off + n = sent[line]
    THEN Skip
    ELSE FreshRead(line, off + n) /\ UNCHANGED <<packets, link>>

\* Mutant of Discard: buf is not truncated.
DiscardKeeping(n) ==
    IF off + n = sent[line]
    THEN Skip
    ELSE /\ off' = off + n /\ discarding' = TRUE
         /\ UNCHANGED <<line, from, len, packets, link>>

\* The chunk belongs to a line over the cap.
Discard(n) ==
    IF off + n = sent[line]
    THEN Skip
    ELSE /\ off' = off + n /\ len' = 0
         /\ discarding' = TRUE
         /\ UNCHANGED <<line, from, packets, link>>

\* Mutant of Oversize: a line of exactly the cap is refused.
OversizeAtCap(n) == len + n >= MaxSize

Oversize(n) == len + n > MaxSize

\* fill_buf returns n more bytes of the line, or the rest of it and bytes that
\* stay in the BufReader.
Chunk ==
    /\ link = "open" /\ line <= Len(sent)
    /\ \E n \in 1..(sent[line] - off) :
          IF discarding \/ Oversize(n) THEN Discard(n) ELSE Extend(n)
    /\ UNCHANGED <<sent, closed, cuts>>

\* fill_buf returns nothing: the peer's last line ends here, with or without
\* its delimiter.
EndOfStream ==
    /\ link = "open" /\ closed
    /\ \/ line > Len(sent)
       \/ line = Len(sent) /\ off < sent[line]
    /\ IF len = 0
       THEN link' = "closed" /\ UNCHANGED packets
       ELSE /\ link' = IF from = 0 /\ off = sent[line] - 1 THEN "closed" ELSE "failed"
            /\ packets' = IF from = 0 /\ off = sent[line] - 1
                          THEN Append(packets, line) ELSE packets
    /\ UNCHANGED <<sent, closed, line, off, from, len, discarding, cuts>>

\* The 30 second timeout drops the read with its buf; the packet loop ticks and
\* reads again from where the stream stands.
Timeout ==
    /\ link = "open"
    /\ FreshRead(line, off)
    /\ cuts' = IF off = 0 THEN cuts ELSE cuts \cup {line}
    /\ UNCHANGED <<sent, closed, packets, link>>

Next == PeerSends \/ PeerCloses \/ Chunk \/ EndOfStream \/ Timeout

Spec == Init /\ [][Next]_vars

\* Bytes that were sent arrive, and a pending read is polled.
FairSpec == Spec /\ WF_vars(Chunk) /\ WF_vars(EndOfStream)

(***************************************************************************)
(* Properties.                                                             *)
(***************************************************************************)

\* buf holds exactly the bytes of the current line consumed since the read
\* began, none while a line is being discarded, and never more than the cap: a
\* peer that sends no delimiter cannot make it grow.
BufferExact ==
    /\ line \in 1..(Len(sent) + 1)
    /\ line <= Len(sent) => off < sent[line]
    /\ line > Len(sent) => off = 0
    /\ from <= off
    /\ discarding => len = 0
    /\ ~discarding => len = off - from
    /\ len <= MaxSize

\* The lines the reader owes the packet loop, up to the current one.
Owed == {i \in 1..(line - 1) : 1 < sent[i] /\ sent[i] <= MaxSize /\ i \notin cuts}

\* Wherever the chunks fall and however often an idle read times out: the
\* packets are exactly the non-blank lines up to the cap, each once and in order,
\* save those in whose middle a read timed out; longer and blank lines are
\* skipped.
NothingLost ==
    link = "open" =>
        /\ {packets[k] : k \in 1..Len(packets)} = Owed
        /\ \A j, k \in 1..Len(packets) : j < k => packets[j] < packets[k]

\* A read fails only when the peer closed in mid-line or a timeout cut the
\* line: skipping a long line never leaves a piece of it to be parsed.
LinkSurvives == link = "failed" => closed \/ line \in cuts

\* Every line sent is read, unless the link ends before.
LinesRead == \A i \in 1..MaxLines : Len(sent) >= i ~> line > i \/ link # "open"

\* "The link must survive a peer's oversized packet" (read_steady_line): it is
\* never a piece of an oversized line that fails the link.
OversizeSurvives == link = "failed" => closed \/ sent[line] <= MaxSize
=============================================================================
