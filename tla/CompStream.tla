----------------------------- MODULE CompStream -----------------------------
(***************************************************************************)
(* Streams of one session: wd_do_comp_strm and what the ZIP driver does    *)
(* with an output too small for the device.  Such a request has its output *)
(* made in a buffer of the session and copied from there, a part with each *)
(* call, without the device.  A session runs several streams one after the *)
(* other; the bytes the device makes are numbered from the last reset on.  *)
(***************************************************************************)
EXTENDS Integers, Sequences, FiniteSets

CONSTANTS StoreBuf,   \* STORE_BUF_SIZE
          SmallOut,  \* SW_STOREBUF_TH
          MaxSrc,     \* input of a stream
          MaxDst,     \* room in a request's output
          MaxMade,    \* bytes made between two resets (a bound)
          MaxOut      \* calls stop once the outputs hold more than this (a bound)

ASSUME StreamAssumption ==
         {StoreBuf, SmallOut, MaxSrc, MaxDst, MaxMade, MaxOut} \subseteq Nat

VARIABLES dir,     \* op_type of the session
          pos,     \* stream_pos
          buf,     \* struct hisi_comp_buf: dst, pending_out, output_offset, status
          left,    \* input the stream still has
          made,    \* bytes the device has made so far
          out,     \* what the outputs of all calls hold, in order
          done,    \* the device has made the last byte of the stream
          told,    \* the last call ended the stream (stream_pos is NEW again)
          again,   \* the stream began without a reset of the session
          failed   \* a request failed after its output was placed in the buffer

strmVars == <<dir, pos, buf, left, made, out, done, told, again, failed>>

Fresh == [dst |-> << >>, pending |-> 0, offset |-> 0, status |-> "ok"]
Smaller(a, b) == IF a < b THEN a ELSE b

CInit == /\ dir \in {"compress", "decompress"} /\ pos = "new" /\ buf = Fresh
         /\ left \in 1 .. MaxSrc /\ made = 0 /\ out = << >>
         /\ done = FALSE /\ told = FALSE /\ again = FALSE /\ failed = FALSE

\* The part of the buffer from where the last copy ended.
copy_to_out(b, total, d) ==
  LET n == Smaller(total, d) IN SubSeq(b.dst, b.offset + 1, b.offset + n)

\* The end of a stream, as the session sees it: compression when the last input
\* is consumed, decompression when the driver says so.
end_check(last, src, consumed, status) ==
  IF dir = "compress" THEN last /\ consumed = src ELSE status = "end"
AtEnd(is) == told' = is /\ pos' = IF is THEN "new" ELSE "old"

-----------------------------------------------------------------------------
\* Mutant of check_store_buf: the copy is not counted in the offset.
copies_from_start(src, last, d) ==
  LET copy == copy_to_out(buf, buf.pending, d)
      b == [buf EXCEPT !.pending = @ - Len(copy)]
      status == IF b.pending = 0 /\ b.status = "end" THEN "end" ELSE "ok"
  IN /\ buf.pending > 0
     /\ buf' = IF b.pending = 0 THEN [Fresh EXCEPT !.status = b.status] ELSE b
     /\ out' = out \o copy
     /\ AtEnd(end_check(last, src, 0, status))
     /\ UNCHANGED <<dir, left, made, done, again, failed>>

\* A call that finds bytes in the buffer copies what the output has room for and
\* leaves the device alone; its input stays.
check_store_buf(src, last, d) ==
  LET copy == copy_to_out(buf, buf.pending, d)
      b == [dst |-> buf.dst, pending |-> buf.pending - Len(copy),
            offset |-> buf.offset + Len(copy), status |-> buf.status]
      status == IF b.pending = 0 /\ b.status = "end" THEN "end" ELSE "ok"
  IN /\ buf.pending > 0
     /\ buf' = IF b.pending = 0 THEN [Fresh EXCEPT !.status = b.status] ELSE b
     /\ out' = out \o copy
     /\ AtEnd(end_check(last, src, 0, status))
     /\ UNCHANGED <<dir, left, made, done, again, failed>>

\* The device works on an input of at most what fits the output; a shorter input
\* is not the last of its stream.  A small output is made in the buffer.
InStore(d) == d <= SmallOut
Room(d) == IF InStore(d) THEN StoreBuf ELSE d
Worked(src, last, d, c, p, fin) ==
  IF dir = "compress" THEN /\ c = Smaller(src, Room(d)) /\ p \in 0 .. Room(d)
                           /\ fin = (last /\ c = src)
                      ELSE c \in 0 .. src /\ p \in 0 .. Room(d) /\ (fin => c = left)

\* Mutant of copy_from_hw: the end of the stream is reported with the first part.
end_at_once(made2, d, fin) ==
  LET b == [buf EXCEPT !.dst = made2]
      copy == copy_to_out(b, Len(made2), d)
      rest == Len(made2) - Len(copy)
  IN [buf |-> IF rest = 0 THEN [Fresh EXCEPT !.status = buf.status]
              ELSE [b EXCEPT !.pending = rest, !.offset = @ + Len(copy)],
      copy |-> copy, status |-> IF fin THEN "end" ELSE "ok"]

\* The answer to a request made in the buffer: the output takes its part, and
\* with bytes left the end flag waits in the buffer.
copy_from_hw(made2, d, fin) ==
  LET b == [buf EXCEPT !.dst = made2]
      copy == copy_to_out(b, Len(made2), d)
      rest == Len(made2) - Len(copy)
  IN [buf |-> IF rest = 0 THEN [Fresh EXCEPT !.status = buf.status]
              ELSE [dst |-> made2, pending |-> rest, offset |-> buf.offset + Len(copy),
                    status |-> IF fin THEN "end" ELSE buf.status],
      copy |-> copy, status |-> IF fin /\ rest = 0 THEN "end" ELSE "ok"]

Bytes(p) == [i \in 1 .. p |-> made + i]

\* What an answer of p bytes gives: through the buffer, or straight to the output.
Answer(p, fin, d) ==
  IF InStore(d) THEN copy_from_hw(Bytes(p), d, fin /\ dir = "decompress")
  ELSE [buf |-> buf, copy |-> Bytes(p), status |-> IF fin THEN "end" ELSE "ok"]

Device(src, last, d) ==
  /\ buf.pending = 0
  /\ \E c \in 0 .. src, p \in 0 .. Room(d), fin \in BOOLEAN :
       /\ Worked(src, last, d, c, p, fin) /\ made + p <= MaxMade
       /\ buf' = Answer(p, fin, d).buf /\ out' = out \o Answer(p, fin, d).copy
       /\ made' = made + p /\ left' = left - c /\ done' = (done \/ fin)
       /\ AtEnd(end_check(last, src, c, Answer(p, fin, d).status))
  /\ UNCHANGED <<dir, again, failed>>

\* A request that fails once its output is placed in the buffer (a full queue, an
\* error of the device, no answer in time) leaves the buffer marked full of what
\* the device never made (zeros here); an answer with an error moves stream_pos too.
Broken(d) ==
  /\ buf.pending = 0 /\ InStore(d)
  /\ buf' = [buf EXCEPT !.pending = StoreBuf, !.dst = [i \in 1 .. StoreBuf |-> 0]]
  /\ failed' = TRUE /\ told' = FALSE /\ pos' \in {pos, "old"}
  /\ UNCHANGED <<dir, left, made, out, done, again>>

StoredBlock == -1

\* No input left to compress: the front end writes the last block itself.
append_store_block ==
  /\ dir = "compress" /\ left = 0
  /\ out' = Append(out, StoredBlock) /\ told' = TRUE /\ pos' = "new"
  /\ UNCHANGED <<dir, buf, left, made, done, again, failed>>

wd_do_comp_strm ==
  /\ ~told /\ Len(out) <= MaxOut
  /\ \/ \E src \in 0 .. left, d \in 1 .. MaxDst, last \in BOOLEAN :
          /\ last => src = left
          /\ ~(dir = "compress" /\ last /\ src = 0)
          /\ \/ check_store_buf(src, last, d)
             \/ Device(src, last, d)
             \/ Broken(d)
     \/ append_store_block

\* The application resets the session, at any time: pending bytes and the cached
\* flag go with the old stream.
wd_comp_reset_sess ==
  /\ pos' = "new" /\ buf' = Fresh /\ made' = 0 /\ out' = << >>
  /\ left' \in 1 .. MaxSrc /\ done' = FALSE /\ told' = FALSE
  /\ again' = FALSE /\ failed' = FALSE
  /\ UNCHANGED dir

\* A session serves a second stream once its stream_pos is NEW again, reset or
\* not (wd_do_comp_sync2 does so with every call).
NextStream ==
  /\ told /\ told' = FALSE /\ done' = FALSE /\ again' = TRUE
  /\ left' \in 1 .. MaxSrc
  /\ UNCHANGED <<dir, pos, buf, made, out, failed>>

CNext == wd_do_comp_strm \/ wd_comp_reset_sess \/ NextStream

CSpec == CInit /\ [][CNext]_strmVars

-----------------------------------------------------------------------------
\* How many of the first k entries of an output are bytes the device made.
IsByte(x) == x # StoredBlock
ByteCount(o, k) == Cardinality({j \in 1 .. k : IsByte(o[j])})

\* As long as no request failed, the outputs hold the bytes the device made, each
\* once and in order, and the buffer holds the rest (copy_to_out, copy_from_hw
\* and check_store_buf with any sizes of the outputs).
BytesInOrder ==
  ~failed => /\ \A k \in DOMAIN out : IsByte(out[k]) => out[k] = ByteCount(out, k)
             /\ made = ByteCount(out, Len(out)) + buf.pending

\* A decompression that reports the end of its stream has everything made in the
\* outputs, and the device has seen the end, unless the flag is one a stream before
\* left in the buffer of a session that was not reset (check_store_buf with the
\* flag copy_from_hw caches and nothing but a reset clears).
DecompEndIsEnd ==
  told /\ dir = "decompress" => buf.pending = 0 /\ (done \/ again \/ failed)

\* The outputs of a stream are what the device made, and its end is the end
\* (check_store_buf, copy_from_hw).
StreamExact == BytesInOrder /\ DecompEndIsEnd
=============================================================================
