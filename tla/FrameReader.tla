---------------------------- MODULE FrameReader ----------------------------
(***************************************************************************)
(* The framing of DNS messages on a byte stream (src/dns/mod.rs): two      *)
(* bytes of length, most significant first, then the message.              *)
(*                                                                         *)
(* DNSMessageReader::read is a future that tokio::select! polls, and drops *)
(* when another branch wins.  Its state is                                 *)
(*   len   current_msg_len, a field of the reader: survives the future;    *)
(*   buf   what the read_exact in progress took off the stream: len_buf or *)
(*         data, locals of the future, gone with it.                       *)
(* len # 0 says that the future is at its second read_exact.               *)
(***************************************************************************)
EXTENDS Naturals, Sequences, FiniteSetsExt

Byte == 0..255
MaxLen == 65535   \* u16::MAX
Reader == [len : 0..MaxLen, buf : Seq(Byte)]

(* DNSMessageReader::new. *)
NewReader == [len |-> 0, buf |-> <<>>]

\* the reader made anew for each iteration of a loop: nothing survives
DropReadFreshMutant(r) == NewReader

(* The future is dropped, the reader is kept. *)
DropRead(r) == [r EXCEPT !.buf = <<>>]

(* The two write_all of send_dns_message; `as u16` truncates the length. *)
Writes(msg) ==
    LET n == Len(msg) % 65536
    IN  << <<n \div 256, n % 256>>, msg >>

(* One poll of read_exact: it takes what the stream has, up to its need. *)
Fill(buf, need, bytes) ==
    LET k == Min({need - Len(buf), Len(bytes)})
    IN  [buf |-> buf \o SubSeq(bytes, 1, k), rest |-> SubSeq(bytes, k + 1, Len(bytes))]

(* One poll of DNSMessageReader::read on the bytes the stream has.  It is    *)
(* pending, or done with a message (try_new wants two bytes of it), or done  *)
(* with an error.                                                            *)
Poll(r, bytes) ==
    LET head == IF r.len = 0 THEN Fill(r.buf, 2, bytes)
                ELSE [buf |-> <<>>, rest |-> bytes]
        len  == IF r.len = 0 THEN head.buf[1] * 256 + head.buf[2] ELSE r.len
        body == Fill(IF r.len = 0 THEN <<>> ELSE r.buf, len, head.rest)
    IN  IF r.len = 0 /\ Len(head.buf) < 2
        THEN [res |-> "pending", reader |-> [len |-> 0, buf |-> head.buf],
              rest |-> head.rest]
        ELSE IF Len(body.buf) < len
        THEN [res |-> "pending", reader |-> [len |-> len, buf |-> body.buf],
              rest |-> body.rest]
        ELSE [res |-> IF len >= 2 THEN "message" ELSE "error", msg |-> body.buf,
              reader |-> NewReader, rest |-> body.rest]
=============================================================================
