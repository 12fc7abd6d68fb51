------------------------------- MODULE MsgStream -------------------------------
(***************************************************************************)
(* ByteStream.hpp and MsgStream.hpp: a message is built by appending       *)
(* values and arrays to a buffer of a fixed size, and taken apart by       *)
(* reading them in the same order; and the handler of CMD_LOGOUT in        *)
(* server.cpp, which does both.  A writer is [size, data], data being the  *)
(* buffer up to _nWritePos; a reader is [data, pos], data being the        *)
(* dataLength bytes of the message and pos _nReadPos.  A value of any type *)
(* T, and an array, is what memcpy moves: its bytes.  Only lengths and     *)
(* commands are numbers, which are little-endian.                          *)
(***************************************************************************)
EXTENDS Integers, Sequences

\* The bytes of a number of two or four bytes, and the number they make.
Bytes(n, width) == [i \in 1..width |-> (n \div <<1, 256, 65536, 16777216>>[i]) % 256]
Number(b) == b[1] + 256 * b[2] + (IF Len(b) = 4 THEN 65536 * b[3] + 16777216 * b[4] ELSE 0)

\* The int that canRead and canWrite get of a size: its lower 32 bits with a
\* sign.  A size from 2^31 on may be negative, and the question is then always
\* answered with yes.  What is copied after that lies outside of the buffer, and
\* the program has no defined outcome.
AsInt(n) == IF n <= 2147483647 THEN n
            ELSE ((n + 65536 * 32768) % (65536 * 65536)) - 65536 * 32768

-----------------------------------------------------------------------------
(* WriteByteStream                                                         *)

CanWrite(s, n) == s.size - Len(s.data) >= AsInt(n)

\* Write<T>: what does not fit is left out.
Write(s, value) ==
  IF CanWrite(s, Len(value)) THEN [s EXCEPT !.data = @ \o value] ELSE s

\* WriteArray, WriteString: the number of elements in four bytes, then the
\* elements, or nothing at all.
WriteArray(s, a, width) ==
  IF CanWrite(s, Len(a) + 4) THEN [s EXCEPT !.data = @ \o Bytes(Len(a) \div width, 4) \o a] ELSE s

\* The constructor keeps two bytes for dataLength.
WriteStream(size) == Write([size |-> size, data |-> <<>>], Bytes(0, 2))

Finsh_NoLength(s) == s

\* finsh fills them in; a uint16_t holds no more than that of the length.
Finsh(s) ==
  IF s.size >= 2
  THEN [s EXCEPT !.data = Bytes(Len(@) % 65536, 2) \o SubSeq(@, 3, Len(@))]
  ELSE s

-----------------------------------------------------------------------------
(* ReadByteStream                                                          *)

ReadStream(msg) == [data |-> SubSeq(msg, 1, Number(SubSeq(msg, 1, 2))), pos |-> 0]

CanRead(r, n) == Len(r.data) - r.pos >= AsInt(n)
Skip(r, n) == [r EXCEPT !.pos = @ + n]
Ahead(r, n) == SubSeq(r.data, r.pos + 1, r.pos + n)

\* What onlyRead, ReadInt8, ... find: 0 if there are not enough bytes.
Peek(r, width) == IF CanRead(r, width) THEN Ahead(r, width) ELSE [i \in 1..width |-> 0]

\* The reader after Read<T>, ReadInt8, ...
AfterRead(r, width) == IF CanRead(r, width) THEN Skip(r, width) ELSE r

\* The number of elements is read without moving on.
Count(r) == Number(Peek(r, 4))

ArrayFits(r, cap, width) == Count(r) <= cap /\ CanRead(r, Count(r) * width + 4)

\* ReadArray into an array of cap elements: the elements it returns ...
ReadArray(r, cap, width) ==
  IF ArrayFits(r, cap, width) THEN Ahead(Skip(r, 4), Count(r) * width) ELSE <<>>

AfterReadArray_PopsLength(r, cap, width) ==
  IF ArrayFits(r, cap, width) THEN Skip(r, 4 + Count(r) * width) ELSE AfterRead(r, 4)

\* ... and the reader afterwards: one that failed has not moved.
AfterReadArray(r, cap, width) ==
  IF ArrayFits(r, cap, width) THEN Skip(r, 4 + Count(r) * width) ELSE r

\* ReadString: an empty string is not read, and its length is left there.
StringFits(r) == Count(r) > 0 /\ CanRead(r, Count(r) + 4)
ReadString(r) == IF StringFits(r) THEN Ahead(Skip(r, 4), Count(r)) ELSE <<>>
AfterReadString(r) == IF StringFits(r) THEN Skip(r, 4 + Count(r)) ELSE r

-----------------------------------------------------------------------------
(* CMD_LOGOUT of MyServer::OnNetMsg                                        *)

CMD_LOGOUT == 12
CMD_LOGOUT_RESULT == 13

\* The message with the fields of q: five values of 1, 2, 4, 4 and 8 bytes, two
\* names and an array of int.
WithValues(s, v) == Write(Write(Write(Write(Write(s, v[1]), v[2]), v[3]), v[4]), v[5])
WithArrays(s, q) == WriteArray(WriteArray(WriteArray(s, q.name, 1), q.pw, 1), q.ata, 4)
LogoutStream(size, cmd, q) ==
  Finsh(WithArrays(WithValues(Write(WriteStream(size), Bytes(cmd, 2)), q.values), q))

\* The fields as the handler reads them, one after the other.
LogoutFields(msg) ==
  LET r1 == AfterRead(AfterRead(ReadStream(msg), 2), 2)
      r2 == AfterRead(r1, 1)
      r3 == AfterRead(r2, 2)
      r4 == AfterRead(r3, 4)
      r5 == AfterRead(r4, 4)
      rName == AfterRead(r5, 8)
      rPw == AfterReadArray(rName, 32, 1)
      rAta == AfterReadArray(rPw, 32, 1)
  IN [values |-> <<Peek(r1, 1), Peek(r2, 2), Peek(r3, 4), Peek(r4, 4), Peek(r5, 8)>>,
      name |-> ReadArray(rName, 32, 1), pw |-> ReadArray(rPw, 32, 1),
      ata |-> ReadArray(rAta, 10, 4)]

\* The answer: the same fields, in a stream of 128 bytes.
OnLogout(msg) == LogoutStream(128, CMD_LOGOUT_RESULT, LogoutFields(msg)).data
=============================================================================
