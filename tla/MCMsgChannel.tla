----------------------------- MODULE MCMsgChannel -----------------------------
(***************************************************************************)
(* MsgChannel with the messages that MsgStream builds: their lengths are   *)
(* the lengths of finished streams, in bytes.  And MsgStream itself: some  *)
(* of the initial states stand for one message each, picked from bounded   *)
(* sets, instead of for an empty channel.                                  *)
(***************************************************************************)
EXTENDS MsgChannel, Integers

VARIABLE input   \* the message: its fields, a request, or "none" for the channel

S == INSTANCE MsgStream

\* A message that is only a header, and one with a byte and a short.
Header(cmd) == S!Write(S!WriteStream(16), S!Bytes(cmd, 2))
HeaderOnly == S!Finsh(Header(S!CMD_LOGOUT)).data
SmallMsg == S!Finsh(S!Write(S!Write(Header(S!CMD_LOGOUT), <<5>>), <<44, 1>>)).data
StreamLengths == {Len(HeaderOnly), Len(SmallMsg)}

-----------------------------------------------------------------------------
(* Fields                                                                  *)

\* Bytes that read like a length when they are taken for one.
Some(n) == [i \in 1..n |-> IF i % 4 = 1 THEN 2 ELSE 0]
Fields ==
  {[kind |-> "value", width |-> 1, value |-> b] : b \in {<<3>>, <<200>>}}
  \cup {[kind |-> "value", width |-> w, value |-> Some(w)] : w \in {2, 4, 8}}
  \cup {[kind |-> "array", width |-> 4, value |-> Some(n)] : n \in {0, 4, 8}}
  \cup {[kind |-> "string", width |-> 1, value |-> a] : a \in {<<>>, <<0, 65>>}}

WriteField(s, f) == IF f.kind = "value" THEN S!Write(s, f.value) ELSE S!WriteArray(s, f.value, f.width)

\* An array is read into one that just holds it.
Capacity(f) == Len(f.value) \div f.width
ReadField(r, f) ==
  CASE f.kind = "value" -> S!Peek(r, f.width)
    [] f.kind = "array" -> S!ReadArray(r, Capacity(f), f.width)
    [] f.kind = "string" -> S!ReadString(r)
AfterField(r, f) ==
  CASE f.kind = "value" -> S!AfterRead(r, f.width)
    [] f.kind = "array" -> S!AfterReadArray(r, Capacity(f), f.width)
    [] f.kind = "string" -> S!AfterReadString(r)

\* The fields of fs that a stream takes, and the stream with them.
Taking(w, f) ==
  LET t == WriteField(w.stream, f)
  IN [stream |-> t, taken |-> w.taken \o (IF t = w.stream THEN <<>> ELSE <<f>>)]
Written(size, fs) ==
  LET w[n \in 0..Len(fs)] ==
        IF n = 0 THEN [stream |-> S!WriteStream(size), taken |-> <<>>] ELSE Taking(w[n - 1], fs[n])
  IN w[Len(fs)]

\* The fields are read one after the other, up to the first empty string.
Reading(x, f) ==
  IF x.over THEN x
  ELSE [reader |-> AfterField(x.reader, f), over |-> f.kind = "string" /\ f.value = <<>>,
        same |-> x.same /\ ReadField(x.reader, f) = f.value]
ReadsBack(msg, fs) ==
  LET x[n \in 0..Len(fs)] ==
        IF n = 0 THEN [reader |-> S!AfterRead(S!ReadStream(msg), 2), over |-> FALSE, same |-> TRUE]
                 ELSE Reading(x[n - 1], fs[n])
      end == x[Len(fs)]
  IN end.same /\ (end.over \/ end.reader.pos = Len(msg))

FieldsReturn(size, fs) ==
  LET w == Written(size, fs) IN ReadsBack(S!Finsh(w.stream).data, w.taken)

FieldLists == UNION {[1..n -> Fields] : n \in 1..3}

\* A message of any fields that is finished, sent and read in the same order
\* gives back every field that the stream took, and ends with the last one;
\* a field that did not fit is left out as a whole, and those after it are
\* none the worse.  Up to the first empty string: ReadString leaves its
\* length where it is (MsgStream.hpp:154).
RoundTrip == input.kind = "fields" => FieldsReturn(input.size, input.fields)

-----------------------------------------------------------------------------
(* CMD_LOGOUT                                                              *)

\* Requests whose arrays are empty, short, as long as the server's buffers
\* and longer.
Requests ==
  [values : {<<<<1>>, <<2, 0>>, <<3, 0, 0, 0>>, <<4, 0, 0, 0>>, <<5, 0, 0, 0, 0, 0, 0, 0>>>>},
   name : {Some(n) : n \in {0, 3, 32, 33}}, pw : {Some(n) : n \in {0, 5, 32, 33}},
   ata : {Some(4 * n) : n \in {0, 7, 8, 10, 11}}]
Message(q) == S!LogoutStream(1024, S!CMD_LOGOUT, q)

IsOrEmpty(a, b) == a = b \/ a = <<>>

Truthful(q) ==
  LET reply == S!OnLogout(Message(q).data)
      f == S!LogoutFields(reply)
  IN /\ S!Number(SubSeq(reply, 1, 2)) = Len(reply)
     /\ S!Number(SubSeq(reply, 3, 4)) = S!CMD_LOGOUT_RESULT
     /\ f.values = q.values
     /\ IsOrEmpty(f.name, q.name) /\ IsOrEmpty(f.pw, q.pw) /\ IsOrEmpty(f.ata, q.ata)

\* What the server answers is never wrong: a well-formed message with the
\* values of the request, in which each array is the one that was sent or
\* is empty, although three arrays may each be too long for the server, may
\* not fit into the answer, and are read from where the one before ended.
ReplyTruthful == input.kind = "logout" => Truthful(input.request)

\* Arrays that fit into the server's buffers come back.  Does not hold: with
\* two names of 32 characters there is no room left for more than 7 numbers
\* in the 128 bytes of the answer, and WriteArray leaves them out.
ReplyComplete ==
  input.kind = "logout" =>
    LET q == input.request IN
    Len(q.name) <= 32 /\ Len(q.pw) <= 32 /\ Len(q.ata) <= 40 =>
      S!LogoutFields(S!OnLogout(Message(q).data)) = q

-----------------------------------------------------------------------------
None == [kind |-> "none"]

MCInit ==
  /\ Init
  /\ \/ input = None
     \/ input \in [kind : {"fields"}, size : {3, 9, 14, 64}, fields : FieldLists]
     \/ input \in [kind : {"logout"}, request : Requests]

Channel(A) == input = None /\ A /\ UNCHANGED input

MCSpec ==
  /\ MCInit /\ [][Channel(Next)]_<<vars, input>>
  /\ WF_<<vars, input>>(Channel(Write)) /\ WF_<<vars, input>>(Channel(Receive))
=============================================================================
