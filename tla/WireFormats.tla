----------------------------- MODULE WireFormats -----------------------------
(***************************************************************************)
(* The two hand-written formats of sigimora-crypto: DkgMessage and         *)
(* FrostSignature.  The bytes that hold numbers are written out; points    *)
(* and ciphertexts follow as a body of some length.                        *)
(***************************************************************************)
EXTENDS Integers, SequencesExt

CONSTANTS Ids,           \* the participants that messages are about
          ShareLength    \* bytes of an encrypted share

ASSUME WireAssumption ==
  ShareLength \in Nat /\ \A id \in Ids : id \in Nat /\ 1 <= id /\ id < 32768

LE2(n) == <<n % 256, n \div 256>>

\* The little-endian number of the bytes from..to.
Number(bytes, from, to) ==
  FoldRight(LAMBDA byte, rest : byte + 256 * rest, SubSeq(bytes, from, to), 0)

\* The four bytes of a length below 2^16.
LE4(n) == LE2(n) \o <<0, 0>>

-----------------------------------------------------------------------------
(* DkgMessage *)

TypeByte ==
  [Commit |-> 1, Share |-> 2, Complaint |-> 3, Ack |-> 4, Disqualify |-> 5, QualReveal |-> 6]

Addressed == {"Share", "Complaint", "Disqualify"}

Message(kind, from, about) == [kind |-> kind, from |-> from, about |-> about]

\* about: the recipient or the accused; 0 in a message about its sender.
DkgMessages ==
  [kind : Addressed, from : Ids, about : Ids]
    \cup [kind : {"Commit", "Ack", "QualReveal"}, from : Ids, about : {0}]

BodyLength ==
  [Commit |-> 96 + 48 + 4, Share |-> ShareLength, Complaint |-> 0, Ack |-> 0,
   Disqualify |-> 0, QualReveal |-> 96]

SerializeTypeThird(m) ==                  \* as deserialize expects it
  [head |-> LE2(m.from) \o <<TypeByte[m.kind]>>
              \o (IF m.kind \in Addressed THEN LE2(m.about) ELSE <<>>)
              \o (IF m.kind = "Share" THEN LE4(ShareLength) ELSE <<>>),
   body |-> BodyLength[m.kind]]

\* An addressed message has its type byte after the address.
Serialize(m) ==
  [head |-> LE2(m.from)
              \o (IF m.kind \in Addressed THEN LE2(m.about) ELSE <<>>)
              \o <<TypeByte[m.kind]>>
              \o (IF m.kind = "Share" THEN LE4(ShareLength) ELSE <<>>),
   body |-> BodyLength[m.kind]]

Bytes(data) == Len(data.head) + data.body

Result(message) == [result |-> "ok", message |-> message]
Failed == [result |-> "error"]
Panic == [result |-> "panic"]

\* A point from the fourth byte on: there is one only in the messages that
\* have three bytes before their body; elsewhere the fourth byte is that of
\* an address, and lacks the flag of a compressed point.
PointAtThree(data, message) ==
  IF Bytes(data) < 99 THEN Panic
  ELSE IF Len(data.head) = 3 THEN Result(message) ELSE Failed

\* The length is read one byte before it was written.
ShareAtEight(data, from) ==
  IF Bytes(data) < 8 \/ Len(data.head) < 8 \/ Bytes(data) < 8 + Number(data.head, 5, 8)
    THEN Panic
    ELSE Result(Message("Share", from, Number(data.head, 3, 4)))

\* The type is the third byte, whatever the message.
Deserialize(data) ==
  LET from == Number(data.head, 1, 2)
      type == data.head[3]
      Addressee(kind) == IF Bytes(data) < 4 THEN Panic
                         ELSE Result(Message(kind, from, Number(data.head, 3, 4)))
  IN  CASE Bytes(data) < 3 -> Failed
        [] type = 1 -> PointAtThree(data, Message("Commit", from, 0))
        [] type = 2 -> ShareAtEight(data, from)
        [] type = 3 -> Addressee("Complaint")
        [] type = 4 -> Result(Message("Ack", from, 0))
        [] type = 5 -> Addressee("Disqualify")
        [] type = 6 -> PointAtThree(data, Message("QualReveal", from, 0))
        [] OTHER -> Failed

-----------------------------------------------------------------------------
(* FrostSignature: what follows the 48 bytes of sigma *)

FlattenIds(ids) == [i \in 1..2 * Len(ids) |-> LE2(ids[(i + 1) \div 2])[2 - (i % 2)]]

\* transcript: a sequence of bytes.
FrostToBytes(sig) ==
  LE4(sig.epoch) \o <<0, 0, 0, 0>>
    \o <<Len(sig.transcript)>> \o sig.transcript
    \o <<Len(sig.signers)>> \o FlattenIds(sig.signers)

\* Epoch and transcript are not read back: the signers are looked for where
\* the epoch was written.
FrostFromBytes(tail) ==
  IF tail = <<>> \/ Len(tail) < 1 + 2 * tail[1] THEN Failed
  ELSE Result([signers |-> [i \in 1..tail[1] |-> Number(tail, 2 * i, 2 * i + 1)],
               epoch |-> 1, transcript |-> <<>>])
=============================================================================
