-------------------------------- MODULE Memo --------------------------------
(***************************************************************************)
(* pkg/crypto: how a value travels in the memo of a transaction.           *)
(* EncryptToMemo combines the 32 bytes of the value with two blocks of an  *)
(* AES-CTR key stream by exclusive or; the key is what both parties derive *)
(* from their own key and the address of the other, and the counter starts *)
(* at twice the sequence number of the transaction.  There is no function  *)
(* for decryption: the receiver applies EncryptToMemo once more.           *)
(*                                                                         *)
(* A memo is the value and the set of the blocks it is combined with; a    *)
(* block that is applied twice cancels out.  That parties other than the   *)
(* two derive other keys is a matter of the libraries.                     *)
(***************************************************************************)
EXTENDS Integers

\* A value that is not encrypted.
Plain(value) == [value |-> value, stream |-> {}]

\* The key is the same for both parties.
DeriveDHKey(own, other) == {own, other}

\* The two blocks a sequence number stands for: the counter is 64 bits wide, and
\* twice a sequence number fits.
Stream(seqNumber, key) == {key} \X {2 * seqNumber, (2 * seqNumber) + 1}

EncryptToMemo(seqNumber, own, other, memo) ==
    LET stream == Stream(seqNumber, DeriveDHKey(own, other))
    IN  [value |-> memo.value,
         stream |-> (memo.stream \ stream) \cup (stream \ memo.stream)]

\* What getLogValue of the aggregator and parseMemo of the browser make of it.  What is
\* not a number counts as 0 in the browser (and would end the aggregator).
parseMemo(memo, seqNumber, own, other) ==
    LET decrypted == EncryptToMemo(seqNumber, own, other, memo)
    IN  IF decrypted.stream = {} THEN decrypted.value ELSE 0
=============================================================================
