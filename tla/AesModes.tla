------------------------------ MODULE AesModes ------------------------------
(***************************************************************************)
(* The modes of operation of aes.c: a sender encrypts a message and a      *)
(* receiver decrypts it, each with a context of its own, and each in as    *)
(* many calls of as many blocks as it likes.  A call works in its buffer   *)
(* in place, block by block; what ties the calls to each other is the Iv   *)
(* in the context.  The cipher is a parameter.                             *)
(*                                                                         *)
(* Lengths are whole blocks; a counter mode call of another length drops   *)
(* the rest of its last key stream block and is left out.                  *)
(***************************************************************************)
EXTENDS Integers, Sequences

CONSTANTS Blocks, Keys,
          Ivs,                  \* initialisation vectors in use
          Modes,                \* modes of operation in use
          Message,              \* the blocks of the message
          Arrived,              \* encrypted blocks that are there from the start
          \* the block cipher of aes.c
          ExpandKey(_), EncryptBlock(_, _), DecryptBlock(_, _),
          XorBlocks(_, _), NextCounter(_),
          \* ... and of the standard: the cipher with a key, the next counter
          Standard(_, _), StandardNext(_)

ASSUME IvsAssumption == Ivs \subseteq Blocks
ASSUME ModesAssumption == Modes \subseteq {"ECB", "CBC", "CTR"}
ASSUME MessageAssumption == Message \in Seq(Blocks) /\ Arrived \in Seq(Blocks)
ASSUME LengthAssumption == Len(Arrived) <= Len(Message)

Sides == {"sender", "receiver"}

VARIABLES
    mode, key, start,   \* of the message: mode, key and first Iv
    ctx,                \* struct AES_ctx of each side
    sent,               \* encrypted blocks that sender's calls returned
    received,           \* decrypted blocks that receiver's calls returned
    running,            \* the side whose call runs, or "none"
    buf,                \* the buffer of the call
    done,               \* how many blocks of it are done
    at                  \* CBC encryption's Iv pointer: 0 is ctx->Iv, i is buf[i]

session == <<mode, key, start>>
call    == <<running, buf, done, at>>
vars    == <<session, ctx, sent, received, call>>

\* AES_init_ctx_iv() on both sides.
Init ==
    /\ mode \in Modes /\ key \in Keys /\ start \in Ivs
    /\ ctx = [side \in Sides |-> [RoundKey |-> ExpandKey(key), Iv |-> start]]
    /\ sent = Arrived /\ received = <<>>
    /\ running = "none" /\ buf = <<>> /\ done = 0 /\ at = 0

\* AES_ctx_set_iv() on both sides: a new message begins.
SetIv(iv) ==
    /\ running = "none"
    /\ start' = iv
    /\ ctx' = [side \in Sides |-> [ctx[side] EXCEPT !.Iv = iv]]
    /\ sent' = Arrived /\ received' = <<>>
    /\ UNCHANGED <<mode, key, call>>

\* A side calls the function of its mode on the next n blocks; the functions
\* of ECB take one block.
Call(side, blocks) ==
    /\ running = "none"
    /\ mode = "ECB" => Len(blocks) = 1
    /\ running' = side
    /\ buf' = blocks
    /\ done' = 0 /\ at' = 0
    /\ UNCHANGED <<session, ctx, sent, received>>

CallEncrypt(n) == Call("sender", SubSeq(Message, Len(sent) + 1, Len(sent) + n))
CallDecrypt(n) == Call("receiver", SubSeq(sent, Len(received) + 1, Len(received) + n))

\* One block of the call is done: it becomes b, and the context's Iv becomes iv.
Put(b, iv) ==
    /\ buf' = [buf EXCEPT ![done + 1] = b]
    /\ ctx' = [ctx EXCEPT ![running].Iv = iv]
    /\ done' = done + 1
    /\ UNCHANGED <<session, sent, received, running>>

RoundKey == ctx[running].RoundKey
Iv       == ctx[running].Iv
Current  == buf[done + 1]

More(m) == running # "none" /\ mode = m /\ done < Len(buf)

\* AES_ECB_encrypt(), AES_ECB_decrypt().
EcbBlock ==
    /\ More("ECB")
    /\ Put(IF running = "sender" THEN EncryptBlock(Current, RoundKey)
           ELSE DecryptBlock(Current, RoundKey), Iv)
    /\ UNCHANGED at

\* Mutant: buf is advanced before Iv is set to it.
CbcEncryptBlockAfter ==
    /\ More("CBC") /\ running = "sender"
    /\ Put(EncryptBlock(XorBlocks(Current, IF at = 0 THEN Iv ELSE buf[at]), RoundKey), Iv)
    /\ at' = done + 2

\* The loop of AES_CBC_encrypt_buffer(): Iv points at the block just encrypted.
CbcEncryptBlock ==
    /\ More("CBC") /\ running = "sender"
    /\ Put(EncryptBlock(XorBlocks(Current, IF at = 0 THEN Iv ELSE buf[at]), RoundKey), Iv)
    /\ at' = done + 1

\* Mutant: the block is not kept before it is decrypted in place.
CbcDecryptBlockInPlace ==
    /\ More("CBC") /\ running = "receiver"
    /\ LET out == XorBlocks(DecryptBlock(Current, RoundKey), Iv) IN Put(out, out)
    /\ UNCHANGED at

\* The loop of AES_CBC_decrypt_buffer(): storeNextIv keeps the encrypted block.
CbcDecryptBlock ==
    /\ More("CBC") /\ running = "receiver"
    /\ LET storeNextIv == Current
       IN  Put(XorBlocks(DecryptBlock(Current, RoundKey), Iv), storeNextIv)
    /\ UNCHANGED at

\* The loop of AES_CTR_xcrypt_buffer(), which both sides call.
CtrBlock ==
    /\ More("CTR")
    /\ Put(XorBlocks(Current, EncryptBlock(Iv, RoundKey)), NextCounter(Iv))
    /\ UNCHANGED at

\* The call returns; CBC encryption first stores what Iv points at.
Return ==
    /\ running # "none" /\ done = Len(buf)
    /\ running' = "none"
    /\ buf' = <<>> /\ done' = 0 /\ at' = 0
    /\ IF running = "sender"
       THEN sent' = sent \o buf /\ UNCHANGED received
       ELSE received' = received \o buf /\ UNCHANGED sent
    /\ ctx' = IF at = 0 THEN ctx ELSE [ctx EXCEPT ![running].Iv = buf[at]]
    /\ UNCHANGED session

Next ==
    \/ \E iv \in Ivs : SetIv(iv)
    \/ \E n \in 0..Len(Message) - Len(sent) : CallEncrypt(n)
    \/ \E n \in 0..Len(sent) - Len(received) : CallDecrypt(n)
    \/ EcbBlock \/ CbcEncryptBlock \/ CbcDecryptBlock \/ CtrBlock \/ Return

Spec == Init /\ [][Next]_vars

-----------------------------------------------------------------------------
(* Properties                                                              *)

\* Contexts hold blocks, a call is within its buffer, and no more is
\* received than sent, nor more sent than there is.
TypeOK ==
    /\ mode \in Modes /\ key \in Keys /\ start \in Ivs
    /\ ctx \in [Sides -> [RoundKey : {ExpandKey(key)}, Iv : Blocks]]
    /\ sent \in Seq(Blocks) /\ received \in Seq(Blocks) /\ buf \in Seq(Blocks)
    /\ running \in Sides \union {"none"}
    /\ done \in 0..Len(buf) /\ at \in 0..done
    /\ Len(received) <= Len(sent) /\ Len(sent) <= Len(Message)

\* The counter after n blocks, as the standard counts.
CounterAfter[n \in Nat] == IF n = 0 THEN start ELSE StandardNext(CounterAfter[n - 1])

\* What the standard makes of block k of the message.
StandardBlock(k) ==
    CASE mode = "ECB" -> Standard(key, Message[k])
      [] mode = "CBC" -> Standard(key, XorBlocks(Message[k], IF k = 1 THEN start ELSE sent[k - 1]))
      [] mode = "CTR" -> XorBlocks(Message[k], Standard(key, CounterAfter[k - 1]))

\* aes.h: the encrypted message is the standard's, however the sender splits
\* it into calls (the Iv is carried from call to call in the context).
SentIsStandard ==
    \A k \in Len(Arrived) + 1..Len(sent) : sent[k] = StandardBlock(k)

\* The receiver gets the message back, however either side splits it into
\* calls, and whenever the receiver takes part of it.
DecryptRestores ==
    \A k \in 1..Len(received) : received[k] = Message[k]
=============================================================================
