--------------------------- MODULE AesModes_proofs ---------------------------
(***************************************************************************)
(* Proofs about AesModes, for any split into calls and any cipher that can *)
(* be undone: what is sent is what the mode makes of the message, and what *)
(* is received is the message.  The last part applies this to the cipher   *)
(* of aes.c, which Aes_proofs shows to be undone and to be the standard's. *)
(***************************************************************************)
EXTENDS AesModes, Aes_proofs

Encrypted(k, b) == EncryptBlock(b, ExpandKey(k))

\* The cipher and the addition of blocks can be undone.
CipherIsSound ==
    /\ \A k \in Keys, b \in Blocks :
        /\ Encrypted(k, b) \in Blocks
        /\ DecryptBlock(b, ExpandKey(k)) \in Blocks
        /\ DecryptBlock(Encrypted(k, b), ExpandKey(k)) = b
    /\ \A a, b \in Blocks : XorBlocks(a, b) \in Blocks /\ XorBlocks(XorBlocks(a, b), b) = a
    /\ \A b \in Blocks : NextCounter(b) \in Blocks

\* The cipher and the counter are the standard's.
CipherOfStandard ==
    /\ \A k \in Keys, b \in Blocks : Encrypted(k, b) = Standard(k, b)
    /\ \A b \in Blocks : NextCounter(b) = StandardNext(b)

\* A message that nobody has begun to send.
NothingArrived == Arrived = <<>>

-----------------------------------------------------------------------------
(* Types                                                                   *)

\* The blocks of a call are there to be taken, and only CBC encryption has
\* its Iv pointer in the buffer.
CallFits ==
    /\ running = "none" => buf = <<>>
    /\ running = "sender" => Len(sent) + Len(buf) <= Len(Message)
    /\ running = "receiver" => Len(received) + Len(buf) <= Len(sent)
    /\ at # 0 => running = "sender" /\ mode = "CBC"

TypeInv == TypeOK /\ CallFits

\* One block of a call keeps the types, whatever the mode makes of it.
LEMMA PutTypes ==
    ASSUME TypeInv, running # "none", done < Len(buf), NEW b \in Blocks, NEW iv \in Blocks,
           Put(b, iv), at' \in {at, done + 1},
           at' # at => running = "sender" /\ mode = "CBC"
    PROVE  TypeInv'
<1> USE DEF TypeInv, TypeOK, CallFits, Put, session
<1>1. done \in Nat /\ done + 1 \in 1..Len(buf) /\ Len(buf) \in Nat
  OBVIOUS
<1>2. buf' \in Seq(Blocks) /\ Len(buf') = Len(buf)
  BY <1>1, ExceptSeq
<1>3. ctx' \in [Sides -> [RoundKey : {ExpandKey(key)}, Iv : Blocks]]
  BY DEF Sides
<1>4. done' \in 0..Len(buf') /\ at' \in 0..done'
  BY <1>1, <1>2
<1>5. TypeOK'
  BY <1>2, <1>3, <1>4
<1>6. CallFits'
  BY <1>2
<1> QED BY <1>5, <1>6

\* A call begins with blocks that are there.
LEMMA CallTypes ==
    ASSUME TypeInv, MessageAssumption, NEW side \in Sides, NEW blocks \in Seq(Blocks),
           Call(side, blocks),
           side = "sender" => Len(sent) + Len(blocks) <= Len(Message),
           side = "receiver" => Len(received) + Len(blocks) <= Len(sent)
    PROVE  TypeInv'
  BY DEF TypeInv, TypeOK, CallFits, Call, session, Sides, MessageAssumption

\* The blocks of a call, as many as were asked for.
LEMMA NextBlocks ==
    ASSUME NEW S, NEW s \in Seq(S), NEW t, NEW from \in Nat, NEW n \in 0..Len(s) - from,
           t = SubSeq(s, from + 1, from + n)
    PROVE  /\ t \in Seq(S) /\ Len(t) = n
           /\ \A i \in 1..n : t[i] = s[from + i]
<1>1. \A i \in from + 1..from + n : s[i] \in S
  BY ElementOfSeq
<1>2. /\ SubSeq(s, from + 1, from + n) \in Seq(S)
      /\ Len(SubSeq(s, from + 1, from + n)) = IF from + 1 <= from + n
                                              THEN from + n - (from + 1) + 1 ELSE 0
      /\ \A i \in 1..from + n - (from + 1) + 1 :
            SubSeq(s, from + 1, from + n)[i] = s[from + 1 + i - 1]
  BY <1>1, SubSeqProperties, from + 1 \in Int, from + n \in Int
<1>3. from + n - (from + 1) + 1 = n /\ \A i \in 1..n : from + 1 + i - 1 = from + i
  OBVIOUS
<1> QED BY <1>2, <1>3

LEMMA TypeInit ==
    ASSUME IvsAssumption, MessageAssumption, LengthAssumption, Init
    PROVE  TypeInv
<1>1. ctx \in [Sides -> [RoundKey : {ExpandKey(key)}, Iv : Blocks]]
  BY DEF Init, IvsAssumption
<1> QED BY <1>1 DEF Init, TypeInv, TypeOK, CallFits, IvsAssumption, MessageAssumption,
                    LengthAssumption

LEMMA TypeNext ==
    ASSUME CipherIsSound, IvsAssumption, MessageAssumption, LengthAssumption,
           TypeInv, [Next]_vars
    PROVE  TypeInv'
<1> USE DEF TypeInv
<1>1. ASSUME NEW iv \in Ivs, SetIv(iv) PROVE TypeInv'
  <2>1. ctx' \in [Sides -> [RoundKey : {ExpandKey(key)}, Iv : Blocks]]
    BY <1>1 DEF SetIv, TypeOK, IvsAssumption
  <2> QED BY <1>1, <2>1 DEF SetIv, TypeOK, CallFits, IvsAssumption, MessageAssumption,
                            LengthAssumption, call
<1>2. ASSUME NEW n \in 0..Len(Message) - Len(sent), CallEncrypt(n) PROVE TypeInv'
  <2> DEFINE blocks == SubSeq(Message, Len(sent) + 1, Len(sent) + n)
  <2>1. Len(sent) \in Nat /\ Message \in Seq(Blocks)
    BY DEF TypeOK, MessageAssumption
  <2>2. blocks \in Seq(Blocks) /\ Len(blocks) = n
    BY <2>1, NextBlocks
  <2>3. Call("sender", blocks) /\ Len(sent) + Len(blocks) <= Len(Message)
    BY <1>2, <2>1, <2>2 DEF CallEncrypt, MessageAssumption
  <2> QED BY <2>2, <2>3, CallTypes DEF Sides
<1>3. ASSUME NEW n \in 0..Len(sent) - Len(received), CallDecrypt(n) PROVE TypeInv'
  <2> DEFINE blocks == SubSeq(sent, Len(received) + 1, Len(received) + n)
  <2>1. Len(received) \in Nat /\ sent \in Seq(Blocks)
    BY DEF TypeOK
  <2>2. blocks \in Seq(Blocks) /\ Len(blocks) = n
    BY <2>1, NextBlocks
  <2>3. Call("receiver", blocks) /\ Len(received) + Len(blocks) <= Len(sent)
    BY <1>3, <2>1, <2>2 DEF CallDecrypt, TypeOK
  <2> QED BY <2>2, <2>3, CallTypes DEF Sides
<1> DEFINE Inside == running # "none" /\ done < Len(buf)
<1>4. Inside => /\ Current \in Blocks /\ Iv \in Blocks
                /\ RoundKey = ExpandKey(key) /\ key \in Keys
                /\ running \in Sides
  BY ElementOfSeq DEF TypeOK, Current, Iv, RoundKey, Sides
<1>5. CASE EcbBlock
  BY <1>4, <1>5, PutTypes DEF EcbBlock, More, CipherIsSound, Encrypted
<1>6. CASE CbcEncryptBlock
  <2> DEFINE prev == IF at = 0 THEN Iv ELSE buf[at]
  <2>1. prev \in Blocks
    BY <1>4, <1>6, ElementOfSeq DEF CbcEncryptBlock, More, TypeOK
  <2>2. EncryptBlock(XorBlocks(Current, prev), RoundKey) \in Blocks
    BY <1>4, <1>6, <2>1 DEF CbcEncryptBlock, More, CipherIsSound, Encrypted
  <2> QED BY <1>4, <1>6, <2>2, PutTypes DEF CbcEncryptBlock, More
<1>7. CASE CbcDecryptBlock
  BY <1>4, <1>7, PutTypes DEF CbcDecryptBlock, More, CipherIsSound
<1>8. CASE CtrBlock
  <2>1. XorBlocks(Current, EncryptBlock(Iv, RoundKey)) \in Blocks /\ NextCounter(Iv) \in Blocks
    BY <1>4, <1>8 DEF CtrBlock, More, CipherIsSound, Encrypted
  <2> QED BY <1>4, <1>8, <2>1, PutTypes DEF CtrBlock, More
<1>9. CASE Return
  <2>1. ctx' \in [Sides -> [RoundKey : {ExpandKey(key)}, Iv : Blocks]]
    <3>1. at # 0 => buf[at] \in Blocks
      BY ElementOfSeq DEF TypeOK
    <3> QED BY <1>9, <3>1 DEF Return, TypeOK
  <2>2. /\ mode' = mode /\ key' = key /\ start' = start
        /\ running' = "none" /\ buf' = <<>> /\ done' = 0 /\ at' = 0
        /\ Len(buf') = 0
    BY <1>9 DEF Return, session
  <2>3. CASE running = "sender"
    <3>1. sent \o buf \in Seq(Blocks) /\ Len(sent \o buf) = Len(sent) + Len(buf)
      BY ConcatProperties DEF TypeOK
    <3>2. sent' = sent \o buf /\ received' = received
      BY <1>9, <2>3 DEF Return
    <3> QED BY <2>1, <2>2, <2>3, <3>1, <3>2 DEF TypeOK, CallFits
  <2>4. CASE running = "receiver"
    <3>1. /\ received \o buf \in Seq(Blocks)
          /\ Len(received \o buf) = Len(received) + Len(buf)
      BY ConcatProperties DEF TypeOK
    <3>2. received' = received \o buf /\ sent' = sent
      BY <1>9, <2>4 DEF Return
    <3> QED BY <2>1, <2>2, <2>4, <3>1, <3>2 DEF TypeOK, CallFits
  <2> QED BY <1>9, <2>3, <2>4 DEF Return, TypeOK, Sides
<1>10. CASE UNCHANGED vars
  BY <1>10 DEF TypeOK, CallFits, vars, session, call
<1> QED BY <1>1, <1>2, <1>3, <1>5, <1>6, <1>7, <1>8, <1>9, <1>10 DEF Next

\* TypeOK holds for every cipher, mode, message and split into calls (the
\* loops of aes.c and the Iv pointer stay within the buffer).
THEOREM TypeCorrect ==
    ASSUME CipherIsSound
    PROVE  Spec => []TypeOK
<1>1. Init => TypeInv
  BY TypeInit, IvsAssumption, MessageAssumption, LengthAssumption
<1>2. TypeInv /\ [Next]_vars => TypeInv'
  BY TypeNext, CipherIsSound, IvsAssumption, MessageAssumption, LengthAssumption
<1>3. TypeInv => TypeOK
  BY DEF TypeInv
<1> QED BY <1>1, <1>2, <1>3, PTL DEF Spec

-----------------------------------------------------------------------------
(* The modes                                                               *)

\* The counter after n blocks.
Count(iv) == LET count[n \in Nat] == IF n = 0 THEN iv ELSE NextCounter(count[n - 1])
             IN  count

\* What block k is chained to.
Chain(k) == IF k = 1 THEN start ELSE sent[k - 1]

\* What the mode makes of block k of the message.
Made(k) ==
    IF mode = "ECB" THEN Encrypted(key, Message[k])
    ELSE IF mode = "CBC" THEN Encrypted(key, XorBlocks(Message[k], Chain(k)))
    ELSE XorBlocks(Message[k], Encrypted(key, Count(start)[k - 1]))

\* ... of block i of the sender's call, when the block before it has been
\* encrypted.
BufMade(i) ==
    IF mode = "ECB" THEN Encrypted(key, Message[Len(sent) + i])
    ELSE IF mode = "CBC"
    THEN Encrypted(key, XorBlocks(Message[Len(sent) + i],
                                  IF i = 1 THEN Chain(Len(sent) + 1) ELSE buf[i - 1]))
    ELSE XorBlocks(Message[Len(sent) + i], Encrypted(key, Count(start)[Len(sent) + i - 1]))

\* The buffer of the sender's call: encrypted up to done, untouched behind.
SenderInv ==
    running = "sender" =>
        /\ \A i \in 1..done : buf[i] = BufMade(i)
        /\ \A i \in done + 1..Len(buf) : buf[i] = Message[Len(sent) + i]
        /\ mode = "CBC" => at = done

\* The buffer of the receiver's call: decrypted up to done.
ReceiverInv ==
    running = "receiver" =>
        /\ \A i \in 1..done : buf[i] = Message[Len(received) + i]
        /\ \A i \in done + 1..Len(buf) : buf[i] = sent[Len(received) + i]

\* How many blocks of a side are done, in a call or before it.
SentDone     == Len(sent) + (IF running = "sender" THEN done ELSE 0)
ReceivedDone == Len(received) + (IF running = "receiver" THEN done ELSE 0)

\* CBC: the sender's Iv is the block before its call, the receiver's the block
\* before the one it does next.  CTR: each side has counted what it has done.
IvInv ==
    /\ mode = "CBC" =>
        /\ ctx["sender"].Iv = Chain(Len(sent) + 1)
        /\ ctx["receiver"].Iv = Chain(ReceivedDone + 1)
    /\ mode = "CTR" =>
        /\ ctx["sender"].Iv = Count(start)[SentDone]
        /\ ctx["receiver"].Iv = Count(start)[ReceivedDone]

ChainInv ==
    /\ \A k \in 1..Len(sent) : sent[k] = Made(k)
    /\ \A k \in 1..Len(received) : received[k] = Message[k]
    /\ SenderInv /\ ReceiverInv /\ IvInv

\* The counter of a message is what it counts up to.
LEMMA Counts ==
    ASSUME CipherIsSound, NEW iv \in Blocks
    PROVE  /\ Count(iv)[0] = iv
           /\ \A n \in Nat : /\ Count(iv)[n] \in Blocks
                             /\ Count(iv)[n + 1] = NextCounter(Count(iv)[n])
<1> DEFINE step == [p \in Nat \X Blocks |-> NextCounter(p[2])]
           Def(f) == [n \in Nat |-> IF n = 0 THEN iv ELSE NextCounter(f[n - 1])]
           r == Count(iv)
<1>1. /\ step \in [Nat \X Blocks -> Blocks]
      /\ \A n \in Nat, b \in Blocks : step[<<n, b>>] = NextCounter(b)
  BY DEF CipherIsSound
<1> HIDE DEF step
<1>2. PICK f \in [Nat -> Blocks] : \A n \in Nat : Recursion(f, iv, step, n)
  BY <1>1, RecursionExists
<1>3. f[0] = iv /\ \A n \in Nat : f[n + 1] = NextCounter(f[n])
  <2>1. \A n \in Nat : n + 1 \in Nat /\ n < n + 1 /\ f[n] \in Blocks
    OBVIOUS
  <2> QED BY <1>1, <1>2, <2>1 DEF Recursion
<1>4. f = Def(f)
  <2>1. ASSUME NEW n \in Nat PROVE f[n] = Def(f)[n]
    <3>1. CASE n = 0
      BY <1>3, <3>1
    <3>2. CASE n # 0
      <4>1. n - 1 \in Nat /\ n = (n - 1) + 1
        BY <3>2
      <4> QED BY <1>3, <3>2, <4>1
    <3> QED BY <3>1, <3>2
  <2> QED BY <2>1
<1>5. r = Def(r)
  <2>1. r = CHOOSE g : g = Def(g)
    BY DEF Count
  <2> HIDE DEF Def, r
  <2> QED BY <1>4, <2>1
<1> HIDE DEF r
<1>6. r[0] = iv /\ \A n \in Nat : r[n + 1] = NextCounter(r[n])
  <2>1. \A n \in Nat : n + 1 \in Nat /\ n + 1 # 0 /\ (n + 1) - 1 = n
    OBVIOUS
  <2> QED BY <1>5, <2>1
<1> DEFINE T == {n \in Nat : r[n] \in Blocks}
<1>7. Nat \subseteq T
  <2>1. 0 \in T /\ \A n \in Nat : n \in T => n + 1 \in T
    BY <1>6 DEF CipherIsSound
  <2> HIDE DEF T
  <2> QED BY <2>1, SetInduction
<1> QED BY <1>6, <1>7 DEF r

LEMMA ChainInit ==
    ASSUME CipherIsSound, NothingArrived, IvsAssumption, Init
    PROVE  ChainInv
<1>1. sent = <<>> /\ received = <<>> /\ running = "none"
  BY DEF Init, NothingArrived
<1>2. Len(sent) = 0 /\ Len(received) = 0
  BY <1>1
<1>3. ctx["sender"].Iv = start /\ ctx["receiver"].Iv = start
  BY DEF Init, Sides
<1>4. SentDone = 0 /\ ReceivedDone = 0 /\ Count(start)[0] = start
  BY <1>1, <1>2, Counts DEF SentDone, ReceivedDone, Init, IvsAssumption
<1> QED BY <1>1, <1>2, <1>3, <1>4 DEF ChainInv, SenderInv, ReceiverInv, IvInv, Chain

LEMMA ChainSetIv ==
    ASSUME CipherIsSound, NothingArrived, IvsAssumption, TypeInv, NEW iv \in Ivs, SetIv(iv)
    PROVE  ChainInv'
<1>1. sent' = <<>> /\ received' = <<>> /\ Len(sent') = 0 /\ Len(received') = 0
  BY DEF SetIv, NothingArrived
<1>2. ctx'["sender"].Iv = start' /\ ctx'["receiver"].Iv = start'
  BY DEF SetIv, TypeInv, TypeOK, Sides
<1>3. mode' = mode /\ running' = "none"
  BY DEF SetIv, call
<1>4. SentDone' = 0 /\ ReceivedDone' = 0 /\ Count(start')[0] = start'
  <2>1. start' \in Blocks
    BY DEF SetIv, IvsAssumption
  <2> QED BY <1>1, <1>3, <2>1, Counts DEF SentDone, ReceivedDone
<1> QED BY <1>1, <1>2, <1>3, <1>4 DEF ChainInv, SenderInv, ReceiverInv, IvInv, Chain

\* What a call leaves alone while it runs.
LEMMA SameChain ==
    ASSUME mode' = mode, key' = key, start' = start, sent' = sent
    PROVE  /\ \A k : Chain(k)' = Chain(k)
           /\ \A k : Made(k)' = Made(k)
  BY DEF Made, Chain

LEMMA ChainCallEncrypt ==
    ASSUME MessageAssumption, TypeInv, ChainInv,
           NEW n \in 0..Len(Message) - Len(sent), CallEncrypt(n)
    PROVE  ChainInv'
<1> DEFINE blocks == SubSeq(Message, Len(sent) + 1, Len(sent) + n)
<1>1. Len(sent) \in Nat /\ Len(received) \in Nat
  BY DEF TypeInv, TypeOK
<1>2. Len(blocks) = n /\ \A i \in 1..n : blocks[i] = Message[Len(sent) + i]
  BY <1>1, NextBlocks DEF MessageAssumption
<1>3. /\ mode' = mode /\ key' = key /\ start' = start /\ sent' = sent
      /\ received' = received /\ ctx' = ctx
      /\ running = "none" /\ running' = "sender" /\ buf' = blocks /\ done' = 0 /\ at' = 0
  BY DEF CallEncrypt, Call, session
<1> HIDE DEF blocks
<1>4. SenderInv'
  BY <1>2, <1>3 DEF SenderInv
<1>5. ReceiverInv'
  BY <1>3 DEF ReceiverInv
<1>6. IvInv'
  BY <1>1, <1>3 DEF IvInv, ChainInv, Chain, SentDone, ReceivedDone
<1> QED BY <1>3, <1>4, <1>5, <1>6, SameChain DEF ChainInv

LEMMA ChainCallDecrypt ==
    ASSUME TypeInv, ChainInv, NEW n \in 0..Len(sent) - Len(received), CallDecrypt(n)
    PROVE  ChainInv'
<1> DEFINE blocks == SubSeq(sent, Len(received) + 1, Len(received) + n)
<1>1. sent \in Seq(Blocks) /\ Len(received) \in Nat
  BY DEF TypeInv, TypeOK
<1>2. Len(blocks) = n /\ \A i \in 1..n : blocks[i] = sent[Len(received) + i]
  BY <1>1, NextBlocks
<1>3. /\ mode' = mode /\ key' = key /\ start' = start /\ sent' = sent
      /\ received' = received /\ ctx' = ctx
      /\ running = "none" /\ running' = "receiver" /\ buf' = blocks /\ done' = 0 /\ at' = 0
  BY DEF CallDecrypt, Call, session
<1> HIDE DEF blocks
<1>4. SenderInv'
  BY <1>3 DEF SenderInv
<1>5. ReceiverInv'
  BY <1>2, <1>3 DEF ReceiverInv
<1>6. IvInv'
  BY <1>1, <1>3 DEF IvInv, ChainInv, Chain, SentDone, ReceivedDone
<1> QED BY <1>3, <1>4, <1>5, <1>6, SameChain DEF ChainInv

\* A context's Iv is written, the other context stays.
LEMMA IvWritten ==
    ASSUME TypeInv, running \in Sides, NEW iv, ctx' = [ctx EXCEPT ![running].Iv = iv]
    PROVE  \A side \in Sides :
                ctx'[side].Iv = IF side = running THEN iv ELSE ctx[side].Iv
<1>1. ctx \in [Sides -> [RoundKey : {ExpandKey(key)}, Iv : Blocks]]
  BY DEF TypeInv, TypeOK
<1> QED BY <1>1

\* What Put leaves alone.
LEMMA PutFrame ==
    ASSUME TypeInv, running # "none", done < Len(buf), NEW b, NEW iv, Put(b, iv)
    PROVE  /\ done \in Nat /\ Len(buf) \in Nat /\ Len(buf') = Len(buf)
           /\ buf'[done + 1] = b
           /\ \A i \in 1..done + 1 : i = done + 1 \/ (i \in 1..done /\ buf'[i] = buf[i])
           /\ \A i \in done + 1 + 1..Len(buf) : i \in done + 1..Len(buf) /\ buf'[i] = buf[i]
           /\ running \in Sides
           /\ \A side \in Sides :
                ctx'[side].Iv = IF side = running THEN iv ELSE ctx[side].Iv
<1>1. running \in Sides
  BY DEF TypeInv, TypeOK
<1>2. ctx' = [ctx EXCEPT ![running].Iv = iv]
  BY DEF Put
<1>3. \A side \in Sides : ctx'[side].Iv = IF side = running THEN iv ELSE ctx[side].Iv
  BY <1>1, <1>2, IvWritten
<1>4. buf \in Seq(Blocks) /\ done \in 0..Len(buf)
  BY DEF TypeInv, TypeOK
<1>5. Len(buf') = Len(buf) /\ DOMAIN buf = 1..Len(buf) /\ buf' = [buf EXCEPT ![done + 1] = b]
  BY <1>4 DEF Put
<1>6. \A i \in 1..Len(buf) : i # done + 1 => buf'[i] = buf[i]
  BY <1>4, <1>5
<1>7. /\ \A i \in 1..done + 1 : i = done + 1 \/ (i \in 1..done /\ i \in 1..Len(buf) /\ i # done + 1)
      /\ \A i \in done + 1 + 1..Len(buf) :
            i \in done + 1..Len(buf) /\ i \in 1..Len(buf) /\ i # done + 1
  BY <1>4
<1> QED BY <1>1, <1>3, <1>4, <1>5, <1>6, <1>7

LEMMA ChainEcbBlock ==
    ASSUME CipherIsSound, MessageAssumption, TypeInv, ChainInv, EcbBlock
    PROVE  ChainInv'
<1> DEFINE b == IF running = "sender" THEN EncryptBlock(Current, RoundKey)
                ELSE DecryptBlock(Current, RoundKey)
<1>1. Put(b, Iv) /\ mode = "ECB" /\ running # "none" /\ done < Len(buf)
  BY DEF EcbBlock, More
<1>2. /\ done \in Nat /\ Len(buf) \in Nat /\ Len(buf') = Len(buf)
      /\ buf'[done + 1] = b
      /\ \A i \in 1..done + 1 : i = done + 1 \/ (i \in 1..done /\ buf'[i] = buf[i])
      /\ \A i \in done + 1 + 1..Len(buf) : i \in done + 1..Len(buf) /\ buf'[i] = buf[i]
      /\ running \in Sides
  BY <1>1, PutFrame
<1>3. /\ mode' = mode /\ key' = key /\ start' = start /\ sent' = sent
      /\ received' = received /\ running' = running /\ done' = done + 1
  BY <1>1 DEF Put, session
<1>4. RoundKey = ExpandKey(key) /\ key \in Keys
  BY <1>2 DEF RoundKey, TypeInv, TypeOK
<1>5. SenderInv'
  <2> SUFFICES ASSUME running = "sender" PROVE SenderInv'
    BY <1>3 DEF SenderInv
  <2>1. Current = Message[Len(sent) + (done + 1)] /\ Current \in Blocks
    <3>1. done + 1 \in done + 1..Len(buf) /\ done + 1 \in 1..Len(buf)
      BY <1>1, <1>2
    <3>2. Current = Message[Len(sent) + (done + 1)]
      BY <1>1, <3>1 DEF Current, ChainInv, SenderInv
    <3> QED BY <3>1, <3>2, ElementOfSeq DEF Current, TypeInv, TypeOK
  <2>2. b = Encrypted(key, Message[Len(sent) + (done + 1)])
    BY <1>4, <2>1 DEF Encrypted
  <2> HIDE DEF b
  <2>3. \A i \in 1..done + 1 : buf'[i] = Encrypted(key, Message[Len(sent) + i])
    BY <1>1, <1>2, <2>2 DEF ChainInv, SenderInv, BufMade
  <2>4. \A i \in done + 1 + 1..Len(buf) : buf'[i] = Message[Len(sent) + i]
    BY <1>1, <1>2 DEF ChainInv, SenderInv
  <2> QED BY <1>1, <1>2, <1>3, <2>3, <2>4 DEF SenderInv, BufMade
<1>6. ReceiverInv'
  <2> SUFFICES ASSUME running = "receiver" PROVE ReceiverInv'
    BY <1>3 DEF ReceiverInv
  <2> DEFINE k == Len(received) + (done + 1)
  <2>1. Current = sent[k] /\ k \in 1..Len(sent) /\ Message[k] \in Blocks
    <3>1. Current = sent[k]
      BY <1>1, <1>2 DEF Current, ChainInv, ReceiverInv
    <3>2. k \in 1..Len(sent) /\ k \in 1..Len(Message)
      BY <1>1, <1>2 DEF TypeInv, TypeOK, CallFits, MessageAssumption
    <3> QED BY <3>1, <3>2, ElementOfSeq DEF MessageAssumption
  <2>2. sent[k] = Encrypted(key, Message[k])
    BY <1>1, <2>1 DEF ChainInv, Made
  <2>3. b = Message[k]
    BY <1>4, <2>1, <2>2 DEF CipherIsSound
  <2> HIDE DEF b
  <2>4. \A i \in 1..done + 1 : buf'[i] = Message[Len(received) + i]
    BY <1>1, <1>2, <2>3 DEF ChainInv, ReceiverInv
  <2>5. \A i \in done + 1 + 1..Len(buf) : buf'[i] = sent[Len(received) + i]
    BY <1>1, <1>2 DEF ChainInv, ReceiverInv
  <2> QED BY <1>2, <1>3, <2>4, <2>5 DEF ReceiverInv
<1>7. IvInv'
  BY <1>1, <1>3 DEF IvInv
<1> QED BY <1>3, <1>5, <1>6, <1>7, SameChain DEF ChainInv

LEMMA ChainCbcEncryptBlock ==
    ASSUME CipherIsSound, MessageAssumption, TypeInv, ChainInv, CbcEncryptBlock
    PROVE  ChainInv'
<1> DEFINE prev == IF at = 0 THEN Iv ELSE buf[at]
           b == EncryptBlock(XorBlocks(Current, prev), RoundKey)
<1>1. /\ Put(b, Iv) /\ mode = "CBC" /\ running = "sender" /\ done < Len(buf)
      /\ at' = done + 1 /\ at = done
  BY DEF CbcEncryptBlock, More, ChainInv, SenderInv
<1>2. /\ done \in Nat /\ Len(buf) \in Nat /\ Len(buf') = Len(buf)
      /\ buf'[done + 1] = b
      /\ \A i \in 1..done + 1 : i = done + 1 \/ (i \in 1..done /\ buf'[i] = buf[i])
      /\ \A i \in done + 1 + 1..Len(buf) : i \in done + 1..Len(buf) /\ buf'[i] = buf[i]
      /\ \A side \in Sides : ctx'[side].Iv = ctx[side].Iv
  BY <1>1, PutFrame DEF Iv
<1>3. /\ mode' = mode /\ key' = key /\ start' = start /\ sent' = sent
      /\ received' = received /\ running' = running /\ done' = done + 1
  BY <1>1 DEF Put, session
<1>4. RoundKey = ExpandKey(key) /\ key \in Keys
  BY <1>1 DEF RoundKey, TypeInv, TypeOK, Sides
<1>5. SenderInv'
  <2>1. Current = Message[Len(sent) + (done + 1)] /\ Current \in Blocks
    <3>1. done + 1 \in done + 1..Len(buf) /\ done + 1 \in 1..Len(buf)
      BY <1>1, <1>2
    <3>2. Current = Message[Len(sent) + (done + 1)]
      BY <1>1, <3>1 DEF Current, ChainInv, SenderInv
    <3> QED BY <3>1, <3>2, ElementOfSeq DEF Current, TypeInv, TypeOK
  <2>2. prev = IF done + 1 = 1 THEN Chain(Len(sent) + 1) ELSE buf[done + 1 - 1]
    BY <1>1, <1>2 DEF Iv, ChainInv, IvInv
  <2>3. prev \in Blocks
    <3>1. Iv \in Blocks
      BY <1>1 DEF Iv, TypeInv, TypeOK, Sides
    <3> QED BY <1>1, <1>2, <3>1, ElementOfSeq DEF TypeInv, TypeOK
  <2>4. b = Encrypted(key, XorBlocks(Message[Len(sent) + (done + 1)], prev))
    BY <1>4, <2>1 DEF Encrypted
  <2>5. \A i \in 1..done + 1 : i > 1 => buf'[i - 1] = buf[i - 1]
    <3>1. \A i \in 1..done + 1 : i > 1 => i - 1 \in 1..done + 1 /\ i - 1 # done + 1
      BY <1>2
    <3> QED BY <1>2, <3>1
  <2> HIDE DEF b, prev
  <2>6. \A i \in 1..done + 1 :
            buf'[i] = Encrypted(key, XorBlocks(Message[Len(sent) + i],
                         IF i = 1 THEN Chain(Len(sent) + 1) ELSE buf'[i - 1]))
    <3> TAKE i \in 1..done + 1
    <3>1. CASE i = done + 1
      BY <1>2, <2>2, <2>4, <2>5, <3>1
    <3>2. CASE i # done + 1
      <4>1. i \in 1..done /\ buf'[i] = buf[i] /\ buf[i] = BufMade(i)
        BY <1>1, <1>2, <3>2 DEF ChainInv, SenderInv
      <4> QED BY <1>1, <1>2, <2>5, <4>1 DEF BufMade
    <3> QED BY <3>1, <3>2
  <2>7. \A i \in done + 1 + 1..Len(buf) : buf'[i] = Message[Len(sent) + i]
    BY <1>1, <1>2 DEF ChainInv, SenderInv
  <2> QED BY <1>1, <1>2, <1>3, <2>6, <2>7, SameChain DEF SenderInv, BufMade, Chain, ChainInv
<1> HIDE DEF b, prev
<1>6. ReceiverInv'
  BY <1>1, <1>3 DEF ReceiverInv
<1>7. IvInv'
  BY <1>1, <1>2, <1>3 DEF IvInv, ChainInv, Chain, Sides, ReceivedDone
<1> QED BY <1>3, <1>5, <1>6, <1>7, SameChain DEF ChainInv

LEMMA ChainCbcDecryptBlock ==
    ASSUME CipherIsSound, MessageAssumption, TypeInv, ChainInv, CbcDecryptBlock
    PROVE  ChainInv'
<1> DEFINE b == XorBlocks(DecryptBlock(Current, RoundKey), Iv)
           k == Len(received) + (done + 1)
<1>1. /\ Put(b, Current) /\ mode = "CBC" /\ running = "receiver" /\ done < Len(buf)
  BY DEF CbcDecryptBlock, More
<1>2. /\ done \in Nat /\ Len(buf) \in Nat /\ Len(buf') = Len(buf)
      /\ buf'[done + 1] = b
      /\ \A i \in 1..done + 1 : i = done + 1 \/ (i \in 1..done /\ buf'[i] = buf[i])
      /\ \A i \in done + 1 + 1..Len(buf) : i \in done + 1..Len(buf) /\ buf'[i] = buf[i]
      /\ ctx'["receiver"].Iv = Current /\ ctx'["sender"].Iv = ctx["sender"].Iv
  BY <1>1, PutFrame DEF Sides
<1>3. /\ mode' = mode /\ key' = key /\ start' = start /\ sent' = sent
      /\ received' = received /\ running' = running /\ done' = done + 1
  BY <1>1 DEF Put, session
<1>4. RoundKey = ExpandKey(key) /\ key \in Keys /\ Iv \in Blocks
  BY <1>1 DEF RoundKey, Iv, TypeInv, TypeOK, Sides
<1>5. Current = sent[k] /\ k \in 1..Len(sent) /\ Message[k] \in Blocks
  <2>1. Current = sent[k]
    BY <1>1, <1>2 DEF Current, ChainInv, ReceiverInv
  <2>2. k \in 1..Len(sent) /\ k \in 1..Len(Message)
    BY <1>1, <1>2 DEF TypeInv, TypeOK, CallFits, MessageAssumption
  <2> QED BY <2>1, <2>2, ElementOfSeq DEF MessageAssumption
<1>6. Iv = Chain(k)
  <2>1. ReceivedDone + 1 = k
    BY <1>1, <1>2 DEF ReceivedDone, TypeInv, TypeOK
  <2> QED BY <1>1, <2>1 DEF Iv, ChainInv, IvInv
<1>7. b = Message[k]
  <2>1. sent[k] = Encrypted(key, XorBlocks(Message[k], Iv))
    BY <1>1, <1>5, <1>6 DEF ChainInv, Made
  <2> QED BY <1>4, <1>5, <2>1 DEF CipherIsSound
<1> HIDE DEF b
<1>8. SenderInv'
  BY <1>1, <1>3 DEF SenderInv
<1>9. ReceiverInv'
  <2>1. \A i \in 1..done + 1 : buf'[i] = Message[Len(received) + i]
    BY <1>1, <1>2, <1>7 DEF ChainInv, ReceiverInv
  <2>2. \A i \in done + 1 + 1..Len(buf) : buf'[i] = sent[Len(received) + i]
    BY <1>1, <1>2 DEF ChainInv, ReceiverInv
  <2> QED BY <1>2, <1>3, <2>1, <2>2 DEF ReceiverInv
<1>10. IvInv'
  <2>1. ReceivedDone' + 1 = k + 1 /\ k + 1 # 1 /\ (k + 1) - 1 = k
    BY <1>1, <1>2, <1>3 DEF ReceivedDone, TypeInv, TypeOK
  <2>2. ctx'["receiver"].Iv = Chain(ReceivedDone + 1)'
    BY <1>2, <1>3, <1>5, <2>1 DEF Chain
  <2>3. ctx'["sender"].Iv = Chain(Len(sent) + 1)'
    BY <1>1, <1>2, <1>3 DEF Chain, IvInv, ChainInv
  <2> QED BY <1>1, <1>3, <2>2, <2>3 DEF IvInv
<1> QED BY <1>3, <1>8, <1>9, <1>10, SameChain DEF ChainInv

LEMMA ChainCtrBlock ==
    ASSUME CipherIsSound, MessageAssumption, TypeInv, ChainInv, CtrBlock
    PROVE  ChainInv'
<1> DEFINE stream == EncryptBlock(Iv, RoundKey)
           b == XorBlocks(Current, stream)
           n == IF running = "sender" THEN SentDone ELSE ReceivedDone
<1>1. Put(b, NextCounter(Iv)) /\ mode = "CTR" /\ running # "none" /\ done < Len(buf)
  BY DEF CtrBlock, More
<1>2. /\ done \in Nat /\ Len(buf) \in Nat /\ Len(buf') = Len(buf)
      /\ buf'[done + 1] = b
      /\ \A i \in 1..done + 1 : i = done + 1 \/ (i \in 1..done /\ buf'[i] = buf[i])
      /\ \A i \in done + 1 + 1..Len(buf) : i \in done + 1..Len(buf) /\ buf'[i] = buf[i]
      /\ running \in Sides
      /\ \A side \in Sides :
            ctx'[side].Iv = IF side = running THEN NextCounter(Iv) ELSE ctx[side].Iv
  BY <1>1, PutFrame
<1>3. /\ mode' = mode /\ key' = key /\ start' = start /\ sent' = sent
      /\ received' = received /\ running' = running /\ done' = done + 1
  BY <1>1 DEF Put, session
<1>4. RoundKey = ExpandKey(key) /\ key \in Keys /\ Iv \in Blocks /\ Iv = Count(start)[n]
  BY <1>1, <1>2 DEF RoundKey, Iv, TypeInv, TypeOK, Sides, ChainInv, IvInv
<1>5. /\ n \in Nat /\ SentDone \in Nat /\ ReceivedDone \in Nat
      /\ n = (IF running = "sender" THEN Len(sent) ELSE Len(received)) + done
  BY <1>1, <1>2 DEF TypeInv, TypeOK, SentDone, ReceivedDone, Sides
<1>6. stream = Encrypted(key, Count(start)[n]) /\ stream \in Blocks
  BY <1>4 DEF Encrypted, CipherIsSound
<1>7. NextCounter(Iv) = Count(start)[n + 1]
  <2>1. start \in Blocks
    BY IvsAssumption DEF TypeInv, TypeOK, IvsAssumption
  <2> HIDE DEF n
  <2> QED BY <1>4, <1>5, <2>1, Counts
<1> HIDE DEF stream
<1>8. SenderInv'
  <2> SUFFICES ASSUME running = "sender" PROVE SenderInv'
    BY <1>3 DEF SenderInv
  <2>1. Current = Message[Len(sent) + (done + 1)]
    <3>1. done + 1 \in done + 1..Len(buf)
      BY <1>1, <1>2
    <3> QED BY <3>1 DEF Current, ChainInv, SenderInv
  <2>2. n = Len(sent) + (done + 1) - 1
    BY <1>2, <1>5 DEF TypeInv, TypeOK
  <2>3. b = XorBlocks(Message[Len(sent) + (done + 1)],
                      Encrypted(key, Count(start)[Len(sent) + (done + 1) - 1]))
    BY <1>6, <2>1, <2>2
  <2> HIDE DEF b, n
  <2>4. \A i \in 1..done + 1 :
            buf'[i] = XorBlocks(Message[Len(sent) + i], Encrypted(key, Count(start)[Len(sent) + i - 1]))
    BY <1>1, <1>2, <2>3 DEF ChainInv, SenderInv, BufMade
  <2>5. \A i \in done + 1 + 1..Len(buf) : buf'[i] = Message[Len(sent) + i]
    BY <1>1, <1>2 DEF ChainInv, SenderInv
  <2> QED BY <1>1, <1>2, <1>3, <2>4, <2>5 DEF SenderInv, BufMade
<1>9. ReceiverInv'
  <2> SUFFICES ASSUME running = "receiver" PROVE ReceiverInv'
    BY <1>3 DEF ReceiverInv
  <2> DEFINE k == Len(received) + (done + 1)
  <2>1. Current = sent[k] /\ k \in 1..Len(sent) /\ Message[k] \in Blocks
    <3>1. Current = sent[k]
      BY <1>1, <1>2 DEF Current, ChainInv, ReceiverInv
    <3>2. k \in 1..Len(sent) /\ k \in 1..Len(Message)
      BY <1>1, <1>2 DEF TypeInv, TypeOK, CallFits, MessageAssumption
    <3> QED BY <3>1, <3>2, ElementOfSeq DEF MessageAssumption
  <2>2. n = k - 1
    BY <1>2, <1>5 DEF TypeInv, TypeOK
  <2>3. sent[k] = XorBlocks(Message[k], stream)
    BY <1>1, <1>6, <2>1, <2>2 DEF ChainInv, Made
  <2>4. b = Message[k]
    BY <1>6, <2>1, <2>3 DEF CipherIsSound
  <2> HIDE DEF b, n
  <2>5. \A i \in 1..done + 1 : buf'[i] = Message[Len(received) + i]
    BY <1>1, <1>2, <2>4 DEF ChainInv, ReceiverInv
  <2>6. \A i \in done + 1 + 1..Len(buf) : buf'[i] = sent[Len(received) + i]
    BY <1>1, <1>2 DEF ChainInv, ReceiverInv
  <2> QED BY <1>2, <1>3, <2>5, <2>6 DEF ReceiverInv
<1>10. IvInv'
  <2>1. /\ SentDone' = IF running = "sender" THEN n + 1 ELSE SentDone
        /\ ReceivedDone' = IF running = "receiver" THEN n + 1 ELSE ReceivedDone
    BY <1>2, <1>3 DEF SentDone, ReceivedDone, Sides, TypeInv, TypeOK
  <2> HIDE DEF n
  <2>2. /\ ctx'["sender"].Iv = Count(start)[SentDone']
        /\ ctx'["receiver"].Iv = Count(start)[ReceivedDone']
    BY <1>1, <1>2, <1>7, <2>1 DEF Sides, ChainInv, IvInv
  <2> QED BY <1>1, <1>3, <2>2 DEF IvInv
<1> QED BY <1>3, <1>8, <1>9, <1>10, SameChain DEF ChainInv

\* The sender's call returns: its buffer is appended to what was sent.
LEMMA ChainReturnSender ==
    ASSUME TypeInv, ChainInv, Return, running = "sender"
    PROVE  ChainInv'
<1> DEFINE n == Len(sent)
           Before(k) == IF k = 1 THEN start' ELSE sent'[k - 1]
           After(k)  == IF mode = "ECB" THEN Encrypted(key, Message[k])
                        ELSE IF mode = "CBC" THEN Encrypted(key, XorBlocks(Message[k], Before(k)))
                        ELSE XorBlocks(Message[k], Encrypted(key, Count(start)[k - 1]))
<1>1. /\ mode' = mode /\ key' = key /\ start' = start /\ running' = "none"
      /\ sent' = sent \o buf /\ received' = received /\ done = Len(buf)
      /\ ctx' = IF at = 0 THEN ctx ELSE [ctx EXCEPT !["sender"].Iv = buf[at]]
  BY DEF Return, session
<1>2. /\ sent \in Seq(Blocks) /\ buf \in Seq(Blocks) /\ n \in Nat /\ Len(buf) \in Nat
      /\ Len(received) \in Nat /\ Len(received) <= n
  BY DEF TypeInv, TypeOK
<1>3. Len(sent') = n + Len(buf)
  BY <1>1, <1>2, ConcatProperties
<1>4. \A k \in 1..n : sent'[k] = sent[k]
  <2>1. \A k \in 1..n : k \in 1..n + Len(buf) /\ k <= n
    BY <1>2
  <2> QED BY <1>1, <1>2, <2>1, ConcatProperties
<1>5. \A i \in 1..Len(buf) : sent'[n + i] = buf[i]
  <2>1. \A i \in 1..Len(buf) : n + i \in 1..n + Len(buf) /\ ~(n + i <= n) /\ n + i - n = i
    BY <1>2
  <2> QED BY <1>1, <1>2, <2>1, ConcatProperties
<1>6. \A k \in 1..n + 1 : Before(k) = Chain(k)
  <2>1. \A k \in 1..n + 1 : k = 1 \/ k - 1 \in 1..n
    BY <1>2
  <2> QED BY <1>1, <1>4, <2>1 DEF Chain
<1>7. \A k \in 1..n : sent'[k] = After(k)
  <2>1. \A k \in 1..n : k \in 1..n + 1
    BY <1>2
  <2> QED BY <1>4, <1>6, <2>1 DEF ChainInv, Made
<1>8. \A i \in 1..Len(buf) : sent'[n + i] = After(n + i)
  <2> TAKE i \in 1..Len(buf)
  <2>1. buf[i] = BufMade(i)
    BY <1>1 DEF ChainInv, SenderInv
  <2>2. Before(n + i) = IF i = 1 THEN Chain(n + 1) ELSE buf[i - 1]
    <3>1. CASE i = 1
      <4>1. n + 1 \in 1..n + 1
        BY <1>2
      <4> QED BY <1>6, <3>1, <4>1
    <3>2. CASE i # 1
      <4>1. i - 1 \in 1..Len(buf) /\ n + i # 1 /\ n + i - 1 = n + (i - 1)
        BY <1>2, <3>2
      <4> QED BY <1>5, <3>2, <4>1
    <3> QED BY <3>1, <3>2
  <2> QED BY <1>5, <2>1, <2>2 DEF BufMade, ChainInv
<1>9. \A k \in 1..Len(sent') : sent'[k] = Made(k)'
  <2>1. \A k \in 1..n + Len(buf) : k \in 1..n \/ (k - n \in 1..Len(buf) /\ k = n + (k - n))
    BY <1>2
  <2>2. ASSUME NEW k \in 1..n + Len(buf)
        PROVE  sent'[k] = After(k)
    <3> HIDE DEF n, After
    <3>1. CASE k \in 1..n
      BY <1>7, <3>1
    <3>2. CASE k \notin 1..n
      <4>1. k - n \in 1..Len(buf) /\ k = n + (k - n)
        BY <2>1, <3>2
      <4> QED BY <1>8, <4>1
    <3> QED BY <3>1, <3>2
  <2>3. \A k : Made(k)' = After(k)
    BY <1>1 DEF Made, Chain
  <2> HIDE DEF After
  <2> QED BY <1>3, <2>2, <2>3
<1>10. mode = "CBC" => /\ ctx'["sender"].Iv = Before(n + Len(buf) + 1)
                       /\ ctx'["receiver"].Iv = Before(Len(received) + 0 + 1)
  <2> SUFFICES ASSUME mode = "CBC"
               PROVE  /\ ctx'["sender"].Iv = Before(n + Len(buf) + 1)
                      /\ ctx'["receiver"].Iv = Before(Len(received) + 0 + 1)
    OBVIOUS
  <2>1. at = Len(buf)
    BY <1>1 DEF ChainInv, SenderInv
  <2>2. \A side \in Sides : ctx'[side].Iv = IF side = "sender" /\ at # 0 THEN buf[at]
                                             ELSE ctx[side].Iv
    <3>1. CASE at = 0
      BY <1>1, <3>1
    <3>2. CASE at # 0
      BY <1>1, <3>2, IvWritten DEF Sides
    <3> QED BY <3>1, <3>2
  <2>3. ctx'["sender"].Iv = Before(n + Len(buf) + 1)
    <3>1. CASE at = 0
      <4>1. n + Len(buf) + 1 = n + 1 /\ n + 1 \in 1..n + 1
        BY <1>2, <2>1, <3>1
      <4> QED BY <1>6, <2>2, <3>1, <4>1 DEF ChainInv, IvInv, Sides
    <3>2. CASE at # 0
      <4>1. /\ n + Len(buf) + 1 # 1 /\ n + Len(buf) + 1 - 1 = n + Len(buf)
            /\ Len(buf) \in 1..Len(buf)
        BY <1>2, <2>1, <3>2
      <4> QED BY <1>5, <2>1, <2>2, <3>2, <4>1 DEF Sides
    <3> QED BY <3>1, <3>2
  <2>4. ctx'["receiver"].Iv = Before(Len(received) + 0 + 1)
    <3>1. Len(received) + 0 + 1 \in 1..n + 1 /\ running # "receiver"
      BY <1>2
    <3> QED BY <1>6, <2>2, <3>1 DEF ChainInv, IvInv, ReceivedDone, Sides
  <2> QED BY <2>3, <2>4
<1>12. mode = "CTR" => /\ ctx'["sender"].Iv = Count(start)[n + Len(buf) + 0]
                       /\ ctx'["receiver"].Iv = Count(start)[Len(received) + 0]
  <2>1. mode = "CTR" => ctx' = ctx
    BY <1>1 DEF TypeInv, CallFits
  <2>2. n + Len(buf) + 0 = SentDone /\ Len(received) + 0 = ReceivedDone
    BY <1>1, <1>2 DEF SentDone, ReceivedDone
  <2> QED BY <2>1, <2>2 DEF ChainInv, IvInv
<1>13. IvInv'
  BY <1>1, <1>3, <1>10, <1>12 DEF IvInv, Chain, SentDone, ReceivedDone
<1>11. SenderInv' /\ ReceiverInv'
  BY <1>1 DEF SenderInv, ReceiverInv
<1> QED BY <1>1, <1>9, <1>11, <1>13 DEF ChainInv

\* The receiver's call returns: its buffer is appended to what was received.
LEMMA ChainReturnReceiver ==
    ASSUME TypeInv, ChainInv, Return, running = "receiver"
    PROVE  ChainInv'
<1> DEFINE n == Len(received)
<1>1. /\ mode' = mode /\ key' = key /\ start' = start /\ running' = "none"
      /\ received' = received \o buf /\ sent' = sent /\ done = Len(buf) /\ ctx' = ctx
  BY DEF Return, session, TypeInv, CallFits
<1>2. /\ received \in Seq(Blocks) /\ buf \in Seq(Blocks) /\ n \in Nat /\ Len(buf) \in Nat
  BY DEF TypeInv, TypeOK
<1>3. Len(received') = n + Len(buf)
  BY <1>1, <1>2, ConcatProperties
<1>4. \A k \in 1..n + Len(buf) : received'[k] = Message[k]
  <2> TAKE k \in 1..n + Len(buf)
  <2>1. received'[k] = IF k <= n THEN received[k] ELSE buf[k - n]
    BY <1>1, <1>2, ConcatProperties
  <2>2. CASE k <= n
    <3>1. k \in 1..n
      BY <1>2, <2>2
    <3> QED BY <2>1, <2>2, <3>1 DEF ChainInv
  <2>3. CASE ~(k <= n)
    <3>1. k - n \in 1..Len(buf) /\ n + (k - n) = k
      BY <1>2, <2>3
    <3> QED BY <1>1, <2>1, <2>3, <3>1 DEF ChainInv, ReceiverInv
  <2> QED BY <2>2, <2>3
<1>5. n + 1 + Len(buf) = n + Len(buf) + 1 + 0
  BY <1>2
<1>6. IvInv'
  BY <1>1, <1>3, <1>5 DEF ChainInv, IvInv, Chain, SentDone, ReceivedDone
<1>7. SenderInv' /\ ReceiverInv'
  BY <1>1 DEF SenderInv, ReceiverInv
<1> QED BY <1>1, <1>3, <1>4, <1>6, <1>7, SameChain DEF ChainInv

LEMMA ChainNext ==
    ASSUME CipherIsSound, NothingArrived, IvsAssumption, MessageAssumption,
           TypeInv, ChainInv, [Next]_vars
    PROVE  ChainInv'
<1>2. CASE Return
  <2>1. running = "sender" \/ running = "receiver"
    BY <1>2 DEF Return, TypeInv, TypeOK, Sides
  <2> QED BY <1>2, <2>1, ChainReturnSender, ChainReturnReceiver
<1>3. CASE UNCHANGED vars
  BY <1>3 DEF vars, session, call, ChainInv, SenderInv, ReceiverInv, IvInv, Chain,
              Made, BufMade, SentDone, ReceivedDone
<1> QED BY <1>2, <1>3, ChainSetIv, ChainCallEncrypt, ChainCallDecrypt, ChainEcbBlock,
           ChainCbcEncryptBlock, ChainCbcDecryptBlock, ChainCtrBlock DEF Next

\* The receiver gets the message back in every mode, for any sound cipher and
\* however either side splits it into calls (decryption is done in place, and
\* the counter goes on where the call before it stopped).
THEOREM Restored ==
    ASSUME CipherIsSound, NothingArrived
    PROVE  Spec => []DecryptRestores
<1>1. Init => TypeInv /\ ChainInv
  BY TypeInit, ChainInit, CipherIsSound, NothingArrived, IvsAssumption, MessageAssumption,
     LengthAssumption
<1>2. (TypeInv /\ ChainInv) /\ [Next]_vars => (TypeInv /\ ChainInv)'
  BY TypeNext, ChainNext, CipherIsSound, NothingArrived, IvsAssumption, MessageAssumption,
     LengthAssumption
<1>3. TypeInv /\ ChainInv => DecryptRestores
  BY DEF ChainInv, DecryptRestores
<1> QED BY <1>1, <1>2, <1>3, PTL DEF Spec

\* Counting as the standard does is counting.
LEMMA StandardCounts ==
    ASSUME CipherIsSound, CipherOfStandard, start \in Blocks
    PROVE  \A n \in Nat : CounterAfter[n] = Count(start)[n]
<1> DEFINE Def(f) == [n \in Nat |-> IF n = 0 THEN start ELSE StandardNext(f[n - 1])]
           f == [n \in Nat |-> Count(start)[n]]
           r == CounterAfter
<1>1. /\ Count(start)[0] = start
      /\ \A n \in Nat : /\ Count(start)[n] \in Blocks
                        /\ Count(start)[n + 1] = StandardNext(Count(start)[n])
  BY Counts DEF CipherOfStandard
<1>2. f = Def(f)
  <2>1. ASSUME NEW n \in Nat PROVE f[n] = Def(f)[n]
    <3>1. CASE n = 0
      BY <1>1, <3>1
    <3>2. CASE n # 0
      <4>1. n - 1 \in Nat /\ n = (n - 1) + 1
        BY <3>2
      <4> QED BY <1>1, <3>2, <4>1
    <3> QED BY <3>1, <3>2
  <2> QED BY <2>1
<1>3. r = Def(r)
  <2>1. r = CHOOSE g : g = Def(g)
    BY DEF CounterAfter
  <2> HIDE DEF Def, r, f
  <2> QED BY <1>2, <2>1
<1> HIDE DEF r
<1> DEFINE T == {n \in Nat : r[n] = Count(start)[n]}
<1>4. Nat \subseteq T
  <2>1. 0 \in T
    BY <1>1, <1>3
  <2>2. ASSUME NEW n \in Nat, n \in T PROVE n + 1 \in T
    <3>1. n + 1 \in Nat /\ n + 1 # 0 /\ (n + 1) - 1 = n
      OBVIOUS
    <3> QED BY <1>1, <1>3, <2>2, <3>1
  <2> HIDE DEF T
  <2> QED BY <2>1, <2>2, SetInduction
<1> QED BY <1>4 DEF r

\* What the sender's calls return is the standard's, for any cipher that is the
\* standard's, message, mode and split into calls (the Iv is carried from call
\* to call in the context).
THEOREM SentStandard ==
    ASSUME CipherIsSound, CipherOfStandard, NothingArrived
    PROVE  Spec => []SentIsStandard
<1>1. Init => TypeInv /\ ChainInv
  BY TypeInit, ChainInit, CipherIsSound, NothingArrived, IvsAssumption, MessageAssumption,
     LengthAssumption
<1>2. (TypeInv /\ ChainInv) /\ [Next]_vars => (TypeInv /\ ChainInv)'
  BY TypeNext, ChainNext, CipherIsSound, NothingArrived, IvsAssumption, MessageAssumption,
     LengthAssumption
<1>3. TypeInv /\ ChainInv => SentIsStandard
  <2> SUFFICES ASSUME TypeInv, ChainInv, NEW k \in Len(Arrived) + 1..Len(sent)
               PROVE  sent[k] = StandardBlock(k)
    BY DEF SentIsStandard
  <2>1. Len(sent) \in Nat /\ k \in 1..Len(sent) /\ k \in 1..Len(Message) /\ k - 1 \in Nat
    BY MessageAssumption DEF NothingArrived, TypeInv, TypeOK, MessageAssumption
  <2>2. Message[k] \in Blocks /\ start \in Blocks /\ key \in Keys
    BY <2>1, ElementOfSeq, MessageAssumption, IvsAssumption
       DEF MessageAssumption, IvsAssumption, TypeInv, TypeOK
  <2>3. Chain(k) \in Blocks
    <3>1. k # 1 => k - 1 \in 1..Len(sent)
      BY <2>1
    <3> QED BY <2>2, <3>1, ElementOfSeq DEF Chain, TypeInv, TypeOK
  <2>4. sent[k] = Made(k)
    BY <2>1 DEF ChainInv
  <2>5. CASE mode = "ECB"
    BY <2>2, <2>4, <2>5 DEF Made, StandardBlock, CipherOfStandard
  <2>6. CASE mode = "CBC"
    <3>1. XorBlocks(Message[k], Chain(k)) \in Blocks
      BY <2>2, <2>3 DEF CipherIsSound
    <3>2. sent[k] = Standard(key, XorBlocks(Message[k], Chain(k)))
      BY <2>2, <2>4, <2>6, <3>1 DEF Made, CipherOfStandard
    <3> QED BY <2>6, <3>2 DEF StandardBlock, Chain
  <2>7. CASE mode = "CTR"
    <3>1. Count(start)[k - 1] \in Blocks /\ CounterAfter[k - 1] = Count(start)[k - 1]
      BY <2>1, <2>2, Counts, StandardCounts
    <3>2. sent[k] = XorBlocks(Message[k], Standard(key, CounterAfter[k - 1]))
      BY <2>2, <2>4, <2>7, <3>1 DEF Made, CipherOfStandard
    <3> QED BY <2>7, <3>2 DEF StandardBlock
  <2> QED BY <2>5, <2>6, <2>7, ModesAssumption DEF ModesAssumption, TypeInv, TypeOK
<1> QED BY <1>1, <1>2, <1>3, PTL DEF Spec

-----------------------------------------------------------------------------
(* The cipher of aes.c                                                     *)

\* The constants are the blocks and the functions of aes.c, with keys that have
\* the columns the build uses, and the standard's are those of FIPS 197.
TinyAes ==
    /\ Blocks = Block /\ Keys \subseteq CipherKeys
    /\ \A k \in Keys : ExpandKey(k) = KeyExpansion(k)
    /\ \A b \in Block, w \in ExpandedKeys :
            EncryptBlock(b, w) = Cipher(b, w) /\ DecryptBlock(b, w) = InvCipher(b, w)
    /\ \A a, b \in Block : XorBlocks(a, b) = XorWithIv(a, b)
    /\ \A b \in Block : NextCounter(b) = IncrementIv(b) /\ StandardNext(b) = StdNext(b)
    /\ \A k \in Keys, b \in Block : Standard(k, b) = StdCipher(SubSeq(k, 1, Nk), Nk, b)

\* The cipher of aes.c can be undone, and is the standard's.
LEMMA TinyAesIsSound ==
    ASSUME TinyAes
    PROVE  CipherIsSound /\ CipherOfStandard
<1>1. ASSUME NEW k \in Keys, NEW b \in Blocks
      PROVE  /\ Encrypted(k, b) \in Blocks
             /\ DecryptBlock(b, ExpandKey(k)) \in Blocks
             /\ DecryptBlock(Encrypted(k, b), ExpandKey(k)) = b
             /\ Encrypted(k, b) = Standard(k, b)
  <2>1. k \in CipherKeys /\ b \in Block /\ KeyExpansion(k) \in ExpandedKeys
    BY KeysExpanded DEF TinyAes
  <2>2. /\ Encrypted(k, b) = Cipher(b, KeyExpansion(k))
        /\ DecryptBlock(b, ExpandKey(k)) = InvCipher(b, KeyExpansion(k))
        /\ DecryptBlock(Encrypted(k, b), ExpandKey(k))
            = InvCipher(Cipher(b, KeyExpansion(k)), KeyExpansion(k))
        /\ Standard(k, b) = StdCipher(SubSeq(k, 1, Nk), Nk, b)
    BY <2>1, CipherType DEF TinyAes, Encrypted
  <2> QED BY <2>1, <2>2, CipherType, InvCipherType, BlockRestored, CipherIsStandard DEF TinyAes
<1>2. \A a, b \in Blocks : XorBlocks(a, b) \in Blocks /\ XorBlocks(XorBlocks(a, b), b) = a
  BY XorBlockLaws DEF TinyAes
<1>3. \A b \in Blocks : NextCounter(b) \in Blocks /\ NextCounter(b) = StandardNext(b)
  BY CounterIsStandard DEF TinyAes
<1> QED BY <1>1, <1>2, <1>3 DEF CipherIsSound, CipherOfStandard

\* What tinyAES encrypts is the standard's ECB, CBC or CTR of the message, and
\* what it decrypts is the message, for every key, message, first Iv, build and
\* split into calls.
THEOREM TinyAesCorrect ==
    ASSUME TinyAes, NothingArrived
    PROVE  Spec => [](TypeOK /\ SentIsStandard /\ DecryptRestores)
<1>1. CipherIsSound /\ CipherOfStandard
  BY TinyAesIsSound
<1> QED BY <1>1, TypeCorrect, SentStandard, Restored, PTL
=============================================================================
