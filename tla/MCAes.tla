------------------------------- MODULE MCAes -------------------------------
(***************************************************************************)
(* The modes with the cipher of aes.c, the firmware's key and Iv, and the  *)
(* four blocks of its test vector as the message.  Another Iv makes the    *)
(* counter carry over several bytes.  The standard's cipher has the key    *)
(* length of the build.                                                    *)
(***************************************************************************)
EXTENDS AesModes, FismosAes, AesTables

MCBlocks  == Block
MCKeys    == {key256}
MCIvs     == {iv0, << <<0, 0, 0, 0>>, <<0, 0, 0, 254>>, <<255, 255, 255, 255>>,
                      <<255, 255, 255, 255>> >>}
MCModes   == {"ECB", "CBC", "CTR"}
MCStandard(k, b) == StdCipher(SubSeq(k, 1, Nk), Nk, b)
NothingArrived   == <<>>
BramArrived      == in(bram_in)
FirmwareIv       == {iv0}
FirmwareMode     == {"CBC"}
=============================================================================
