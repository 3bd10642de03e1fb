-------------------------- MODULE FismosRegisters --------------------------
(***************************************************************************)
(* The register conventions shared by the firmware on the PicoRV32 and by  *)
(* the programs on the Linux side: 32-bit words, the values of the control *)
(* (instruction) and the status (return) register, the modes the firmware  *)
(* implements, and how many words of the exchange buffer each mode uses.   *)
(*                                                                         *)
(* A 32-bit word is the pair <<upper half, lower half>>.                   *)
(***************************************************************************)
EXTENDS Naturals

CONSTANT Half       \* half the depth of an exchange buffer; 8 in the code

ASSUME HalfAssumption == Half \in Nat \ {0}

HalfWord == 0 .. 65535
Word == HalfWord \X HalfWord
High(w) == w[1]
Low(w)  == w[2]

\* Bit 24 of a word is bit 8 of its upper half.
Bit24(w) == (High(w) \div 256) % 2 = 1

-----------------------------------------------------------------------------
(* Modes.  The lower half of the control register selects one.             *)

AES        == 1     \* FISMOS_AES256_decrypt_CBC
HMAC       == 3     \* FISMOS_run_hmac_on_input_data
COMPARE    == 4     \* FISMOS_run_hmac_compare_on_input_data
RSA        == 5     \* FISMOS_rsa_sign_on_input_data
KEYSTORAGE == 15    \* FISMOS_keystorage

Modes == {AES, HMAC, COMPARE, RSA, KEYSTORAGE}

\* Words of the exchange buffers, and those a mode reads and writes.
Idx == 0 .. 2 * Half - 1
InLen(m)  == IF m \in {HMAC, RSA} THEN Half ELSE 2 * Half
OutLen(m) == IF m = COMPARE THEN 1
             ELSE IF m \in {HMAC, RSA} THEN Half ELSE 2 * Half

-----------------------------------------------------------------------------
(* Values the firmware stores in the status register.  The compare mode    *)
(* reports itself with the number of the compute mode.                     *)

StatusMode(m) == IF m = COMPARE THEN HMAC ELSE m

PowerUp    == <<0, 0>>
Accepted   == <<0, 65535>>
IrqReset   == <<255, 65535>>
Working(m) == <<15, StatusMode(m)>>
Done(m)    == <<255, StatusMode(m)>>

DoneWords == {Done(m) : m \in Modes}
StatusWords ==
    {PowerUp, Accepted, IrqReset} \union {Working(m) : m \in Modes} \union DoneWords
=============================================================================
