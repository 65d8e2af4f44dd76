----------------------------- MODULE SectorProofs ---------------------------
(***************************************************************************)
(* What SectorRoundTrip promises of a sector holds for every sector, pair  *)
(* of addresses, key and width of a word.                                  *)
(***************************************************************************)
EXTENDS SectorRoundTrip, SectorLemmas

(* What holds in every reachable state: the block holds what the calls     *)
(* made so far leave in it.                                                *)
IInv ==
  /\ clear \in Sector /\ lba \in Lba /\ from \in Lba
  /\ pc \in {"sealed", "read"} => raw = EncryptSector(lba, clear)
  /\ pc = "read" => out = DecryptSector(from, raw)

(* The block always holds what the calls made so far leave in it.          *)
THEOREM Calls == Spec => []IInv
<1>1. Init => IInv
  BY DEF Init, IInv
<1>2. IInv /\ [Next]_vars => IInv'
  <2> SUFFICES ASSUME IInv, [Next]_vars PROVE IInv'
    OBVIOUS
  <2>1. CASE Encrypt
    BY <2>1 DEF IInv, Encrypt
  <2>2. ASSUME NEW address \in Lba, Decrypt(address) PROVE IInv'
    BY <2>2 DEF IInv, Decrypt
  <2>3. CASE UNCHANGED vars
    BY <2>3 DEF IInv, vars
  <2> QED
    BY <2>1, <2>2, <2>3 DEF Next
<1> QED
  BY <1>1, <1>2, PTL DEF Spec

(* Decryption for the address of the encryption always gives the sector    *)
(* back (decrypt_sector, cipher.rs:127).                                   *)
THEOREM SectorsRoundTrip == Spec => []RoundTrip
<1>1. IInv => RoundTrip
  <2> SUFFICES ASSUME IInv, pc = "read", from = lba PROVE out = clear
    BY DEF RoundTrip
  <2>1. lba \in Nat
    BY WordAssumption DEF IInv, Lba, Word
  <2> QED
    BY <2>1, DecryptInvertsEncrypt DEF IInv
<1> QED
  BY <1>1, Calls, PTL

(* Decryption for another address recovers no word of it (encrypt_sector,  *)
(* cipher.rs:115).                                                         *)
THEOREM WrongAddress == Spec => []WrongLbaRecoversNothing
<1>1. IInv => WrongLbaRecoversNothing
  <2> SUFFICES ASSUME IInv, pc = "read", from # lba, NEW i \in WordIdx
               PROVE  out[i] # clear[i]
    BY DEF WrongLbaRecoversNothing
  <2>1. lba \in Nat
    BY WordAssumption DEF IInv, Lba, Word
  <2>2. raw \in Sector /\ DecryptSector(lba, raw) = clear
    BY <2>1, TransformType, DecryptInvertsEncrypt DEF IInv
  <2>3. DecryptSector(from, raw)[i] # DecryptSector(lba, raw)[i]
    BY <2>2, DifferentAddress DEF IInv, Lba
  <2> QED
    BY <2>2, <2>3 DEF IInv
<1> QED
  BY <1>1, Calls, PTL

(* Equal sectors at different addresses never look the same on the target  *)
(* (xor_walk, cipher.rs:91).                                               *)
THEOREM EqualSectors == Spec => []EqualSectorsDiffer
<1>1. IInv => EqualSectorsDiffer
  <2> SUFFICES ASSUME IInv, pc = "sealed", NEW l \in Lba \ {lba}
               PROVE  EncryptSector(l, clear) # raw
    BY DEF EqualSectorsDiffer
  <2>1. 0 \in WordIdx
    BY WordAssumption DEF WordIdx
  <2>2. EncryptSector(l, clear)[0] # EncryptSector(lba, clear)[0]
    BY <2>1, DifferentAddress DEF IInv, Lba
  <2> QED
    BY <2>2 DEF IInv
<1> QED
  BY <1>1, Calls, PTL
=============================================================================
