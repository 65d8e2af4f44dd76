--------------------------- MODULE SectorRoundTrip --------------------------
(***************************************************************************)
(* One sector through the transform of src/src/cipher.rs: encrypted for    *)
(* the address it has on the target, decrypted later for that address or,  *)
(* by a mistake of a caller, for another one.                              *)
(***************************************************************************)
EXTENDS SectorCipher

VARIABLES
  pc,    \* "clear", "sealed" or "read"
  clear, \* the sector before encryption
  lba,   \* the address it is encrypted for
  raw,   \* what encrypt_sector leaves in the block
  from,  \* the address it is decrypted for
  out    \* what decrypt_sector leaves in the block

vars == <<pc, clear, lba, raw, from, out>>

(* An LBA is a u64, as a word is. *)
Lba == Word

Init ==
  /\ pc = "clear"
  /\ clear \in Sector
  /\ lba \in Lba
  /\ raw = clear
  /\ from = lba
  /\ out = clear

Encrypt ==
  /\ pc = "clear"
  /\ pc' = "sealed"
  /\ raw' = EncryptSector(lba, clear)
  /\ UNCHANGED <<clear, lba, from, out>>

Decrypt(address) ==
  /\ pc = "sealed"
  /\ pc' = "read"
  /\ from' = address
  /\ out' = DecryptSector(address, raw)
  /\ UNCHANGED <<clear, lba, raw>>

Next == Encrypt \/ \E address \in Lba : Decrypt(address)

Spec == Init /\ [][Next]_vars

-----------------------------------------------------------------------------
(* Decryption for the same address gives the sector back: the two passes   *)
(* are undone in the opposite order, whatever the key and however the      *)
(* addition of the address wraps (decrypt_sector, cipher.rs:127).          *)
RoundTrip == pc = "read" /\ from = lba => out = clear

(* Decryption for another address recovers no word of the sector, although *)
(* the keys of neighbouring sectors overlap word for word (the contract of *)
(* encrypt_sector, cipher.rs:115).                                         *)
WrongLbaRecoversNothing ==
  pc = "read" /\ from # lba => \A i \in WordIdx : out[i] # clear[i]

(* Two equal sectors at different addresses have different ciphertexts     *)
(* (the contract of xor_walk, cipher.rs:91).                               *)
EqualSectorsDiffer ==
  pc = "sealed" => \A l \in Lba \ {lba} : EncryptSector(l, clear) # raw
=============================================================================
