---------------------------- MODULE SectorCipher ----------------------------
(***************************************************************************)
(* The sector transform of src/src/cipher.rs.  A sector is a sequence of   *)
(* machine words, indexed from 0.  Both passes of the transform are an     *)
(* exclusive-or with a stream of words: the AES-CTR stream, which restarts *)
(* at every sector because `BlockCipher` builds a fresh cipher from the    *)
(* same key and counter each time, and the walk of `xor_walk`, which       *)
(* depends on the logical block address.                                   *)
(***************************************************************************)
EXTENDS Integers

CONSTANTS
  WordMod,         \* number of values of a word; 2^64 in the code
  WordsPerSector,  \* words in a sector; 512 / 8 in the code
  XorKey,          \* the third value derived from the password
  Keystream,       \* the AES-CTR stream, word by word
  WordXor(_, _)    \* exclusive-or of two words

Word    == 0 .. WordMod - 1
WordIdx == 0 .. WordsPerSector - 1
Sector  == [WordIdx -> Word]

ASSUME WordAssumption ==
  /\ WordMod \in Nat \ {0, 1}
  /\ WordsPerSector \in 1 .. WordMod
  /\ XorKey \in Word
  /\ Keystream \in Sector

(* What the exclusive-or of fixed-width words satisfies. *)
ASSUME XorAssumption ==
  /\ \A a, b \in Word : WordXor(a, b) \in Word
  /\ \A a, b, c \in Word : WordXor(WordXor(a, b), c) = WordXor(a, WordXor(b, c))
  /\ \A a \in Word : WordXor(a, a) = 0 /\ WordXor(a, 0) = a /\ WordXor(0, a) = a

(* Mutant: the address left out. *)
WalkKeyNoLba(lba, i) == (XorKey + i) % WordMod

(* Mutant: two neighbouring addresses share a key. *)
WalkKeyHalved(lba, i) == (((XorKey + lba \div 2) % WordMod) + i) % WordMod

(* The word that `xor_walk` folds into word i of the sector at lba: two    *)
(* wrapping additions on the derived key.                                  *)
WalkKey(lba, i) == (((XorKey + lba) % WordMod) + i) % WordMod

XorWalk(lba, block) == [i \in WordIdx |-> WordXor(block[i], WalkKey(lba, i))]

ApplyKeystream(block) == [i \in WordIdx |-> WordXor(block[i], Keystream[i])]

EncryptSector(lba, block) == XorWalk(lba, ApplyKeystream(block))

(* Mutant: decryption with addresses counted from one. *)
DecryptSectorFromOne(lba, block) == ApplyKeystream(XorWalk(lba + 1, block))

DecryptSector(lba, block) == ApplyKeystream(XorWalk(lba, block))
=============================================================================
