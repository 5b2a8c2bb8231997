------------------------------ MODULE Checksum ------------------------------
(***************************************************************************)
(* The checksums of the two programs, as functions of the sum S of the     *)
(* bytes.  A packet has at most 255 bytes, so S fits the uint16_t of the C *)
(* code.  The C code (packet.c) folds the high byte of the sum into the    *)
(* low byte once; the Rust code (protocol.rs) drops the high byte.         *)
(***************************************************************************)
EXTENDS Integers

\* Sums of the other bytes of a packet, its checksum byte being zero.
Sums == {S \in Nat : S <= 254 * 255}

Fold(S) == (S % 256) + (S \div 256)

\* Mutation of the next: the complement is not cut to a byte.
CChecksumWide(S) == 255 - Fold(S)

\* compute_checksum(): ~ of the fold, cut to a byte; is_checksum_valid().
CChecksum(S) == 255 - (Fold(S) % 256)
CValid(S)    == Fold(S) = 255

\* RaniHeader::checksum() and verify_checksum().
RChecksum(S) == 255 - (S % 256)
RValid(S)    == (S % 256) = 255
=============================================================================
