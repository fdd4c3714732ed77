------------------------------ MODULE Package ------------------------------
(***************************************************************************)
(* Packages, shared/src/shared_package.c: a type and a buffer of bytes,    *)
(* into which values and other packages are put one after another.  All    *)
(* integers travel as little-endian bytes, of two widths.                  *)
(***************************************************************************)
EXTENDS Integers, Sequences, SequencesExt

CONSTANTS
  ByteValues,   \* 256
  IntBytes,     \* sizeof(int32_t)
  LongBytes     \* sizeof(uint64_t)

ASSUME WidthsAssumption ==
  ByteValues \in Nat \ {0, 1} /\ IntBytes \in Nat \ {0} /\ LongBytes \in Nat \ {0}

SERIALIZED == 0

(* An integer of some width, and what its bytes say.                       *)
Bytes(n, width) ==
  [k \in 1 .. width |-> (n \div ByteValues ^ (k - 1)) % ByteValues]
Unsigned(bytes) == FoldRight(LAMBDA byte, rest : byte + ByteValues * rest, bytes, 0)
Signed(bytes) ==
  LET n == Unsigned(bytes)
      range == ByteValues ^ Len(bytes) IN
  IF 2 * n < range THEN n ELSE n - range

-----------------------------------------------------------------------------
PackageNew(type) == [type |-> type, buffer |-> <<>>]

(* package_close: size, type and content become the content of a package   *)
(* of type SERIALIZED.  Fault: the type is not written.                    *)
ClosedWithoutType(package) ==
  [type |-> SERIALIZED, buffer |-> Bytes(Len(package.buffer), LongBytes) \o package.buffer]
PackageClose(package) ==
  [type |-> SERIALIZED,
   buffer |-> Bytes(Len(package.buffer), LongBytes) \o Bytes(package.type, IntBytes)
                \o package.buffer]

PackageNest(package, nested) ==
  [package EXCEPT !.buffer = @ \o PackageClose(nested).buffer]
PackageNewNested(key, value) == PackageNest(PackageNew(key), value)

PackageAdd(package, value) ==
  [package EXCEPT !.buffer = @ \o Bytes(Len(value), LongBytes) \o value]
PackageNewDict(key, value) == PackageAdd(PackageNew(key), value)

(* A text is the bytes before its NUL, which travels with it.              *)
PackageWrite(package, text) == PackageAdd(package, Append(text, 0))

-----------------------------------------------------------------------------
(* n bytes of a buffer; nothing stops a reader at the end of the buffer,   *)
(* where zeros stand for whatever comes after it.                          *)
BytesAt(buffer, offset, n) ==
  [k \in 1 .. n |-> IF offset + k <= Len(buffer) THEN buffer[offset + k] ELSE 0]

(* What is decoded at an offset, and the offset after it.                  *)
PackageDecode(buffer, offset) ==
  LET size  == Unsigned(BytesAt(buffer, offset, LongBytes))
      start == offset + LongBytes + IntBytes IN
  [ value  |-> [type   |-> Signed(BytesAt(buffer, offset + LongBytes, IntBytes)),
                buffer |-> BytesAt(buffer, start, size)],
    offset |-> start + size ]

(* package_decode_buffer, and package_decode_string with its NUL.          *)
PackageDecodeBuffer(buffer, offset) ==
  LET size  == Unsigned(BytesAt(buffer, offset, LongBytes))
      start == offset + LongBytes IN
  [value |-> BytesAt(buffer, start, size), offset |-> start + size]

CString(bytes) ==
  SubSeq(bytes, 1, SelectInSeq(Append(bytes, 0), LAMBDA byte : byte = 0) - 1)

(* The loops over package_decode_isset: everything in a package.           *)
PackageDecodeIsset(package, offset) == offset < Len(package.buffer)

RECURSIVE PackagesFrom(_, _)
PackagesFrom(package, offset) ==
  IF ~PackageDecodeIsset(package, offset) THEN <<>>
  ELSE LET next == PackageDecode(package.buffer, offset) IN
       <<next.value>> \o PackagesFrom(package, next.offset)

RECURSIVE BuffersFrom(_, _)
BuffersFrom(package, offset) ==
  IF ~PackageDecodeIsset(package, offset) THEN <<>>
  ELSE LET next == PackageDecodeBuffer(package.buffer, offset) IN
       <<next.value>> \o BuffersFrom(package, next.offset)
=============================================================================
