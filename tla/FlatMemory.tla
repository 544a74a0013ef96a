------------------------------ MODULE FlatMemory ------------------------------
(***************************************************************************)
(* What the accessors of src/struct-funcs.c promise: a metadata block is   *)
(* one contiguous array of Len bytes; a set of a W-byte value at offset    *)
(* off stores it little-endian in bytes off..off+W-1, and a get returns    *)
(* the value those bytes encode.  Bytes range over 0..ByteBase-1.  'call'  *)
(* is the accessor call last made: its width, offset and the value set or  *)
(* returned.                                                               *)
(***************************************************************************)
EXTENDS Naturals

CONSTANTS Len, Widths, ByteBase

VARIABLES mem, call

Byte == 0..ByteBase - 1
Offsets == 0..Len - 1

(* Values a W-byte field can hold.                                         *)
Values(w) == 0..ByteBase^w - 1

(* The k-th little-endian byte of v.                                       *)
LeByte(v, k) == (v \div ByteBase^k) % ByteBase

(* The value bytes off..off+w-1 of m encode, least significant first.      *)
RECURSIVE LeValue(_, _, _)
LeValue(m, off, w) ==
  IF w = 0 THEN 0 ELSE m[off] + ByteBase * LeValue(m, off + 1, w - 1)

Call(fn, w, off, v) == [fn |-> fn, w |-> w, mo |-> off, val |-> v]

Init ==
  /\ mem \in [Offsets -> Byte]
  /\ call = Call("none", 0, 0, 0)

Write(w, off, v) ==
  /\ call' = Call("set", w, off, v)
  /\ mem' = [o \in Offsets |->
               IF o >= off /\ o < off + w THEN LeByte(v, o - off) ELSE mem[o]]

Read(w, off) ==
  /\ call' = Call("get", w, off, LeValue(mem, off, w))
  /\ UNCHANGED mem

Next ==
  \E w \in Widths, off \in 0..Len - 1 :
    /\ off + w <= Len
    /\ \/ \E v \in Values(w) : Write(w, off, v)
       \/ Read(w, off)

Spec == Init /\ [][Next]_<<mem, call>>
=============================================================================
