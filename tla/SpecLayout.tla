----------------------------- MODULE SpecLayout -----------------------------
(***************************************************************************)
(* The memory image through which the Go side hands a parsed spec to the   *)
(* BPF side.  SpecToBytes copies the bytes of a Go struct (types.go) into  *)
(* the map and bpf_usdt_arg reads them as a C struct (ebpf/usdt_defs.h):   *)
(* two declarations, each laid out by its own compiler, and two lists of   *)
(* constants that have to agree.  Usdt_cookie is never set nor read.       *)
(***************************************************************************)
EXTENDS Integers, Sequences, FiniteSetsExt, Functions

CONSTANTS
  Base,     \* values of a byte of val_off, scaled down from 256
  MaxArgs   \* BPF_USDT_MAX_ARG_CNT, the array length in types.go and args.go

\* The count of arguments is an int16.
ASSUME ArgBounds == Base \in Nat \ {0, 1} /\ MaxArgs \in Nat /\ 2 * MaxArgs < 256^2

-----------------------------------------------------------------------------
(***************************************************************************)
(* Declarations.  A field has a name, a size and an alignment.             *)
(***************************************************************************)
Field(name, size, align) == [name |-> name, size |-> size, align |-> align]

\* Mutant of GoArgSpec: generated before reg_id and arg_signed changed places.
GoArgSpecStale ==
  << Field("val_off", 8, 8), Field("arg_type", 4, 4), Field("arg_signed", 1, 1),
     Field("reg_id", 1, 1), Field("arg_bitshift", 1, 1), Field("arg_is_float", 1, 1),
     Field("X_pad", 1, 1), Field("Pad_cgo_0", 7, 1) >>

GoArgSpec ==
  << Field("val_off", 8, 8), Field("arg_type", 4, 4), Field("reg_id", 1, 1),
     Field("arg_signed", 1, 1), Field("arg_bitshift", 1, 1), Field("arg_is_float", 1, 1),
     Field("X_pad", 1, 1), Field("Pad_cgo_0", 7, 1) >>

CArgSpec ==
  << Field("val_off", 8, 8), Field("arg_type", 4, 4), Field("reg_id", 1, 1),
     Field("arg_signed", 1, 1), Field("arg_bitshift", 1, 1), Field("arg_is_float", 1, 1),
     Field("_pad", 1, 1) >>

\* Both compilers place fields in order, each at the next multiple of its
\* alignment, and pad a struct to a multiple of its largest alignment.
AlignUp(n, a) == ((n + a - 1) \div a) * a

Offset(struct, name) ==
  LET end[i \in 0..Len(struct)] ==
        IF i = 0 THEN 0 ELSE AlignUp(end[i - 1], struct[i].align) + struct[i].size
      i == CHOOSE k \in DOMAIN struct : struct[k].name = name
  IN  AlignUp(end[i - 1], struct[i].align)

AlignOf(struct) == Max({f.align : f \in Range(struct)})

SizeOf(struct) ==
  LET last == struct[Len(struct)]
  IN  AlignUp(Offset(struct, last.name) + last.size, AlignOf(struct))

\* struct Spec and struct bpf_usdt_spec around their array of arguments.
SpecOf(argSpec) ==
  << Field("args", MaxArgs * SizeOf(argSpec), AlignOf(argSpec)), Field("usdt_cookie", 8, 8),
     Field("arg_cnt", 2, 2), Field("X_pad", 6, 1) >>

Layout(argSpec) ==
  [field |-> [f \in {g.name : g \in Range(argSpec)} |-> Offset(argSpec, f)],
   stride |-> SizeOf(argSpec), cnt |-> Offset(SpecOf(argSpec), "arg_cnt"),
   size |-> SizeOf(SpecOf(argSpec))]

GoLayout == Layout(GoArgSpec)
CLayout == Layout(CArgSpec)

\* Where a field of argument n, counted from 0, is.
At(layout, n, name) == n * layout.stride + layout.field[name]

-----------------------------------------------------------------------------
(***************************************************************************)
(* Constants.  The registers of an architecture have consecutive IDs in    *)
(* both lists, in the order of the name tables in args.go.                 *)
(***************************************************************************)
GoArgType == [const |-> 0, reg |-> 1, deref |-> 2]
CArgType == [const |-> 0, reg |-> 1, deref |-> 2]

GoFirstReg == [amd64 |-> 1, arm64 |-> 32]
CFirstReg == [amd64 |-> 1, arm64 |-> 32]
RegNone == 0

-----------------------------------------------------------------------------
(***************************************************************************)
(* Bytes.  Little-endian, two's complement; a byte of val_off has Base     *)
(* values, every other byte has 256.                                       *)
(***************************************************************************)
Radix(name) == IF name = "val_off" THEN Base ELSE 256

Bool(b) == IF b THEN 1 ELSE 0

\* The value of each field of an argument as an unsigned number.
Encoded(a) ==
  [val_off |-> a.val_off, arg_type |-> a.type, reg_id |-> a.reg, arg_signed |-> Bool(a.signed),
   arg_bitshift |-> a.bitshift % 256, arg_is_float |-> Bool(a.float)]

Digit(v, k, radix) == (v \div radix^k) % radix

\* The places and the values of the bytes that hold argument n, counted from 1.
ArgBytes(n, a) ==
  UNION {{<<At(GoLayout, n - 1, f.name) + k, Digit(Encoded(a)[f.name], k, Radix(f.name))>>
          : k \in 0..(f.size - 1)}
         : f \in {g \in Range(GoArgSpec) : g.name \in DOMAIN Encoded(a)}}

CntBytes(cnt) == {<<GoLayout.cnt + k, Digit(cnt, k, 256)>> : k \in 0..1}

\* The bytes of the Go struct: those of the arguments and of the count, and zeroes
\* for the arguments that were not assigned and for the padding.
SpecToBytes(arguments, cnt) ==
  LET written == CntBytes(cnt) \cup UNION {ArgBytes(n, arguments[n]) : n \in DOMAIN arguments}
  IN  [o \in 0..(GoLayout.size - 1) |->
         IF \E w \in written : w[1] = o THEN (CHOOSE w \in written : w[1] = o)[2] ELSE 0]

\* The number with these digits, the lowest first.
ValueOf(digits, n, radix) == MapThenSumSet(LAMBDA k : digits[k] * radix^k, 0..(n - 1))

\* Reads through the C struct.
Load(bytes, at, size, radix) ==
  ValueOf([k \in 0..(size - 1) |-> bytes[at + k]], size, radix)

LoadSigned(bytes, at, size) ==
  LET u == Load(bytes, at, size, 256) IN IF 2 * u < 256^size THEN u ELSE u - 256^size

\* &spec->args[n] with its fields read into local variables, and spec->arg_cnt.
ReadArg(bytes, n) ==
  [type     |-> Load(bytes, At(CLayout, n, "arg_type"), 4, 256),
   val_off  |-> Load(bytes, At(CLayout, n, "val_off"), 8, Base),
   reg      |-> Load(bytes, At(CLayout, n, "reg_id"), 1, 256),
   signed   |-> Load(bytes, At(CLayout, n, "arg_signed"), 1, 256) # 0,
   bitshift |-> LoadSigned(bytes, At(CLayout, n, "arg_bitshift"), 1)]

ReadCnt(bytes) == LoadSigned(bytes, CLayout.cnt, 2)

-----------------------------------------------------------------------------
\* The laws of exponentiation that the proofs about bytes start from.
PowersOf(b, n) == b^0 = 1 /\ \A k \in 0..(n - 1) : b^(k + 1) = b * b^k
=============================================================================
