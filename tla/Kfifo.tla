--------------------------------- MODULE Kfifo ---------------------------------
(***************************************************************************)
(* skl/kfifo.hpp: the lock-free byte ring with one writer (__kfifo_put)    *)
(* and one reader (__kfifo_get), its allocation, and the class Fifo, whose *)
(* push and pop put and get sizeof(T) bytes.                               *)
(*                                                                         *)
(* Each side's call is cut where the other side can see it: reading the    *)
(* other's index, the two copies, the store of its own index.  The copies  *)
(* go through unsigned char pointers, which may alias the struct, so the   *)
(* compiler keeps them before the store of the index, and x86 keeps stores *)
(* in order.                                                               *)
(*                                                                         *)
(* A byte is represented by its place in the stream: the n-th byte the     *)
(* writer has put since the last reset is n.  Garbage stands for a byte    *)
(* that nobody put.                                                        *)
(*                                                                         *)
(* Operators whose names end in _Bug are not part of the specification:    *)
(* each is a plausible mistake in the definition that follows it.          *)
(***************************************************************************)
EXTENDS Integers, Sequences

CONSTANTS
  IndexBits,    \* width of unsigned int (32 in the code)
  Asks,         \* sizes that kfifo_alloc may be asked for
  Wants,        \* lengths that put and get may be called with; {sizeof(T)} in Fifo
  ReadsTwice,   \* the build evaluates both copies of a macro argument
  MaxBytes      \* bound: bytes put between two resets

\* 1 shifted to the left by k, without regard to the width.
power[k \in Nat] == IF k = 0 THEN 1 ELSE 2 * power[k - 1]

IndexMod == power[IndexBits]

ASSUME WidthAssumption == IndexBits \in Nat \ {0}
ASSUME LengthsAssumption ==
  /\ Asks \subseteq 1..(IndexMod - 1)
  /\ Wants \subseteq Nat \ {0}
  /\ MaxBytes \in Nat
ASSUME BuildAssumption == ReadsTwice \in BOOLEAN

Garbage == 0
NoSize  == 0

VARIABLES
  fifo,    \* "new", "ready", "null" (out of memory) or "freed"
  asked,   \* what kfifo_alloc was asked for
  size,    \* fifo->size
  in,      \* fifo->in
  out,     \* fifo->out
  buf,     \* fifo->buffer
  \* __kfifo_put
  wpc, wwant, wlen,
  \* __kfifo_get
  rpc, rwant, rlen,
  dest,    \* what the get under way has copied
  \* History.
  sent,    \* bytes put since the last reset
  got,     \* bytes got since the last reset
  last     \* what the last get handed over

ring    == <<fifo, asked, size>>
writer  == <<wpc, wwant, wlen>>
reader  == <<rpc, rwant, rlen, dest>>
history == <<sent, got, last>>
vars    == <<fifo, asked, size, in, out, buf, wpc, wwant, wlen,
             rpc, rwant, rlen, dest, sent, got, last>>

Init ==
  /\ fifo = "new"
  /\ asked = NoSize
  /\ size = NoSize
  /\ in = 0 /\ out = 0
  /\ buf = <<>>
  /\ wpc = "idle" /\ wwant = 0 /\ wlen = 0
  /\ rpc = "idle" /\ rwant = 0 /\ rlen = 0 /\ dest = <<>>
  /\ sent = 0 /\ got = 0 /\ last = <<>>

--------------------------------------------------------------------------------
(* kfifo_alloc and kfifo_free.                                             *)

\* The position of the highest bit that is set, counted from one.
highest_bit[n \in Nat] ==
  IF n = 0 THEN 0 ELSE 1 + highest_bit[n \div 2]

\* Rounds down to a power of two.
roundup_pow_of_two_Bug(n) == {power[highest_bit[n] - 1]}

\* 1UL << highest_bit(n - 1).  A shift by the full width is undefined: the
\* processor shifts by zero, a compiler that folds it may yield zero.
roundup_pow_of_two(n) ==
  LET shift == highest_bit[n - 1]
  IN  IF shift < IndexBits THEN {power[shift]} ELSE {0, 1}

IsPowerOfTwo(n) == \E k \in 0..IndexBits : n = power[k]

\* `size & (size - 1)' is zero for the powers of two.
Rounded(n) == IF IsPowerOfTwo(n) THEN {n} ELSE roundup_pow_of_two(n)

Quiet == wpc = "idle" /\ rpc = "idle"

Alloc(n) ==
  /\ fifo = "new"
  /\ asked' = n
  /\ size' \in Rounded(n)
  /\ fifo' = "ready"
  /\ in' = 0 /\ out' = 0
  /\ buf' = [i \in 0..(size' - 1) |-> Garbage]
  /\ UNCHANGED <<writer, reader, history>>

\* Without memory for the bytes or for the struct there is no FIFO, and push
\* and pop of Fifo return false.
AllocFails(n) ==
  /\ fifo = "new"
  /\ asked' = n
  /\ fifo' = "null"
  /\ UNCHANGED <<size, in, out, buf, writer, reader, history>>

Free ==
  /\ fifo = "ready"
  /\ Quiet
  /\ fifo' = "freed"
  /\ UNCHANGED <<asked, size, in, out, buf, writer, reader, history>>

\* __kfifo_reset has no lock of any kind, so neither side may be at work.
Reset ==
  /\ fifo = "ready"
  /\ Quiet
  /\ in' = 0 /\ out' = 0
  /\ sent' = 0 /\ got' = 0
  /\ UNCHANGED <<ring, buf, writer, reader, last>>

--------------------------------------------------------------------------------
(* The arithmetic of the indices.                                          *)

Sub(a, b) == (a - b) % IndexMod
Least(a, b) == IF a < b THEN a ELSE b

\* `index & (fifo->size - 1)'
Offset(i) == IF size = 0 THEN i ELSE i % size

\* size - in + out, and in - out, in unsigned arithmetic.
Space_Bug == Sub(size + out + 1, in)

Space  == Sub(size + out, in)
Length == Sub(in, out)

--------------------------------------------------------------------------------
(* __kfifo_put.                                                            *)

PutCall(n) ==
  /\ fifo = "ready"
  /\ wpc = "idle"
  /\ sent + n <= MaxBytes
  /\ wwant' = n
  /\ wpc' = "min"
  /\ UNCHANGED <<ring, in, out, buf, wlen, reader, history>>

\* The last free byte is never used.
PutMin_KeepOneBug ==
  /\ wpc = "min"
  /\ wlen' = Least(wwant, IF Space = 0 THEN 0 ELSE Space - 1)
  /\ wpc' = "copy"
  /\ UNCHANGED <<ring, in, out, buf, wwant, reader, history>>

\* min(len, space): the macro compares with one evaluation of the space and
\* returns another, which the optimiser may merge with the first.
PutMin ==
  /\ wpc = "min"
  /\ IF ReadsTwice /\ wwant >= Space
     THEN wpc' = "min2" /\ UNCHANGED wlen
     ELSE wpc' = "copy" /\ wlen' = Least(wwant, Space)
  /\ UNCHANGED <<ring, in, out, buf, wwant, reader, history>>

PutMinAgain ==
  /\ wpc = "min2"
  /\ wlen' = Space
  /\ wpc' = "copy"
  /\ UNCHANGED <<ring, in, out, buf, wwant, reader, history>>

\* The i-th byte of the caller's buffer, which holds wwant bytes.
Source(i) == IF i <= wwant THEN sent + i ELSE Garbage

\* Bytes up to the end of the buffer; the rest goes to its beginning.
PutSplit == Least(wlen, size - Offset(in))

PutFirst ==
  /\ wpc = "copy"
  /\ buf' = [b \in DOMAIN buf |->
               IF b \in Offset(in)..(Offset(in) + PutSplit - 1)
               THEN Source(b - Offset(in) + 1) ELSE buf[b]]
  /\ wpc' = "rest"
  /\ UNCHANGED <<ring, in, out, wwant, wlen, reader, history>>

\* The index is stored before the rest is copied.
PutRest_Bug ==
  /\ wpc = "rest"
  /\ in' = (in + wlen) % IndexMod
  /\ sent' = sent + wlen
  /\ wpc' = "advance"
  /\ UNCHANGED <<ring, out, buf, wwant, wlen, reader, got, last>>

PutRest ==
  /\ wpc = "rest"
  /\ buf' = [b \in DOMAIN buf |->
               IF b < wlen - PutSplit THEN Source(PutSplit + b + 1)
               ELSE buf[b]]
  /\ wpc' = "advance"
  /\ UNCHANGED <<ring, in, out, wwant, wlen, reader, history>>

\* `fifo->in += len', one store, and the return.
PutAdvance ==
  /\ wpc = "advance"
  /\ in' = (in + wlen) % IndexMod
  /\ sent' = sent + wlen
  /\ wpc' = "idle"
  /\ wwant' = 0 /\ wlen' = 0
  /\ UNCHANGED <<ring, out, buf, reader, got, last>>

--------------------------------------------------------------------------------
(* __kfifo_get.                                                            *)

GetCall(n) ==
  /\ fifo = "ready"
  /\ rpc = "idle"
  /\ rwant' = n
  /\ rpc' = "min"
  /\ UNCHANGED <<ring, in, out, buf, writer, rlen, dest, history>>

GetMin ==
  /\ rpc = "min"
  /\ IF ReadsTwice /\ rwant >= Length
     THEN rpc' = "min2" /\ UNCHANGED rlen
     ELSE rpc' = "copy" /\ rlen' = Least(rwant, Length)
  /\ UNCHANGED <<ring, in, out, buf, writer, rwant, dest, history>>

GetMinAgain ==
  /\ rpc = "min2"
  /\ rlen' = Length
  /\ rpc' = "copy"
  /\ UNCHANGED <<ring, in, out, buf, writer, rwant, dest, history>>

GetSplit == Least(rlen, size - Offset(out))

GetFirst ==
  /\ rpc = "copy"
  /\ dest' = [i \in 1..GetSplit |-> buf[Offset(out) + i - 1]]
  /\ rpc' = "rest"
  /\ UNCHANGED <<ring, in, out, buf, writer, rwant, rlen, history>>

\* The space is given back before the rest has been copied.
GetRest_Bug ==
  /\ rpc = "rest"
  /\ out' = (out + rlen) % IndexMod
  /\ got' = got + rlen
  /\ rpc' = "advance"
  /\ UNCHANGED <<ring, in, buf, writer, rwant, rlen, dest, sent, last>>

GetRest ==
  /\ rpc = "rest"
  /\ dest' = dest \o [i \in 1..(rlen - GetSplit) |-> buf[i - 1]]
  /\ rpc' = "advance"
  /\ UNCHANGED <<ring, in, out, buf, writer, rwant, rlen, history>>

GetAdvance ==
  /\ rpc = "advance"
  /\ out' = (out + rlen) % IndexMod
  /\ got' = got + rlen
  /\ last' = dest
  /\ rpc' = "idle"
  /\ rwant' = 0 /\ rlen' = 0 /\ dest' = <<>>
  /\ UNCHANGED <<ring, in, buf, writer, sent>>

--------------------------------------------------------------------------------
Putting == PutMin \/ PutMinAgain \/ PutFirst \/ PutRest \/ PutAdvance
Getting == GetMin \/ GetMinAgain \/ GetFirst \/ GetRest \/ GetAdvance

Next ==
  \/ \E n \in Asks : Alloc(n) \/ AllocFails(n)
  \/ \E n \in Wants : PutCall(n) \/ GetCall(n)
  \/ Putting \/ Getting \/ Reset \/ Free

Spec == Init /\ [][Next]_vars

--------------------------------------------------------------------------------
(* Safety.                                                                 *)

TypeOK ==
  /\ fifo \in {"new", "ready", "null", "freed"}
  /\ asked \in Asks \cup {NoSize}
  /\ size \in Nat
  /\ in \in 0..(IndexMod - 1)
  /\ out \in 0..(IndexMod - 1)
  /\ buf \in [0..(size - 1) -> Nat]
  /\ wpc \in {"idle", "min", "min2", "copy", "rest", "advance"}
  /\ rpc \in {"idle", "min", "min2", "copy", "rest", "advance"}
  /\ wwant \in Nat /\ wlen \in Nat
  /\ rwant \in Nat /\ rlen \in Nat
  /\ dest \in Seq(Nat)
  /\ sent \in Nat /\ got \in Nat
  /\ last \in Seq(Nat)

\* kfifo.hpp:32 "The size will be rounded-up to a power of 2": the size is the
\* smallest power of two that holds what was asked for.
RoundsUp ==
  fifo = "ready" =>
    /\ IsPowerOfTwo(size)
    /\ size >= asked
    /\ size < 2 * asked

\* A side has settled on a length and has not yet stored its index.
Writing == wpc \in {"copy", "rest", "advance"}
Reading == rpc \in {"copy", "rest", "advance"}

\* kfifo.hpp:82 and 114: put and get copy "at most @len bytes", so they stay
\* inside the buffer of their caller.
AtMostLen ==
  /\ Writing => wlen <= wwant
  /\ Reading => rlen <= rwant

\* kfifo.hpp:86 "with only one concurrent reader and one concurrent writer,
\* you don't need extra locking".  The ring never holds more than its size,
\* the reader never passes the writer, and the length that a side works with
\* fits although the other side's index has moved since it was computed.
NoOverrun ==
  /\ got <= sent /\ sent - got <= size
  /\ Writing => sent - got + wlen <= size
  /\ Reading => rlen <= sent - got

\* The same line: each byte that was put and not yet got is in its place and
\* stays there until it has been got, whatever the indices have wrapped to.
Intact ==
  \A n \in 1..(sent - got) : buf[Offset((out + n - 1) % IndexMod)] = got + n

\* Fifo::push and Fifo::pop report success for any positive number of bytes
\* (kfifo.hpp:210, 221).  As long as the size is a multiple of the element and
\* all lengths are sizeof(T), no element is torn, although each side computes
\* the number from an index that the other one may be about to move.
WholeElements ==
  /\ Writing => wlen % wwant = 0
  /\ Reading => rlen % rwant = 0

\* The parts of the inductive invariants of KfifoProofs.

\* No size asked for makes roundup_pow_of_two shift by the full width.
AsksFit == Asks \subseteq 1..power[IndexBits - 1]

\* Then every size that kfifo_alloc yields divides the range of the indices.
SizesFit ==
  \A n \in Asks : \A s \in Rounded(n) :
    s \in 1..(IndexMod - 1) /\ IndexMod % s = 0

\* The indices count the bytes that were put and got, modulo their range.
IndicesCount == in = sent % IndexMod /\ out = got % IndexMod

Allocated ==
  /\ fifo \in {"ready", "freed"} =>
       size \in 1..(IndexMod - 1) /\ IndexMod % size = 0
  /\ fifo /= "ready" => Quiet
  /\ fifo \in {"new", "null"} => size = NoSize /\ sent = 0 /\ got = 0

RingInv == TypeOK /\ NoOverrun /\ IndicesCount /\ Allocated

\* The k-th byte of the stream, counted from zero, is in its place.
Placed(k) == buf[k % size] = k + 1

WriterCopied ==
  /\ wpc = "rest" => \A i \in 0..(PutSplit - 1) : Placed(sent + i)
  /\ wpc = "advance" => \A i \in 0..(wlen - 1) : Placed(sent + i)

ReaderCopied ==
  /\ rpc = "rest" => dest = [i \in 1..GetSplit |-> got + i]
  /\ rpc = "advance" => dest = [i \in 1..rlen |-> got + i]

\* What holds of the bytes in a build that merges the two reads.
BytesInv ==
  /\ wpc /= "min2" /\ rpc /= "min2"
  /\ AtMostLen
  /\ \A k \in got..(sent - 1) : Placed(k)
  /\ WriterCopied
  /\ ReaderCopied

IInv == RingInv /\ BytesInv

\* Fifo<T> puts and gets sizeof(T) bytes only, and the ring holds a whole number
\* of elements: the configuration that WholeElements is about.
ElementFits ==
  \E e \in Wants :
    /\ Wants = {e}
    /\ \A n \in Asks : \A s \in Rounded(n) : s % e = 0

\* Then both sides stand between two elements, also while the other side works.
Whole(e) ==
  /\ fifo = "ready" => size % e = 0
  /\ sent % e = 0 /\ got % e = 0
  /\ wpc /= "idle" => wwant = e
  /\ rpc /= "idle" => rwant = e
  /\ Writing => wlen % e = 0
  /\ Reading => rlen % e = 0

WholeInv == \A e \in Wants : Whole(e)

Abstract == INSTANCE ByteFifo
              WITH contents  <- [i \in 1..(sent - got) |-> got + i],
                   capacity  <- size,
                   delivered <- last

\* A put takes effect at its store of in, a get at its store of out, and what
\* the get copied before is what was in front.
ImplementsByteFifo == Abstract!Spec
================================================================================
