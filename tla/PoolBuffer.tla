----------------------------- MODULE PoolBuffer -----------------------------
(***************************************************************************)
(* Type PoolBuffer of package memory/buffers/diffsize: the bytes.Buffer    *)
(* whose storage comes from a diffsize.Pool and is traded for a larger one *)
(* there when it is full.  Each PoolBuffer belongs to one goroutine, and   *)
(* several share a pool whose stores block (DisallowAlloc), so that the    *)
(* steps of different PoolBuffers meet where growSlice waits in pool.Get.  *)
(*                                                                         *)
(* Of the pool the model keeps what its users can tell: how many buffers   *)
(* each store has, and that Get returns a slice of the store's capacity or *)
(* more (AtLeast and SlicesFull of DiffSize).  What the memory behind a    *)
(* slice's length holds is nobody's business; it is never read.            *)
(***************************************************************************)
EXTENDS Integers, Sequences, FiniteSets

CONSTANTS
  PoolBuffers,  \* the *PoolBuffer values, each with its goroutine
  Scenarios,    \* see ScenarioRecords
  MinRead,      \* the constants of the package and of utf8, scaled down
  UTFMax

Ascii == "a"  \* bytes: a rune of its own, and the two bytes of a longer rune
Lead  == "l"
Cont  == "c"
Junk  == "?"  \* a byte of which nothing is known

\* Who takes part, the bytes they write, the buffers of each store, how much
\* larger than its store a buffer can be, the sizes New, Write, Read and Grow
\* are called with, the largest int, and a bound on the bytes held unread.  No
\* store is of size 0: Size.validate refuses it.
ScenarioRecords ==
  [users : SUBSET PoolBuffers, bytes : SUBSET {Ascii, Lead, Cont},
   stock : UNION {[S -> Nat] : S \in SUBSET (Nat \ {0})}, extra : SUBSET Nat,
   sizes : SUBSET Nat, maxInt : Nat, maxLen : Nat]

ASSUME SizesAssumption ==
  MinRead \in Nat \ {0} /\ UTFMax \in Nat /\ UTFMax >= 2
ASSUME ScenariosAssumption ==
  \A x \in Scenarios :
    /\ x.users \subseteq PoolBuffers /\ x.bytes \subseteq {Ascii, Lead, Cont}
    /\ DOMAIN x.stock \in SUBSET (Nat \ {0}) /\ x.stock \in [DOMAIN x.stock -> Nat]
    /\ x.extra \subseteq Nat /\ x.sizes \subseteq Nat
    /\ x.maxInt \in Nat /\ x.maxLen \in Nat

VARIABLES
  scenario,
  free,     \* per store: its buffers
  pb,       \* the PoolBuffer structs
  pc,       \* none, out (between calls), get (in pool.Get), grow and read (in ReadFrom)
  pend,     \* per PoolBuffer: what waits for pool.Get
  content,  \* the bytes its caller has written and not yet read
  taken,    \* the bytes its caller has read last
  promise   \* the bytes a Grow still allows its caller to write

refVars == <<content, taken, promise>>
vars    == <<scenario, free, pb, pc, pend, refVars>>

opRead    == -1
opInvalid == 0

Stores == DOMAIN scenario.stock
Own    == 0  \* the store of a buffer that has none

\* buf is b.buf up to its length, cap its capacity, store the pool's store
\* that buffHolder belongs to.
NoBuffer == [buf |-> <<>>, off |-> 0, lastRead |-> opInvalid, cap |-> 0,
             store |-> Own]
Nothing  == [n |-> 0, put |-> <<>>, then |-> "none"]

Init ==
  /\ scenario \in Scenarios
  /\ free = scenario.stock
  /\ pb = [p \in PoolBuffers |-> NoBuffer]
  /\ pc = [p \in PoolBuffers |-> "none"]
  /\ pend = [p \in PoolBuffers |-> Nothing]
  /\ content = [p \in PoolBuffers |-> <<>>]
  /\ taken = [p \in PoolBuffers |-> <<>>]
  /\ promise = [p \in PoolBuffers |-> 0]

Larger(x, y)  == IF x < y THEN y ELSE x
Smaller(x, y) == IF x < y THEN x ELSE y

-----------------------------------------------------------------------------
(***************************************************************************)
(* The methods' common parts, on one struct b.                             *)
(***************************************************************************)

\* Bytes, String, and Len its length.
Unread(b) == SubSeq(b.buf, b.off + 1, Len(b.buf))
Length(b) == Len(b.buf) - b.off
IsEmpty(b) == Len(b.buf) <= b.off

Reset(b) == [b EXCEPT !.buf = <<>>, !.off = 0, !.lastRead = opInvalid]

Did(b, op) == [b EXCEPT !.lastRead = op]

\* Mutant: the bytes read are taken for room.
FitsAfterSlide(b, n) == n <= b.cap - Length(b)

\* Mutant: an exact fit does not.
FitsStrictly(b, n) == n < b.cap - Len(b.buf)

\* tryGrowByReslice succeeds.
Fits(b, n) == n <= b.cap - Len(b.buf)

\* grow first recovers the space of an empty buffer.
Recovered(b) == IF IsEmpty(b) /\ b.off # 0 THEN Reset(b) ELSE b

\* grow slides when the buffer would then be half full at most ...
Slides(b, n) == n <= b.cap \div 2 - Length(b)
Slid(b) == [b EXCEPT !.buf = Unread(b), !.off = 0]

\* Mutant: n is left out.
TooLargeAlone(b, n) == b.cap > scenario.maxInt - b.cap

\* ... panics with ErrTooLarge ...
TooLarge(b, n) == b.cap > scenario.maxInt - b.cap - n

\* Mutant: b.off is not added.
GrowSizeNoOff(b, n) == Larger(Length(b) + n, 2 * (b.cap - b.off))

\* ... or asks the pool for this much: growSlice(b.buf[b.off:], b.off+n).
GrowSize(b, n) == Larger(Length(b) + b.off + n, 2 * (b.cap - b.off))

\* Mutant: the old buffer is closed before its bytes are copied.
MovedClosedFirst(b, cap, store) ==
  [b EXCEPT !.buf = [i \in 1 .. Length(b) |-> Junk], !.off = 0, !.cap = cap,
            !.store = store]

\* growSlice copies the unread bytes to the new buffer.
Moved(b, cap, store) ==
  [b EXCEPT !.buf = Unread(b), !.off = 0, !.cap = cap, !.store = store]

\* A write to the end of what is there.
Extended(b, s) == [b EXCEPT !.buf = @ \o s]

-----------------------------------------------------------------------------
(***************************************************************************)
(* Steps.  Bytes more than two before the offset are forgotten: whatever   *)
(* they are, no sequence of calls brings them back (ContentKept).          *)
(***************************************************************************)
Forget(b) ==
  [b EXCEPT !.buf = [i \in DOMAIN @ |-> IF i < b.off - 1 THEN Junk ELSE @[i]]]

Becomes(p, b) == pb' = [pb EXCEPT ![p] = Forget(b)]

\* The call returns, or goes on in r.Read, with s stored.  n bytes had been
\* made room for.
Stored(p, b, n, s, then) ==
  /\ Becomes(p, Extended(b, s))
  /\ content' = [content EXCEPT ![p] = @ \o s]
  /\ promise' = [promise EXCEPT ![p] = Larger(0, Larger(@, n) - Len(s))]
  /\ taken' = [taken EXCEPT ![p] = IF b.off = 0 THEN <<>> ELSE @]
  /\ pc' = [pc EXCEPT ![p] = then]

\* grow(n), and then s is stored: at once, or when pool.Get has returned.
Grown(p, b, n, s, then) ==
  \/ /\ Fits(b, n)
     /\ Stored(p, b, n, s, then)
     /\ UNCHANGED <<scenario, free, pend>>
  \/ /\ ~Fits(b, n) /\ Slides(b, n)
     /\ Stored(p, Slid(b), n, s, then)
     /\ UNCHANGED <<scenario, free, pend>>
  \/ /\ ~Fits(b, n) /\ ~Slides(b, n)
     /\ Becomes(p, b)
     /\ IF TooLarge(b, n)
        THEN pc' = [pc EXCEPT ![p] = "out"] /\ UNCHANGED pend
        ELSE /\ pc' = [pc EXCEPT ![p] = "get"]
             /\ pend' = [pend EXCEPT ![p] = [n |-> n, put |-> s, then |-> then]]
     /\ taken' = [taken EXCEPT ![p] = IF b.off = 0 THEN <<>> ELSE @]
     /\ UNCHANGED <<scenario, free, content, promise>>

\* NewPoolBuffer, up to pool.Get.
New(p, size) ==
  /\ pc[p] = "none"
  /\ pc' = [pc EXCEPT ![p] = "get"]
  /\ pend' = [pend EXCEPT ![p] = [n |-> size, put |-> <<>>, then |-> "out"]]
  /\ UNCHANGED <<scenario, free, pb, refVars>>

\* Get's choice: the smallest store that is large enough, if there is one.
StoreFor(size) ==
  {s \in Stores : s >= size /\ \A t \in Stores : t >= size => s <= t}

\* Buffer.Close, back to the store.
Returned(f, store) == IF store = Own THEN f ELSE [f EXCEPT ![store] = @ + 1]

Asked(p) == GrowSize(pb[p], pend[p].n)

\* Mutant: growSlice does not close the old buffer.
GetKeepsOld(p) ==
  /\ pc[p] = "get"
  /\ \E store \in StoreFor(Asked(p)), x \in scenario.extra \cup {0} :
       /\ free[store] > 0
       /\ free' = [free EXCEPT ![store] = @ - 1]
       /\ Stored(p, Moved(pb[p], store + x, store), pend[p].n, pend[p].put,
                 pend[p].then)
  /\ pend' = [pend EXCEPT ![p] = Nothing]
  /\ UNCHANGED scenario

\* pool.Get returns a buffer of a store; growSlice copies, closes the old
\* one, and the call that has been waiting goes on.
GetReturns(p) ==
  /\ pc[p] = "get"
  /\ \E store \in StoreFor(Asked(p)), x \in scenario.extra \cup {0} :
       /\ free[store] > 0
       /\ free' = Returned([free EXCEPT ![store] = @ - 1], pb[p].store)
       /\ Stored(p, Moved(pb[p], store + x, store), pend[p].n, pend[p].put,
                 pend[p].then)
  /\ pend' = [pend EXCEPT ![p] = Nothing]
  /\ UNCHANGED scenario

\* No store is large enough: Get allocates a buffer without a pool.  When
\* that panics, growSlice panics with ErrTooLarge and nothing has changed.
GetAllocates(p) ==
  /\ pc[p] = "get"
  /\ StoreFor(Asked(p)) = {}
  /\ \/ /\ Stored(p, Moved(pb[p], Asked(p), Own), pend[p].n, pend[p].put,
                  pend[p].then)
        /\ free' = Returned(free, pb[p].store)
     \/ /\ pc' = [pc EXCEPT ![p] = IF pb[p].cap = 0 THEN "none" ELSE "out"]
        /\ UNCHANGED <<free, pb, refVars>>
  /\ pend' = [pend EXCEPT ![p] = Nothing]
  /\ UNCHANGED scenario

Close(p) ==
  /\ pc[p] = "out"
  /\ free' = Returned(free, pb[p].store)
  /\ pb' = [pb EXCEPT ![p] = NoBuffer]
  /\ pc' = [pc EXCEPT ![p] = "none"]
  /\ content' = [content EXCEPT ![p] = <<>>]
  /\ taken' = [taken EXCEPT ![p] = <<>>]
  /\ promise' = [promise EXCEPT ![p] = 0]
  /\ UNCHANGED <<scenario, pend>>

-----------------------------------------------------------------------------
(***************************************************************************)
(* Writing.                                                                *)
(***************************************************************************)
Called(p) == pc[p] = "out"

\* tryGrowByReslice, else grow; n is what is asked for, s what is stored.
AppendBytes(p, n, s) ==
  LET b == Did(pb[p], opInvalid)
  IN  /\ Called(p)
      /\ Len(content[p]) + Len(s) <= scenario.maxLen
      /\ Grown(p, IF Fits(b, n) THEN b ELSE Recovered(b), n, s, "out")

\* Write and WriteString; with one byte it is WriteByte.
Write(p, s) == AppendBytes(p, Len(s), s)

\* WriteRune, of a rune that is not ASCII.
WriteRune(p) == AppendBytes(p, UTFMax, <<Lead, Cont>>)

\* Grow.  A negative count panics before anything happens.
Grow(p, n) == Called(p) /\ Grown(p, Recovered(pb[p]), n, <<>>, "out")

\* ReadFrom: a loop of grow and r.Read.
ReadFrom(p) ==
  /\ Called(p)
  /\ Becomes(p, Did(pb[p], opInvalid))
  /\ pc' = [pc EXCEPT ![p] = "grow"]
  /\ UNCHANGED <<scenario, free, pend, refVars>>

ReadFromGrow(p) ==
  pc[p] = "grow" /\ Grown(p, Recovered(pb[p]), MinRead, <<>>, "read")

\* r.Read has stored s.  Without an error the loop goes on.  EOF or another
\* error ends it, and so do a negative count and a panic, which store nothing.
ReadFromRead(p, s) ==
  /\ pc[p] = "read"
  /\ Len(s) <= pb[p].cap - Len(pb[p].buf)
  /\ Len(content[p]) + Len(s) <= scenario.maxLen
  /\ \E then \in {"grow", "out"} : Stored(p, pb[p], 0, s, then)
  /\ UNCHANGED <<scenario, free, pend>>

-----------------------------------------------------------------------------
(***************************************************************************)
(* Reading.                                                                *)
(***************************************************************************)

Consume(p, k, op) ==
  /\ Becomes(p, [pb[p] EXCEPT !.off = @ + k, !.lastRead = op])
  /\ content' = [content EXCEPT ![p] = SubSeq(@, k + 1, Len(@))]
  /\ taken' = [taken EXCEPT ![p] =
                 IF k = 0 THEN @ ELSE SubSeq(content[p], Larger(1, k - 1), k)]
  /\ UNCHANGED <<scenario, free, pc, pend, promise>>

\* Reset, which the reads do, too, when the buffer is empty.
Emptied(p) ==
  /\ Becomes(p, Reset(pb[p]))
  /\ content' = [content EXCEPT ![p] = <<>>]
  /\ taken' = [taken EXCEPT ![p] = <<>>]
  /\ UNCHANGED <<scenario, free, pc, pend, promise>>

ReadOp(k) == IF k > 0 THEN opRead ELSE opInvalid

\* Read into size bytes; a ReadByte is a Read of one.
Read(p, size) ==
  LET k == Smaller(size, Length(pb[p]))
  IN  Called(p) /\ IF IsEmpty(pb[p]) THEN Emptied(p) ELSE Consume(p, k, ReadOp(k))

\* Next, which does not recover space.
NextBytes(p, size) ==
  LET k == Smaller(size, Length(pb[p]))
  IN  Called(p) /\ Consume(p, k, ReadOp(k))

\* utf8.DecodeRune: a rune of two bytes, or one byte, ASCII or erroneous.
RuneLength(s) == IF Len(s) > 1 /\ s[1] = Lead /\ s[2] = Cont THEN 2 ELSE 1

ReadRune(p) ==
  LET k == RuneLength(Unread(pb[p]))
  IN  Called(p) /\ IF IsEmpty(pb[p]) THEN Emptied(p) ELSE Consume(p, k, k)

\* readSlice, behind ReadBytes and ReadString: through the first delim, or
\* to the end, even if there is nothing to read.
ReadSlice(p, delim) ==
  LET s == Unread(pb[p])
  IN  /\ Called(p)
      /\ \E k \in 0 .. Len(s) :
           /\ \A i \in 1 .. k - 1 : s[i] # delim
           /\ IF k = 0 THEN s = <<>> ELSE k = Len(s) \/ s[k] = delim
           /\ Consume(p, k, opRead)

\* The last k bytes are unread again, unless a Grow has moved the buffer.
Restore(p, k, s) ==
  /\ Called(p)
  /\ LET b == Did(pb[p], opInvalid)
     IN  IF b.off >= k
         THEN /\ Becomes(p, [b EXCEPT !.off = @ - k])
              /\ content' = [content EXCEPT ![p] = s \o @]
         ELSE Becomes(p, b) /\ UNCHANGED content
  /\ taken' = [taken EXCEPT ![p] = <<>>]
  /\ UNCHANGED <<scenario, free, pc, pend, promise>>

UnreadRune(p) ==
  /\ pb[p].lastRead > opInvalid
  /\ Restore(p, pb[p].lastRead, taken[p])

UnreadByte(p) ==
  /\ pb[p].lastRead # opInvalid
  /\ Restore(p, 1, SubSeq(taken[p], Len(taken[p]), Len(taken[p])))

\* Truncate to n bytes, which panics when there are fewer.
Truncate(p, n) ==
  LET b == Did(pb[p], opInvalid)
  IN  /\ Called(p)
      /\ IF n = 0 THEN Emptied(p)
         ELSE /\ IF n > Length(b)
                 THEN Becomes(p, b) /\ UNCHANGED content
                 ELSE /\ Becomes(p, [b EXCEPT !.buf = SubSeq(@, 1, b.off + n)])
                      /\ content' = [content EXCEPT ![p] = SubSeq(@, 1, n)]
              /\ UNCHANGED <<scenario, free, pc, pend, taken, promise>>

\* WriteTo, when the writer takes k bytes.  It panics when the writer says
\* to have taken more than there are, as if it had taken none.
WriteTo(p, k) ==
  /\ Called(p)
  /\ k <= Length(pb[p])
  /\ \/ k = Length(pb[p]) /\ Emptied(p)  \* no error, no short write
     \/ ~IsEmpty(pb[p]) /\ Consume(p, k, opInvalid)

-----------------------------------------------------------------------------
Texts == UNION {[1 .. n -> scenario.bytes] : n \in scenario.sizes \cup {0}}

Writing(p) ==
  \/ \E s \in Texts : Write(p, s) \/ ReadFromRead(p, s)
  \/ Cont \in scenario.bytes /\ WriteRune(p)
  \/ ReadFrom(p) \/ ReadFromGrow(p)

Reading(p) ==
  \/ \E n \in scenario.sizes :
       Read(p, n) \/ NextBytes(p, n) \/ Truncate(p, n) \/ WriteTo(p, n)
  \/ ReadRune(p) \/ \E delim \in scenario.bytes : ReadSlice(p, delim)
  \/ UnreadRune(p) \/ UnreadByte(p)

Next ==
  \E p \in scenario.users :
    \/ \E n \in scenario.sizes : New(p, n) \/ Grow(p, n)
    \/ GetReturns(p) \/ GetAllocates(p)
    \/ Writing(p) \/ Reading(p)
    \/ Close(p)

Spec == Init /\ [][Next]_vars

(***************************************************************************)
(* A store is a channel, which serves those who wait in the order they     *)
(* came.  Readers end, and callers close their PoolBuffers in the end, as  *)
(* a pool with DisallowAlloc requires of them.                             *)
(***************************************************************************)
Fairness ==
  \A p \in PoolBuffers :
    /\ SF_vars(GetReturns(p))
    /\ WF_vars(GetAllocates(p) \/ ReadFromGrow(p))
    /\ SF_vars(ReadFromRead(p, <<>>) /\ pc'[p] = "out")
    /\ SF_vars(Close(p))

FairSpec == Spec /\ Fairness

-----------------------------------------------------------------------------
(***************************************************************************)
(* Properties.                                                             *)
(***************************************************************************)

\* Every variable has its type; the offset is within the length and the
\* length within the capacity.
TypeOK ==
  /\ scenario \in Scenarios
  /\ free \in [Stores -> Nat]
  /\ pc \in [PoolBuffers -> {"none", "out", "get", "grow", "read"}]
  /\ \A p \in PoolBuffers :
       /\ pb[p].buf \in Seq({Ascii, Lead, Cont, Junk})
       /\ pb[p].off \in 0 .. Len(pb[p].buf) /\ Len(pb[p].buf) <= pb[p].cap
       /\ pb[p].lastRead \in opRead .. UTFMax
       /\ pb[p].store \in Stores \cup {Own}
       /\ content[p] \in Seq({Ascii, Lead, Cont})
       /\ taken[p] \in Seq({Ascii, Lead, Cont}) /\ promise[p] \in Nat
       /\ pend[p].n \in Nat /\ (pc[p] # "get" <=> pend[p] = Nothing)

(***************************************************************************)
(* A PoolBuffer is a queue of bytes: what its caller has written and not   *)
(* read, truncated or reset is what is in it, byte for byte, whatever was  *)
(* moved down, copied to a new buffer, or put back by an Unread meanwhile. *)
(* An Unread that succeeds gives back what the last read took, or nothing  *)
(* when a Grow has moved the bytes in between.  No byte of a closed buffer *)
(* and none that was not written is ever seen.                             *)
(***************************************************************************)
ContentKept == \A p \in PoolBuffers : Unread(pb[p]) = content[p]

(***************************************************************************)
(* "After Grow(n), at least n bytes can be written to the buffer without   *)
(* another allocation": whatever is read, unread, truncated or reset in    *)
(* between, only a call that wants more than is left of the n goes to the  *)
(* pool.  The same holds of the size given to NewPoolBuffer.               *)
(***************************************************************************)
GrowKept ==
  \A p \in PoolBuffers :
    /\ pc[p] = "get" => pend[p].n > promise[p] \/ pb[p].cap = 0
    /\ promise[p] <= pb[p].cap - Len(pb[p].buf)

\* p waits in pool.Get for a buffer that q holds.
WaitsFor(p, q) ==
  /\ pc[p] = "get"
  /\ \E store \in StoreFor(Asked(p)) : free[store] = 0 /\ pb[q].store = store

\* Of any PoolBuffers, there is one that waits for none of the others.
NoCircle ==
  \A C \in SUBSET PoolBuffers : C # {} => \E p \in C : \A q \in C : ~WaitsFor(p, q)

(***************************************************************************)
(* growSlice waits for a buffer while it holds another one.  It always     *)
(* wants one that is larger than the one it holds, so that those who wait  *)
(* for each other hold ever larger ones and nobody waits in a circle.  It  *)
(* wants at most four times what its bytes and the request need: bytes     *)
(* that have been read do not make buffers grow.                           *)
(***************************************************************************)
GrowthBounded ==
  /\ NoCircle
  /\ \A p \in PoolBuffers :
       pc[p] = "get" /\ pb[p].cap > 0 =>
         /\ Asked(p) > pb[p].cap
         /\ Asked(p) <= 4 * (Length(pb[p]) + pend[p].n)

\* The sizes grow computes with are ints: where it does not panic, neither
\* the sum nor the double overflows.
NoOverflow ==
  \A p \in PoolBuffers :
    pc[p] = "get" /\ pb[p].cap > 0 =>
      /\ Length(pb[p]) + pb[p].off + pend[p].n <= scenario.maxInt
      /\ 2 * (pb[p].cap - pb[p].off) <= scenario.maxInt

\* A PoolBuffer holds one of the pool's buffers at most, and none is lost:
\* every buffer is in its store or behind one PoolBuffer.
StockKept ==
  \A s \in Stores :
    free[s] + Cardinality({p \in PoolBuffers : pb[p].store = s})
      = scenario.stock[s]

\* Every call that waits in pool.Get, and every ReadFrom from a reader that
\* ends, returns, though a PoolBuffer that holds one buffer may have to wait
\* in growSlice for one that another PoolBuffer holds.
CallsEnd ==
  \A p \in PoolBuffers :
    pc[p] \in {"get", "grow", "read"} ~> pc[p] \in {"out", "none"}

=============================================================================
