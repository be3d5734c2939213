-------------------------- MODULE PoolBufferProofs --------------------------
(***************************************************************************)
(* Theorems about PoolBuffer, for any number of PoolBuffers, any stores,   *)
(* bytes, sizes and bounds.                                                *)
(***************************************************************************)
EXTENDS PoolBuffer, SequenceTheorems, FiniteSetTheorems, WellFoundedInduction, TLAPS

(***************************************************************************)
(* The inductive invariant, of one PoolBuffer.  Besides what the           *)
(* properties say it is about the bytes before the offset: the last one or *)
(* two of them are what the last read took, so that an Unread puts back    *)
(* what was there; and when a call waits for a larger buffer, it has found *)
(* the old one too small, too full to slide, and small enough to double.   *)
(***************************************************************************)
Bytes   == {Ascii, Lead, Cont}
Structs == [buf : Seq(Bytes \cup {Junk}), off : Nat, lastRead : Int, cap : Nat,
            store : Nat]
Pending == [n : Nat, put : Seq(Bytes), then : {"none", "out", "read"}]
Phases  == {"none", "out", "get", "grow", "read"}

Sound(b) ==
  /\ b \in Structs
  /\ b.off <= Len(b.buf) /\ Len(b.buf) <= b.cap
  /\ b.lastRead \in opRead .. UTFMax

\* c is unread in b.
Holds(b, c) ==
  /\ c \in Seq(Bytes) /\ Len(c) = Length(b)
  /\ \A i \in 1 .. Len(c) : c[i] = b.buf[b.off + i]

\* t was read from b last.
Took(b, t) ==
  /\ t \in Seq(Bytes) /\ Len(t) <= 2 /\ Len(t) <= b.off
  /\ \A i \in 1 .. Len(t) : t[i] = b.buf[b.off - Len(t) + i]
  /\ b.off > 0 => /\ b.lastRead > opInvalid => Len(t) = b.lastRead
                  /\ b.lastRead = opRead \/ IsEmpty(b) => Len(t) >= 1

\* w waits for pool.Get with b in hand, m bytes of a Grow left.
Waits(b, w, m) ==
  /\ w \in Pending /\ Len(w.put) <= w.n /\ w.then # "none"
  /\ w.n > m \/ b.cap = 0
  /\ b.cap > 0 => ~Fits(b, w.n) /\ ~Slides(b, w.n)

Good(b, st, w, c, t, m) ==
  /\ Sound(b) /\ Holds(b, c) /\ Took(b, t)
  /\ m \in Nat /\ m <= b.cap - Len(b.buf)
  /\ st \in Phases /\ (st = "none" => b.cap = 0)
  /\ IF st = "get" THEN Waits(b, w, m) ELSE w = Nothing

Inv ==
  /\ scenario \in Scenarios /\ free \in [Stores -> Nat]
  /\ pb \in [PoolBuffers -> Structs] /\ pc \in [PoolBuffers -> Phases]
  /\ pend \in [PoolBuffers -> Pending] /\ content \in [PoolBuffers -> Seq(Bytes)]
  /\ taken \in [PoolBuffers -> Seq(Bytes)] /\ promise \in [PoolBuffers -> Nat]
  /\ \A p \in PoolBuffers :
       /\ Good(pb[p], pc[p], pend[p], content[p], taken[p], promise[p])
       /\ pb[p].store \in Stores \cup {Own}
       /\ pc[p] = "get" /\ pb[p].cap > 0 => ~TooLarge(pb[p], pend[p].n)

-----------------------------------------------------------------------------
(***************************************************************************)
(* What the methods' parts do to one struct.                               *)
(***************************************************************************)
LEMMA StructFacts ==
  ASSUME NEW b, Sound(b)
  PROVE  /\ b.buf \in Seq(Bytes \cup {Junk}) /\ Len(b.buf) \in Nat
         /\ DOMAIN b.buf = 1 .. Len(b.buf)
         /\ b.off \in Nat /\ b.off <= Len(b.buf) /\ Len(b.buf) <= b.cap
         /\ b.cap \in Nat /\ b.lastRead \in Int /\ b.lastRead \in opRead .. UTFMax
         /\ b.store \in Nat
         /\ Length(b) = Len(b.buf) - b.off /\ Length(b) \in Nat
         /\ IsEmpty(b) <=> Len(b.buf) = b.off
<1>1. /\ b.buf \in Seq(Bytes \cup {Junk}) /\ b.off \in Nat /\ b.cap \in Nat
      /\ b.lastRead \in Int /\ b.store \in Nat
      /\ b.off <= Len(b.buf) /\ Len(b.buf) <= b.cap /\ b.lastRead \in opRead .. UTFMax
  BY DEF Sound, Structs
<1>2. Len(b.buf) \in Nat /\ DOMAIN b.buf = 1 .. Len(b.buf)
  BY <1>1, LenProperties
<1> QED BY <1>1, <1>2 DEF Length, IsEmpty

\* A struct with new parts.
LEMMA StructNew ==
  ASSUME NEW s \in Seq(Bytes \cup {Junk}), NEW off \in Nat, NEW op \in Int,
         NEW cap \in Nat, NEW store \in Nat,
         off <= Len(s), Len(s) <= cap, op \in opRead .. UTFMax
  PROVE  LET r == [buf |-> s, off |-> off, lastRead |-> op, cap |-> cap, store |-> store]
         IN  /\ Sound(r) /\ r.buf = s /\ r.off = off /\ r.lastRead = op
             /\ r.cap = cap /\ r.store = store
BY DEF Sound, Structs

\* The structs the methods make, written out.
LEMMA StructForms ==
  ASSUME NEW b, Sound(b)
  PROVE  /\ Reset(b) = [buf |-> <<>>, off |-> 0, lastRead |-> opInvalid, cap |-> b.cap,
                        store |-> b.store]
         /\ \A op : Did(b, op) = [buf |-> b.buf, off |-> b.off, lastRead |-> op,
                                 cap |-> b.cap, store |-> b.store]
         /\ \A s : Extended(b, s) = [buf |-> b.buf \o s, off |-> b.off,
                       lastRead |-> b.lastRead, cap |-> b.cap, store |-> b.store]
         /\ Slid(b) = [buf |-> Unread(b), off |-> 0, lastRead |-> b.lastRead,
                       cap |-> b.cap, store |-> b.store]
         /\ \A off, op : [b EXCEPT !.off = off, !.lastRead = op] =
              [buf |-> b.buf, off |-> off, lastRead |-> op, cap |-> b.cap, store |-> b.store]
         /\ \A s, op : [Did(b, op) EXCEPT !.buf = s] =
              [buf |-> s, off |-> b.off, lastRead |-> op, cap |-> b.cap, store |-> b.store]
         /\ \A off, op : [Did(b, op) EXCEPT !.off = off] =
              [buf |-> b.buf, off |-> off, lastRead |-> op, cap |-> b.cap, store |-> b.store]
<1>0. b \in Structs
  BY DEF Sound
<1>1. ASSUME NEW r, r = Reset(b)
      PROVE  r = [buf |-> <<>>, off |-> 0, lastRead |-> opInvalid, cap |-> b.cap,
          store |-> b.store]
  BY <1>0, <1>1 DEF Structs, Reset
<1>2. ASSUME NEW r, NEW op, r = Did(b, op)
      PROVE  r = [buf |-> b.buf, off |-> b.off, lastRead |-> op, cap |-> b.cap,
          store |-> b.store]
  BY <1>0, <1>2 DEF Structs, Did
<1>3. ASSUME NEW r, NEW s, r = Extended(b, s)
      PROVE  r = [buf |-> b.buf \o s, off |-> b.off, lastRead |-> b.lastRead, cap |-> b.cap,
          store |-> b.store]
  BY <1>0, <1>3 DEF Structs, Extended
<1>4. ASSUME NEW r, r = Slid(b)
      PROVE  r = [buf |-> Unread(b), off |-> 0, lastRead |-> b.lastRead, cap |-> b.cap,
          store |-> b.store]
  BY <1>0, <1>4 DEF Structs, Slid
<1>5. ASSUME NEW r, NEW off, NEW op, r = [b EXCEPT !.off = off, !.lastRead = op]
      PROVE  r = [buf |-> b.buf, off |-> off, lastRead |-> op, cap |-> b.cap,
          store |-> b.store]
  BY <1>0, <1>5 DEF Structs
<1>6. ASSUME NEW r, NEW s, NEW op, NEW d, d = Did(b, op), r = [d EXCEPT !.buf = s]
      PROVE  r = [buf |-> s, off |-> b.off, lastRead |-> op, cap |-> b.cap,
          store |-> b.store]
  <2>1. d = [buf |-> b.buf, off |-> b.off, lastRead |-> op, cap |-> b.cap,
          store |-> b.store]
    BY <1>2, <1>6
  <2> QED BY <1>6, <2>1
<1>7. ASSUME NEW r, NEW off, NEW op, NEW d, d = Did(b, op), r = [d EXCEPT !.off = off]
      PROVE  r = [buf |-> b.buf, off |-> off, lastRead |-> op, cap |-> b.cap,
          store |-> b.store]
  <2>1. d = [buf |-> b.buf, off |-> b.off, lastRead |-> op, cap |-> b.cap,
          store |-> b.store]
    BY <1>2, <1>7
  <2> QED BY <1>7, <2>1
<1>8. /\ \A op : Did(b, op) = [buf |-> b.buf, off |-> b.off, lastRead |-> op,
                              cap |-> b.cap, store |-> b.store]
      /\ \A s : Extended(b, s) = [buf |-> b.buf \o s, off |-> b.off,
                    lastRead |-> b.lastRead, cap |-> b.cap, store |-> b.store]
  BY <1>2, <1>3
<1>9. \A off, op : [b EXCEPT !.off = off, !.lastRead = op] =
         [buf |-> b.buf, off |-> off, lastRead |-> op, cap |-> b.cap, store |-> b.store]
  BY Zenon, <1>5
<1>10. \A s, op : [Did(b, op) EXCEPT !.buf = s] =
         [buf |-> s, off |-> b.off, lastRead |-> op, cap |-> b.cap, store |-> b.store]
  BY Zenon, <1>6
<1>11. \A off, op : [Did(b, op) EXCEPT !.off = off] =
         [buf |-> b.buf, off |-> off, lastRead |-> op, cap |-> b.cap, store |-> b.store]
  BY Zenon, <1>7
<1> QED BY Zenon, <1>1, <1>4, <1>8, <1>9, <1>10, <1>11

LEMMA MovedForm ==
  ASSUME NEW b, Sound(b), NEW cap, NEW store
  PROVE  Moved(b, cap, store) =
           [buf |-> Unread(b), off |-> 0, lastRead |-> b.lastRead, cap |-> cap,
            store |-> store]
<1>1. ASSUME NEW r, r = Moved(b, cap, store)
      PROVE  r = [buf |-> Unread(b), off |-> 0, lastRead |-> b.lastRead, cap |-> cap,
                  store |-> store]
  <2>1. b \in Structs
    BY DEF Sound
  <2> QED BY <1>1, <2>1 DEF Structs, Moved
<1> QED BY Zenon, <1>1

LEMMA UnreadIs ==
  ASSUME NEW b, Sound(b), NEW c, Holds(b, c)
  PROVE  Unread(b) = c /\ c \in Seq(Bytes) /\ Len(c) = Length(b)
<1>1. /\ b.buf \in Seq(Bytes \cup {Junk}) /\ Len(b.buf) \in Nat /\ b.off \in Nat
      /\ b.off <= Len(b.buf) /\ Length(b) = Len(b.buf) - b.off
  BY StructFacts
<1>2. c \in Seq(Bytes) /\ Len(c) = Length(b) /\ \A i \in 1 .. Len(c) : c[i] = b.buf[b.off + i]
  BY DEF Holds
<1>3. \A i \in b.off + 1 .. Len(b.buf) : b.buf[i] \in Bytes \cup {Junk}
  BY <1>1, ElementOfSeq
<1>4. /\ Unread(b) \in Seq(Bytes \cup {Junk}) /\ Len(Unread(b)) = Len(b.buf) - b.off
      /\ \A i \in 1 .. Len(b.buf) - b.off : Unread(b)[i] = b.buf[b.off + i]
  <2>1. b.off + 1 \in Int /\ Len(b.buf) \in Int
    BY <1>1
  <2>2. LET m == b.off + 1
            n == Len(b.buf)
        IN  /\ Unread(b) \in Seq(Bytes \cup {Junk})
            /\ Len(Unread(b)) = IF m <= n THEN n - m + 1 ELSE 0
            /\ \A i \in 1 .. n - m + 1 : Unread(b)[i] = b.buf[m + i - 1]
    BY <1>3, <2>1, SubSeqProperties DEF Unread
  <2>3. \A o, n \in Nat : o <= n =>
          /\ n - (o + 1) + 1 = n - o /\ (o + 1 <= n \/ n - o = 0)
          /\ \A i \in 1 .. n - o : o + 1 + i - 1 = o + i
    OBVIOUS
  <2>4. /\ Len(b.buf) - (b.off + 1) + 1 = Len(b.buf) - b.off
        /\ b.off + 1 <= Len(b.buf) \/ Len(b.buf) - b.off = 0
        /\ \A i \in 1 .. Len(b.buf) - b.off : b.off + 1 + i - 1 = b.off + i
    BY <1>1, <2>3
  <2> QED BY <2>2, <2>4
<1>5. c \in Seq(Bytes \cup {Junk})
  BY <1>2, SeqMonotonic
<1>6. Unread(b) = c
  BY <1>1, <1>2, <1>4, <1>5, SeqEqual
<1> QED BY <1>2, <1>6

LEMMA ForgetFacts ==
  ASSUME NEW b, Sound(b)
  PROVE  /\ Sound(Forget(b)) /\ Len(Forget(b).buf) = Len(b.buf)
         /\ Forget(b).off = b.off /\ Forget(b).lastRead = b.lastRead
         /\ Forget(b).cap = b.cap /\ Forget(b).store = b.store
         /\ \A i \in 1 .. Len(b.buf) : i >= b.off - 1 => Forget(b).buf[i] = b.buf[i]
<1> DEFINE s == [i \in DOMAIN b.buf |-> IF i < b.off - 1 THEN Junk ELSE b.buf[i]]
<1>1. /\ b.buf \in Seq(Bytes \cup {Junk}) /\ Len(b.buf) \in Nat
      /\ DOMAIN b.buf = 1 .. Len(b.buf) /\ b.off \in Nat /\ b.cap \in Nat
      /\ b.lastRead \in Int /\ b.store \in Nat
      /\ b.off <= Len(b.buf) /\ Len(b.buf) <= b.cap /\ b.lastRead \in opRead .. UTFMax
  BY StructFacts
<1>2. s \in [1 .. Len(b.buf) -> Bytes \cup {Junk}]
  BY <1>1, ElementOfSeq
<1>3. /\ s \in Seq(Bytes \cup {Junk}) /\ Len(s) = Len(b.buf)
      /\ \A i \in 1 .. Len(b.buf) : i >= b.off - 1 => s[i] = b.buf[i]
  BY <1>1, <1>2
<1>4. Forget(b) = [b EXCEPT !.buf = s]
  BY Zenon DEF Forget
<1> HIDE DEF s
<1>5. /\ Forget(b) \in Structs /\ Forget(b).buf = s /\ Forget(b).off = b.off
      /\ Forget(b).lastRead = b.lastRead /\ Forget(b).cap = b.cap /\ Forget(b).store = b.store
  BY <1>1, <1>3, <1>4 DEF Sound, Structs
<1> QED BY <1>1, <1>3, <1>5 DEF Sound

\* What is forgotten matters to nothing.
LEMMA ForgetGood ==
  ASSUME NEW b, NEW st, NEW w, NEW c, NEW t, NEW m, Good(b, st, w, c, t, m)
  PROVE  Good(Forget(b), st, w, c, t, m)
<1> DEFINE f == Forget(b)
<1>0. Sound(b) /\ Holds(b, c) /\ Took(b, t)
  BY DEF Good
<1>1. /\ Sound(f) /\ Len(f.buf) = Len(b.buf) /\ f.off = b.off /\ f.lastRead = b.lastRead
      /\ f.cap = b.cap /\ \A i \in 1 .. Len(b.buf) : i >= b.off - 1 => f.buf[i] = b.buf[i]
  BY <1>0, ForgetFacts
<1>2. b.off \in Nat /\ Len(b.buf) \in Nat /\ b.off <= Len(b.buf) /\ Length(b) = Len(b.buf) - b.off
  BY <1>0, StructFacts
<1> HIDE DEF f
<1>3. Length(f) = Length(b) /\ (IsEmpty(f) <=> IsEmpty(b))
  BY <1>1 DEF Length, IsEmpty
<1>4. Holds(f, c)
  <2>1. c \in Seq(Bytes) /\ Len(c) = Length(b) /\ \A i \in 1 .. Len(c) : c[i] = b.buf[b.off + i]
    BY <1>0 DEF Holds
  <2>2. ASSUME NEW i \in 1 .. Len(c) PROVE c[i] = f.buf[f.off + i]
    <3>1. b.off + i \in 1 .. Len(b.buf) /\ b.off + i >= b.off - 1
      BY <1>2, <2>1
    <3> QED BY <1>1, <2>1, <3>1
  <2> QED BY <1>3, <2>1, <2>2 DEF Holds
<1>5. Took(f, t)
  <2>1. /\ t \in Seq(Bytes) /\ Len(t) <= 2 /\ Len(t) <= b.off /\ Len(t) \in Nat
        /\ \A i \in 1 .. Len(t) : t[i] = b.buf[b.off - Len(t) + i]
    BY <1>0, LenProperties DEF Took
  <2>2. ASSUME NEW i \in 1 .. Len(t) PROVE t[i] = f.buf[f.off - Len(t) + i]
    <3>1. b.off - Len(t) + i \in 1 .. Len(b.buf) /\ b.off - Len(t) + i >= b.off - 1
      BY <1>2, <2>1
    <3> QED BY <1>1, <2>1, <3>1
  <2> QED BY <1>0, <1>1, <1>3, <2>1, <2>2 DEF Took
<1>6. Waits(b, w, m) => Waits(f, w, m)
  BY <1>1, <1>3 DEF Waits, Fits, Slides
<1> QED BY <1>1, <1>4, <1>5, <1>6 DEF Good, f

LEMMA ResetGood ==
  ASSUME NEW b, Sound(b)
  PROVE  /\ Sound(Reset(b)) /\ Holds(Reset(b), <<>>) /\ Took(Reset(b), <<>>)
         /\ Reset(b).cap = b.cap /\ Reset(b).store = b.store /\ Reset(b).off = 0
         /\ Len(Reset(b).buf) = 0
<1>1. /\ b.cap \in Nat /\ b.store \in Nat /\ UTFMax \in Nat
      /\ <<>> \in Seq(Bytes \cup {Junk}) /\ <<>> \in Seq(Bytes) /\ Len(<<>>) = 0
  BY StructFacts, EmptySeq, SizesAssumption
<1>2. /\ Sound(Reset(b)) /\ Reset(b).buf = <<>> /\ Reset(b).off = 0
      /\ Reset(b).cap = b.cap /\ Reset(b).store = b.store
  <2> DEFINE s == <<>>
  <2>1. Reset(b) = [buf |-> s, off |-> 0, lastRead |-> 0, cap |-> b.cap,
                    store |-> b.store]
    BY StructForms DEF opInvalid
  <2>2. 0 \in opRead .. UTFMax /\ s \in Seq(Bytes \cup {Junk}) /\ 0 <= Len(s)
        /\ Len(s) <= b.cap
    BY <1>1 DEF opRead
  <2> HIDE DEF s
  <2>3. /\ Sound(Reset(b)) /\ Reset(b).buf = s /\ Reset(b).off = 0
        /\ Reset(b).cap = b.cap /\ Reset(b).store = b.store
    BY <1>1, <2>1, <2>2, StructNew
  <2> QED BY <2>3 DEF s
<1> QED BY <1>1, <1>2 DEF Holds, Took, Length

LEMMA DidGood ==
  ASSUME NEW b, Sound(b), NEW c, Holds(b, c), NEW t, Took(b, t)
  PROVE  LET d == Did(b, opInvalid)
         IN  /\ Sound(d) /\ Holds(d, c) /\ Took(d, t)
             /\ d.buf = b.buf /\ d.off = b.off /\ d.cap = b.cap /\ d.store = b.store
             /\ d.lastRead = opInvalid
<1> DEFINE d == Did(b, opInvalid)
<1>1. /\ b.buf \in Seq(Bytes \cup {Junk}) /\ b.off \in Nat /\ b.off <= Len(b.buf)
      /\ Len(b.buf) <= b.cap /\ b.cap \in Nat /\ b.store \in Nat
      /\ UTFMax \in Nat
  BY StructFacts, SizesAssumption
<1>2. /\ d = [buf |-> b.buf, off |-> b.off, lastRead |-> opInvalid, cap |-> b.cap,
              store |-> b.store]
  BY StructForms
<1>3. opInvalid \in opRead .. UTFMax /\ opInvalid \in Int
  BY <1>1 DEF opInvalid, opRead
<1> HIDE DEF d
<1>4. /\ Sound(d) /\ d.buf = b.buf /\ d.off = b.off /\ d.cap = b.cap
      /\ d.store = b.store /\ d.lastRead = opInvalid
  BY <1>1, <1>2, <1>3, StructNew
<1>5. Holds(d, c)
  BY <1>4 DEF Holds, Length
<1>6. Took(d, t)
  BY <1>4 DEF Took, IsEmpty, opInvalid, opRead
<1> QED BY <1>4, <1>5, <1>6 DEF d

\* A write to the end leaves what is unread and what was read where it is.
LEMMA ExtendedGood ==
  ASSUME NEW b, Sound(b), NEW c, Holds(b, c), NEW t, Took(b, t), NEW s \in Seq(Bytes),
         Len(s) <= b.cap - Len(b.buf)
  PROVE  LET e == Extended(b, s)
         IN  /\ Sound(e) /\ Holds(e, c \o s) /\ Took(e, IF b.off = 0 THEN <<>> ELSE t)
             /\ Len(e.buf) = Len(b.buf) + Len(s) /\ e.cap = b.cap /\ e.off = b.off
             /\ e.store = b.store
<1> DEFINE u == b.buf \o s
           e == Extended(b, s)
<1>1. /\ b.buf \in Seq(Bytes \cup {Junk}) /\ Len(b.buf) \in Nat /\ b.off \in Nat
      /\ b.off <= Len(b.buf) /\ b.cap \in Nat /\ b.store \in Nat
      /\ b.lastRead \in Int /\ b.lastRead \in opRead .. UTFMax
      /\ Length(b) = Len(b.buf) - b.off /\ (IsEmpty(b) <=> Len(b.buf) = b.off)
  BY StructFacts
<1>2. /\ c \in Seq(Bytes) /\ Len(c) = Len(b.buf) - b.off /\ Len(c) \in Nat
      /\ \A i \in 1 .. Len(c) : c[i] = b.buf[b.off + i]
  BY <1>1, LenProperties DEF Holds
<1>3. /\ t \in Seq(Bytes) /\ Len(t) <= 2 /\ Len(t) <= b.off /\ Len(t) \in Nat
      /\ \A i \in 1 .. Len(t) : t[i] = b.buf[b.off - Len(t) + i]
      /\ b.off > 0 => /\ b.lastRead > opInvalid => Len(t) = b.lastRead
                      /\ b.lastRead = opRead \/ IsEmpty(b) => Len(t) >= 1
  BY LenProperties DEF Took
<1>4. s \in Seq(Bytes \cup {Junk}) /\ Len(s) \in Nat
  BY SeqMonotonic, LenProperties
<1>5. /\ u \in Seq(Bytes \cup {Junk}) /\ Len(u) = Len(b.buf) + Len(s)
      /\ \A i \in 1 .. Len(b.buf) + Len(s) :
           u[i] = IF i <= Len(b.buf) THEN b.buf[i] ELSE s[i - Len(b.buf)]
  BY <1>1, <1>4, ConcatProperties
<1>6. /\ c \o s \in Seq(Bytes) /\ Len(c \o s) = Len(c) + Len(s)
      /\ \A i \in 1 .. Len(c) + Len(s) :
           (c \o s)[i] = IF i <= Len(c) THEN c[i] ELSE s[i - Len(c)]
  BY <1>2, ConcatProperties
<1>7. e = [buf |-> u, off |-> b.off, lastRead |-> b.lastRead, cap |-> b.cap,
           store |-> b.store]
  BY StructForms
<1> HIDE DEF e, u
<1>8. b.off <= Len(u) /\ Len(u) <= b.cap
  BY <1>1, <1>4, <1>5
<1>9. /\ Sound(e) /\ e.buf = u /\ e.off = b.off /\ e.lastRead = b.lastRead
      /\ e.cap = b.cap /\ e.store = b.store
  BY <1>1, <1>5, <1>7, <1>8, StructNew
<1>10. Length(e) = Len(b.buf) + Len(s) - b.off /\ (IsEmpty(e) => IsEmpty(b))
  <2>1. Length(e) = Len(u) - b.off /\ (IsEmpty(e) <=> Len(u) <= b.off)
    BY <1>9 DEF Length, IsEmpty
  <2>2. /\ Len(b.buf) \in Nat /\ b.off \in Nat /\ b.off <= Len(b.buf) /\ Len(s) \in Nat
        /\ Len(u) = Len(b.buf) + Len(s) /\ (IsEmpty(b) <=> Len(b.buf) = b.off)
    BY <1>1, <1>4, <1>5
  <2>3. Len(u) - b.off = Len(b.buf) + Len(s) - b.off /\ (Len(u) <= b.off => Len(b.buf) = b.off)
    BY <2>2
  <2> QED BY <2>1, <2>2, <2>3
<1>11. Holds(e, c \o s)
  <2>1. ASSUME NEW i \in 1 .. Len(c \o s) PROVE (c \o s)[i] = u[b.off + i]
    <3> DEFINE j == b.off + i
               k == i - Len(c)
    <3>1. /\ i \in 1 .. Len(c) + Len(s) /\ j \in 1 .. Len(b.buf) + Len(s)
          /\ i <= Len(c) <=> j <= Len(b.buf)
          /\ i <= Len(c) => i \in 1 .. Len(c)
          /\ j - Len(b.buf) = k
      <4>1. /\ Len(b.buf) \in Nat /\ b.off \in Nat /\ b.off <= Len(b.buf)
            /\ Len(s) \in Nat /\ Len(c) \in Nat /\ Len(c) = Len(b.buf) - b.off
            /\ i \in Int /\ 1 <= i /\ i <= Len(c) + Len(s)
        BY <1>1, <1>2, <1>4, <1>6
      <4> DEFINE x == Len(b.buf)
                 o == b.off
                 y == Len(s)
                 z == Len(c)
      <4>2. x \in Nat /\ o \in Nat /\ o <= x /\ y \in Nat /\ z = x - o /\ i \in Int /\ 1 <= i /\ i <= z + y
        BY <4>1
      <4> HIDE DEF x, o, y, z
      <4>3. /\ i \in 1 .. z + y /\ o + i \in 1 .. x + y /\ (i <= z <=> o + i <= x)
            /\ (i <= z => i \in 1 .. z) /\ (o + i) - x = i - z
        BY <4>2
      <4> QED BY <4>3 DEF x, o, y, z
    <3>2. i <= Len(c) => c[i] = b.buf[j]
      BY <1>2, <3>1
    <3>3. (c \o s)[i] = IF i <= Len(c) THEN c[i] ELSE s[k]
      BY <1>6, <3>1
    <3> HIDE DEF j, k
    <3>4. u[j] = IF j <= Len(b.buf) THEN b.buf[j] ELSE s[k]
      BY <1>5, <3>1
    <3>5. (c \o s)[i] = u[j]
      BY <3>1, <3>2, <3>3, <3>4
    <3> QED BY <3>5 DEF j
  <2>2. Len(c \o s) = Length(e)
    BY <1>1, <1>2, <1>4, <1>6, <1>10
  <2> QED BY <1>6, <1>9, <2>1, <2>2 DEF Holds
<1>12. Took(e, IF b.off = 0 THEN <<>> ELSE t)
  <2>1. CASE b.off = 0
    <3>1. <<>> \in Seq(Bytes) /\ Len(<<>>) = 0
      BY EmptySeq
    <3> QED BY <1>9, <2>1, <3>1 DEF Took
  <2>2. CASE b.off # 0
    <3>1. ASSUME NEW i \in 1 .. Len(t) PROVE t[i] = u[b.off - Len(t) + i]
      <4> DEFINE j == b.off - Len(t) + i
      <4>1. j \in 1 .. Len(b.buf) + Len(s) /\ j <= Len(b.buf)
        <5> DEFINE x == Len(b.buf)
                   o == b.off
                   y == Len(s)
                   z == Len(t)
        <5>1. x \in Nat /\ o \in Nat /\ o <= x /\ y \in Nat /\ z \in Nat /\ z <= o /\ i \in 1 .. z
          BY <1>1, <1>3, <1>4
        <5> HIDE DEF x, o, y, z
        <5>2. (o - z) + i \in 1 .. x + y /\ (o - z) + i <= x
          BY <5>1
        <5> QED BY <5>2 DEF x, o, y, z
      <4>2. t[i] = b.buf[j]
        BY <1>3
      <4> HIDE DEF j
      <4>3. t[i] = u[j]
        BY <1>5, <4>1, <4>2
      <4> QED BY <4>3 DEF j
    <3> QED BY <1>3, <1>9, <1>10, <2>2, <3>1 DEF Took
  <2> QED BY <2>1, <2>2
<1> QED BY <1>5, <1>9, <1>11, <1>12 DEF e

\* So does moving the unread bytes to the front, here or to another buffer;
\* what was read is then gone.
LEMMA MovedGood ==
  ASSUME NEW b, Sound(b), NEW c, Holds(b, c), NEW cap \in Nat,
         NEW store \in Nat, Length(b) <= cap
  PROVE  LET d == Moved(b, cap, store)
         IN  /\ Sound(d) /\ Holds(d, c) /\ Took(d, <<>>)
             /\ Len(d.buf) = Length(b) /\ d.cap = cap /\ d.off = 0 /\ d.store = store
<1> DEFINE d == Moved(b, cap, store)
<1>1. b.lastRead \in Int /\ b.lastRead \in opRead .. UTFMax
  BY StructFacts
<1>2. Unread(b) = c /\ c \in Seq(Bytes) /\ Len(c) = Length(b)
  BY UnreadIs
<1>3. c \in Seq(Bytes \cup {Junk}) /\ Len(c) \in Nat
  BY <1>2, SeqMonotonic, LenProperties
<1>4. d = [buf |-> c, off |-> 0, lastRead |-> b.lastRead, cap |-> cap, store |-> store]
  <2>1. d = [buf |-> Unread(b), off |-> 0, lastRead |-> b.lastRead, cap |-> cap,
             store |-> store]
    BY Zenon, MovedForm
  <2>2. Unread(b) = c
    BY <1>2
  <2> QED BY Zenon, <2>1, <2>2
<1> HIDE DEF d
<1>5. 0 <= Len(c) /\ Len(c) <= cap
  BY <1>2, <1>3
<1>6. /\ Sound(d) /\ d.buf = c /\ d.off = 0 /\ d.lastRead = b.lastRead
      /\ d.cap = cap /\ d.store = store
  BY <1>1, <1>3, <1>4, <1>5, StructNew
<1>7. <<>> \in Seq(Bytes) /\ Len(<<>>) = 0
  BY EmptySeq
<1>8. Took(d, <<>>)
  BY <1>6, <1>7 DEF Took
<1>9. Holds(d, c)
  BY <1>2, <1>3, <1>6 DEF Holds, Length
<1> QED BY <1>2, <1>6, <1>8, <1>9 DEF d

LEMMA SlidGood ==
  ASSUME NEW b, Sound(b), NEW c, Holds(b, c)
  PROVE  LET d == Slid(b)
         IN  /\ Sound(d) /\ Holds(d, c) /\ Took(d, <<>>)
             /\ Len(d.buf) = Length(b) /\ d.cap = b.cap /\ d.off = 0 /\ d.store = b.store
<1>1. /\ b.cap \in Nat /\ b.store \in Nat /\ Length(b) <= b.cap
  BY StructFacts
<1>2. Slid(b) = Moved(b, b.cap, b.store)
  <2>1. Slid(b) = [buf |-> Unread(b), off |-> 0, lastRead |-> b.lastRead,
                   cap |-> b.cap, store |-> b.store]
    BY Zenon, StructForms
  <2>2. Moved(b, b.cap, b.store) = [buf |-> Unread(b), off |-> 0,
                   lastRead |-> b.lastRead, cap |-> b.cap, store |-> b.store]
    BY Zenon, MovedForm
  <2> QED BY Zenon, <2>1, <2>2
<1> QED BY <1>1, <1>2, MovedGood

LEMMA RecoveredGood ==
  ASSUME NEW b, Sound(b), NEW c, Holds(b, c), NEW t, Took(b, t)
  PROVE  LET d == Recovered(b)
         IN  /\ Sound(d) /\ Holds(d, c) /\ Took(d, IF d.off = 0 THEN <<>> ELSE t)
             /\ Len(d.buf) <= Len(b.buf) /\ d.cap = b.cap /\ d.store = b.store
<1> DEFINE d == Recovered(b)
<1>1. CASE IsEmpty(b) /\ b.off # 0
  <2>1. d = Reset(b)
    BY <1>1 DEF Recovered
  <2>2. /\ Len(b.buf) \in Nat /\ Len(b.buf) = b.off /\ Length(b) = 0
    BY <1>1, StructFacts
  <2>3. c = <<>>
    BY <2>2, EmptySeq DEF Holds
  <2> HIDE DEF d
  <2>4. /\ Sound(d) /\ Holds(d, <<>>) /\ Took(d, <<>>) /\ d.cap = b.cap
        /\ d.store = b.store /\ d.off = 0 /\ Len(d.buf) = 0
    BY <2>1, ResetGood
  <2> QED BY <2>2, <2>3, <2>4 DEF d
<1>2. CASE ~(IsEmpty(b) /\ b.off # 0)
  <2>1. d = b
    BY <1>2 DEF Recovered
  <2>2. Len(b.buf) <= Len(b.buf)
    BY StructFacts
  <2>3. b.off = 0 => t = <<>>
    <3>1. t \in Seq(Bytes) /\ Len(t) <= b.off /\ Len(t) \in Nat
      BY LenProperties DEF Took
    <3> QED BY <3>1, EmptySeq
  <2> QED BY <2>1, <2>2, <2>3
<1> QED BY <1>1, <1>2

LEMMA SubSeqFacts ==
  ASSUME NEW S, NEW c \in Seq(S), NEW m \in Nat, NEW k \in Nat,
         1 <= m, m <= k + 1, k <= Len(c)
  PROVE  /\ SubSeq(c, m, k) \in Seq(S) /\ Len(SubSeq(c, m, k)) = k - m + 1
         /\ \A i \in 1 .. k - m + 1 : SubSeq(c, m, k)[i] = c[m + i - 1]
<1>1. Len(c) \in Nat /\ \A i \in 1 .. Len(c) : c[i] \in S
  BY LenProperties, ElementOfSeq
<1>2. m \in Int /\ k \in Int /\ \A i \in m .. k : c[i] \in S
  BY <1>1
<1>3. /\ SubSeq(c, m, k) \in Seq(S)
      /\ Len(SubSeq(c, m, k)) = IF m <= k THEN k - m + 1 ELSE 0
      /\ \A i \in 1 .. k - m + 1 : SubSeq(c, m, k)[i] = c[m + i - 1]
  BY <1>2, SubSeqProperties
<1>4. (IF m <= k THEN k - m + 1 ELSE 0) = k - m + 1
  OBVIOUS
<1> QED BY <1>3, <1>4

\* The k bytes that are read, and those behind them.
LEMMA ReadParts ==
  ASSUME NEW buf, NEW n \in Nat, NEW off \in Nat, NEW c \in Seq(Bytes), off <= n,
         Len(c) = n - off, \A i \in 1 .. Len(c) : c[i] = buf[off + i],
         NEW k \in Nat, k <= Len(c)
  PROVE  /\ SubSeq(c, k + 1, Len(c)) \in Seq(Bytes)
         /\ Len(SubSeq(c, k + 1, Len(c))) = Len(c) - k
         /\ \A i \in 1 .. Len(c) - k :
              SubSeq(c, k + 1, Len(c))[i] = buf[off + k + i]
         /\ \A m \in Nat : 1 <= m /\ m <= k =>
              /\ SubSeq(c, m, k) \in Seq(Bytes) /\ Len(SubSeq(c, m, k)) = k - m + 1
              /\ \A i \in 1 .. Len(SubSeq(c, m, k)) :
                   SubSeq(c, m, k)[i] = buf[off + k - Len(SubSeq(c, m, k)) + i]
<1>1. Len(c) \in Nat
  BY LenProperties
<1>2. /\ SubSeq(c, k + 1, Len(c)) \in Seq(Bytes)
      /\ Len(SubSeq(c, k + 1, Len(c))) = Len(c) - (k + 1) + 1
      /\ \A i \in 1 .. Len(c) - (k + 1) + 1 : SubSeq(c, k + 1, Len(c))[i] = c[k + 1 + i - 1]
  <2> DEFINE m == k + 1
             l == Len(c)
  <2>1. m \in Nat /\ l \in Nat /\ 1 <= m /\ m <= l + 1 /\ l <= Len(c)
    BY <1>1
  <2> HIDE DEF m, l
  <2>2. /\ SubSeq(c, m, l) \in Seq(Bytes) /\ Len(SubSeq(c, m, l)) = l - m + 1
        /\ \A i \in 1 .. l - m + 1 : SubSeq(c, m, l)[i] = c[m + i - 1]
    BY <2>1, SubSeqFacts
  <2> QED BY <2>2 DEF m, l
<1>3. Len(c) - (k + 1) + 1 = Len(c) - k
  BY <1>1
<1>4. ASSUME NEW i \in 1 .. Len(c) - k
      PROVE  SubSeq(c, k + 1, Len(c))[i] = buf[off + k + i]
  <2> DEFINE j == k + 1 + i - 1
  <2>1. j \in 1 .. Len(c) /\ off + j = off + k + i
    BY <1>1
  <2>2. SubSeq(c, k + 1, Len(c))[i] = c[j]
    BY <1>2, <1>3
  <2> HIDE DEF j
  <2>3. c[j] = buf[off + j]
    BY <2>1
  <2> QED BY <2>1, <2>2, <2>3
<1>5. ASSUME NEW m \in Nat, 1 <= m, m <= k
      PROVE  /\ SubSeq(c, m, k) \in Seq(Bytes) /\ Len(SubSeq(c, m, k)) = k - m + 1
             /\ \A i \in 1 .. Len(SubSeq(c, m, k)) :
                  SubSeq(c, m, k)[i] = buf[off + k - Len(SubSeq(c, m, k)) + i]
  <2>1. /\ SubSeq(c, m, k) \in Seq(Bytes) /\ Len(SubSeq(c, m, k)) = k - m + 1
        /\ \A i \in 1 .. k - m + 1 : SubSeq(c, m, k)[i] = c[m + i - 1]
    <3>1. m <= k + 1
      BY <1>5
    <3> HIDE DEF Bytes
    <3> QED BY <1>5, <3>1, SubSeqFacts
  <2>2. ASSUME NEW i \in 1 .. Len(SubSeq(c, m, k))
        PROVE  SubSeq(c, m, k)[i] = buf[off + k - Len(SubSeq(c, m, k)) + i]
    <3> DEFINE j == m + i - 1
    <3>1. j \in 1 .. Len(c) /\ off + j = off + k - Len(SubSeq(c, m, k)) + i
      <4>1. \A l, o \in Nat : k <= l => m + i - 1 \in 1 .. l
                            /\ o + (m + i - 1) = o + k - (k - m + 1) + i
        BY <1>5, <2>1
      <4> QED BY <1>1, <2>1, <4>1
    <3>2. SubSeq(c, m, k)[i] = c[j]
      BY <2>1
    <3> HIDE DEF j
    <3>3. c[j] = buf[off + j]
      BY <3>1
    <3> QED BY <3>1, <3>2, <3>3
  <2> QED BY <2>1, <2>2
<1> QED BY <1>2, <1>3, <1>4, <1>5

LEMMA LastTwo ==
  ASSUME NEW k \in Nat, k > 0
  PROVE  /\ Larger(1, k - 1) \in Nat /\ 1 <= Larger(1, k - 1) /\ Larger(1, k - 1) <= k
         /\ k - Larger(1, k - 1) + 1 <= 2 /\ k - Larger(1, k - 1) + 1 >= 1
         /\ k <= 2 => k - Larger(1, k - 1) + 1 = k
BY DEF Larger

\* A read of k bytes: what was unread is k bytes shorter, and the last two
\* of the k are those that an Unread can ask for.
LEMMA ReadGood ==
  ASSUME NEW b, Sound(b), NEW c, Holds(b, c), NEW t, Took(b, t),
         NEW k \in Nat, k <= Len(c), NEW op \in Int,
         op = opRead => k > 0 \/ IsEmpty(b), op > opInvalid => op = k /\ k <= 2,
         NEW r, Sound(r), r.buf = b.buf, r.off = b.off + k, r.lastRead = op,
         NEW u, k = 0 => u = t, k > 0 => u = SubSeq(c, Larger(1, k - 1), k)
  PROVE  Holds(r, SubSeq(c, k + 1, Len(c))) /\ Took(r, u)
<1> DEFINE d == SubSeq(c, k + 1, Len(c))
           n == Len(b.buf)
<1>1. /\ n \in Nat /\ b.off \in Nat /\ b.off <= n /\ Length(b) = n - b.off
      /\ (IsEmpty(b) <=> n = b.off)
  BY StructFacts
<1>2. /\ c \in Seq(Bytes) /\ Len(c) = n - b.off /\ Len(c) \in Nat
      /\ \A i \in 1 .. Len(c) : c[i] = b.buf[b.off + i]
  BY <1>1, LenProperties DEF Holds
<1>3. opRead = -1 /\ opInvalid = 0
  BY DEF opRead, opInvalid
<1> DEFINE buf == b.buf
           off == b.off
<1> HIDE DEF n
<1>4. c \in Seq(Bytes) /\ Len(c) = n - off /\ \A i \in 1 .. Len(c) : c[i] = buf[off + i]
  BY <1>2
<1>5. /\ d \in Seq(Bytes) /\ Len(d) = Len(c) - k
      /\ \A i \in 1 .. Len(c) - k : d[i] = buf[off + k + i]
      /\ \A m \in Nat : 1 <= m /\ m <= k =>
           /\ SubSeq(c, m, k) \in Seq(Bytes) /\ Len(SubSeq(c, m, k)) = k - m + 1
           /\ \A i \in 1 .. Len(SubSeq(c, m, k)) :
                SubSeq(c, m, k)[i] = buf[off + k - Len(SubSeq(c, m, k)) + i]
  <2>1. n \in Nat /\ off \in Nat /\ off <= n
    BY <1>1
  <2> HIDE DEF buf, off, Bytes
  <2> QED BY <1>4, <2>1, ReadParts
<1>6. Length(r) = Len(c) - k
  BY <1>1, <1>2 DEF Length, n
<1>7. IsEmpty(r) <=> n <= off + k
  BY DEF IsEmpty, n
<1> HIDE DEF d
<1>8. Holds(r, d)
  BY <1>5, <1>6 DEF Holds
<1>9. CASE k = 0
  <2>1. u = t /\ r.off = b.off
    BY <1>1, <1>9
  <2>2. /\ t \in Seq(Bytes) /\ Len(t) <= 2 /\ Len(t) <= b.off
        /\ \A i \in 1 .. Len(t) : t[i] = b.buf[b.off - Len(t) + i]
        /\ b.off > 0 => (b.lastRead = opRead \/ IsEmpty(b) => Len(t) >= 1)
    BY DEF Took
  <2>3. ~(op > opInvalid) /\ (op = opRead \/ IsEmpty(r) => IsEmpty(b))
    BY <1>1, <1>3, <1>7, <1>9
  <2>4. Took(r, t)
    BY <2>1, <2>2, <2>3 DEF Took
  <2> QED BY <1>8, <2>1, <2>4 DEF d
<1>10. CASE k > 0
  <2> DEFINE m == Larger(1, k - 1)
  <2>1. /\ m \in Nat /\ 1 <= m /\ m <= k /\ k - m + 1 <= 2 /\ k - m + 1 >= 1
        /\ k <= 2 => k - m + 1 = k
    BY <1>10, LastTwo
  <2>2. u = SubSeq(c, m, k)
    BY <1>10
  <2> HIDE DEF m
  <2>3. /\ u \in Seq(Bytes) /\ Len(u) = k - m + 1
        /\ \A i \in 1 .. Len(u) : u[i] = r.buf[r.off - Len(u) + i]
    <3>1. /\ u \in Seq(Bytes) /\ Len(u) = k - m + 1
          /\ \A i \in 1 .. Len(u) : u[i] = buf[off + k - Len(u) + i]
      BY <1>5, <2>1, <2>2
    <3>2. r.buf = buf /\ r.off = off + k
      OBVIOUS
    <3>3. ASSUME NEW i \in 1 .. Len(u) PROVE u[i] = r.buf[r.off - Len(u) + i]
      <4>1. u[i] = buf[off + k - Len(u) + i]
        BY <3>1
      <4>2. off + k - Len(u) + i = r.off - Len(u) + i
        <5>1. off \in Int /\ Len(u) \in Int
          BY <1>1, <2>1, <3>1
        <5> QED BY <3>2, <5>1
      <4> QED BY <3>2, <4>1, <4>2
    <3> QED BY <3>1, <3>3
  <2>4. Len(u) <= 2 /\ Len(u) <= r.off /\ Len(u) >= 1
    <3>1. k - m + 1 <= b.off + k
      BY <1>1, <2>1
    <3> QED BY <2>1, <2>3, <3>1
  <2>5. op > opInvalid => Len(u) = op
    BY <2>1, <2>3
  <2>6. Took(r, u)
    BY <2>3, <2>4, <2>5 DEF Took
  <2> QED BY <1>8, <2>6 DEF d
<1> QED BY <1>9, <1>10

\* The struct of a read, an Unread or a Truncate.
LEMMA NewOffset ==
  ASSUME NEW b, Sound(b), NEW off \in Nat, off <= Len(b.buf), NEW op \in opRead .. UTFMax,
         NEW r, r = [buf |-> b.buf, off |-> off, lastRead |-> op, cap |-> b.cap,
                     store |-> b.store]
  PROVE  /\ Sound(r) /\ r.buf = b.buf /\ r.off = off /\ r.lastRead = op
         /\ r.cap = b.cap /\ r.store = b.store
<1>1. b \in Structs /\ op \in Int
  BY SizesAssumption DEF Sound, opRead
<1>2. /\ r \in Structs /\ r.buf = b.buf /\ r.off = off /\ r.lastRead = op
      /\ r.cap = b.cap /\ r.store = b.store
  BY <1>1 DEF Structs
<1> QED BY <1>2, StructFacts DEF Sound

LEMMA ConcatFacts ==
  ASSUME NEW S, NEW s \in Seq(S), NEW c \in Seq(S), NEW k, k = Len(s)
  PROVE  /\ s \o c \in Seq(S) /\ Len(s \o c) = k + Len(c)
         /\ \A i \in 1 .. k + Len(c) :
              (s \o c)[i] = IF i <= k THEN s[i] ELSE c[i - k]
BY ConcatProperties

\* An Unread of the k bytes s that are before the offset.
LEMMA RestoreGood ==
  ASSUME NEW b, Sound(b), NEW c, Holds(b, c), NEW k \in Nat, k > 0, k <= b.off,
         NEW s \in Seq(Bytes), Len(s) = k,
         \A i \in 1 .. k : s[i] = b.buf[b.off - k + i],
         NEW r, Sound(r), r.buf = b.buf, r.off = b.off - k, r.lastRead = opInvalid
  PROVE  Holds(r, s \o c) /\ Took(r, <<>>)
<1>1. /\ Len(b.buf) \in Nat /\ b.off \in Nat /\ b.off <= Len(b.buf)
      /\ Length(b) = Len(b.buf) - b.off
  BY StructFacts
<1>2. /\ c \in Seq(Bytes) /\ Len(c) = Len(b.buf) - b.off /\ Len(c) \in Nat
      /\ \A i \in 1 .. Len(c) : c[i] = b.buf[b.off + i]
  BY <1>1, LenProperties DEF Holds
<1>3. /\ s \o c \in Seq(Bytes) /\ Len(s \o c) = k + Len(c)
      /\ \A i \in 1 .. k + Len(c) :
           (s \o c)[i] = IF i <= k THEN s[i] ELSE c[i - k]
  <2> HIDE DEF Bytes
  <2>1. c \in Seq(Bytes) /\ k = Len(s)
    BY <1>2
  <2> QED BY <2>1, ConcatFacts
<1>4. Length(r) = k + Len(c) /\ ~IsEmpty(r)
  <2> DEFINE x == Len(b.buf)
             o == b.off
             z == Len(c)
  <2>1. /\ x \in Nat /\ o \in Nat /\ k \in Nat /\ k > 0 /\ z = x - o
        /\ Len(r.buf) = x /\ r.off = o - k
    BY <1>1, <1>2
  <2> HIDE DEF x, o, z
  <2>2. x - (o - k) = k + z /\ (o <= x => ~(x <= o - k))
    BY <2>1
  <2>3. o <= x
    BY <1>1 DEF o, x
  <2> QED BY <2>1, <2>2, <2>3 DEF Length, IsEmpty, z
<1>5. ASSUME NEW i \in 1 .. k + Len(c) PROVE (s \o c)[i] = r.buf[r.off + i]
  <2>1. CASE i <= k
    <3>1. i \in 1 .. k /\ b.off - k + i = r.off + i
      BY <1>1, <1>2, <2>1
    <3> QED BY <1>3, <2>1, <3>1
  <2>2. CASE ~(i <= k)
    <3> DEFINE j == i - k
    <3>1. j \in 1 .. Len(c) /\ b.off + j = r.off + i
      <4>1. \A l, o \in Nat : i \in 1 .. k + l => i - k \in 1 .. l
                             /\ o + (i - k) = o - k + i
        BY <2>2
      <4> QED BY <1>1, <1>2, <4>1
    <3>2. (s \o c)[i] = c[j]
      BY <1>3, <2>2
    <3> HIDE DEF j
    <3>3. c[j] = b.buf[b.off + j]
      BY <1>2, <3>1
    <3> QED BY <3>1, <3>2, <3>3
  <2> QED BY <2>1, <2>2
<1>6. Holds(r, s \o c)
  BY <1>3, <1>4, <1>5 DEF Holds
<1>7. <<>> \in Seq(Bytes) /\ Len(<<>>) = 0 /\ r.off \in Nat
  BY <1>1, EmptySeq
<1>8. ~(r.lastRead > opInvalid) /\ r.lastRead # opRead
  BY DEF opInvalid, opRead
<1>9. Took(r, <<>>)
  BY <1>4, <1>7, <1>8 DEF Took
<1> QED BY <1>6, <1>9

\* The bytes an Unread asks for are those the last read took.
LEMMA UnreadAsks ==
  ASSUME NEW b, Sound(b), NEW t, Took(b, t)
  PROVE  /\ b.lastRead > opInvalid /\ b.off > 0 =>
              /\ Len(t) = b.lastRead /\ t \in Seq(Bytes) /\ Len(t) <= b.off
              /\ \A i \in 1 .. Len(t) : t[i] = b.buf[b.off - Len(t) + i]
         /\ b.lastRead # opInvalid /\ b.off > 0 =>
              LET s == SubSeq(t, Len(t), Len(t))
              IN  /\ Len(s) = 1 /\ s \in Seq(Bytes)
                  /\ \A i \in 1 .. 1 : s[i] = b.buf[b.off - 1 + i]
<1>1. /\ b.off \in Nat /\ b.lastRead \in Int /\ b.lastRead \in opRead .. UTFMax
      /\ opRead = -1 /\ opInvalid = 0
  BY StructFacts DEF opRead, opInvalid
<1>2. /\ t \in Seq(Bytes) /\ Len(t) \in Nat /\ Len(t) <= b.off
      /\ \A i \in 1 .. Len(t) : t[i] = b.buf[b.off - Len(t) + i]
      /\ b.off > 0 => /\ b.lastRead > opInvalid => Len(t) = b.lastRead
                      /\ b.lastRead = opRead => Len(t) >= 1
  BY LenProperties DEF Took
<1>3. ASSUME b.lastRead # opInvalid, b.off > 0
      PROVE  LET s == SubSeq(t, Len(t), Len(t))
             IN  /\ Len(s) = 1 /\ s \in Seq(Bytes)
                 /\ \A i \in 1 .. 1 : s[i] = b.buf[b.off - 1 + i]
  <2> DEFINE n == Len(t)
             s == SubSeq(t, n, n)
  <2>1. n \in Nat /\ n >= 1
    <3>1. b.lastRead > opInvalid \/ b.lastRead = opRead
      BY <1>1, <1>3 DEF opInvalid, opRead
    <3>2. CASE b.lastRead = opRead
      BY <1>2, <1>3, <3>2
    <3>3. CASE b.lastRead > opInvalid
      <4>1. Len(t) = b.lastRead /\ b.lastRead >= 1
        BY <1>1, <1>2, <1>3, <3>3
      <4> QED BY <1>2, <4>1
    <3> QED BY <3>1, <3>2, <3>3
  <2>2. t[n] = b.buf[b.off]
    <3>1. n \in 1 .. Len(t) /\ b.off - Len(t) + n = b.off
      BY <1>1, <2>1
    <3> QED BY <1>2, <3>1
  <2> HIDE DEF n
  <2>3. /\ s \in Seq(Bytes) /\ Len(s) = n - n + 1
        /\ \A i \in 1 .. n - n + 1 : s[i] = t[n + i - 1]
    <3>1. n <= n + 1 /\ n <= Len(t)
      BY <2>1 DEF n
    <3> QED BY <1>2, <2>1, <3>1, SubSeqFacts
  <2>4. n - n + 1 = 1 /\ \A i \in 1 .. 1 : n + i - 1 = n /\ b.off - 1 + i = b.off
    BY <1>1, <2>1
  <2> HIDE DEF s
  <2>5. Len(s) = 1 /\ s \in Seq(Bytes) /\ \A i \in 1 .. 1 : s[i] = b.buf[b.off - 1 + i]
    BY <2>2, <2>3, <2>4
  <2> QED BY <2>5 DEF n, s
<1> QED BY <1>2, <1>3

\* The bytes that Truncate to n leaves.
LEMMA TruncatedBytes ==
  ASSUME NEW b, Sound(b), NEW n \in Nat, n <= Length(b)
  PROVE  LET u == SubSeq(b.buf, 1, b.off + n)
         IN  /\ u \in Seq(Bytes \cup {Junk}) /\ Len(u) = b.off + n
             /\ \A i \in 1 .. b.off + n : u[i] = b.buf[i]
<1> DEFINE u == SubSeq(b.buf, 1, b.off + n)
<1>1. /\ b.buf \in Seq(Bytes \cup {Junk}) /\ Len(b.buf) \in Nat /\ b.off \in Nat
      /\ b.off <= Len(b.buf) /\ Length(b) = Len(b.buf) - b.off
  BY StructFacts
<1>2. /\ u \in Seq(Bytes \cup {Junk}) /\ Len(u) = b.off + n
      /\ \A i \in 1 .. b.off + n : u[i] = b.buf[i]
  <2> DEFINE m == b.off + n
             e == 1
  <2>1. e \in Nat /\ m \in Nat /\ 1 <= e /\ e <= m + 1 /\ m <= Len(b.buf)
    BY <1>1
  <2>2. m - 1 + 1 = m /\ \A i \in 1 .. m : 1 + i - 1 = i
    BY <1>1
  <2> HIDE DEF m
  <2>3. /\ u \in Seq(Bytes \cup {Junk}) /\ Len(u) = m - 1 + 1
        /\ \A i \in 1 .. m - 1 + 1 : u[i] = b.buf[1 + i - 1]
    <3>1. u = SubSeq(b.buf, e, m)
      BY DEF m
    <3> HIDE DEF u, e
    <3> DEFINE B == Bytes \cup {Junk}
    <3>0. b.buf \in Seq(B)
      BY <1>1
    <3> HIDE DEF B
    <3>2. /\ u \in Seq(B) /\ Len(u) = m - e + 1
          /\ \A i \in 1 .. m - e + 1 : u[i] = b.buf[e + i - 1]
      BY <2>1, <3>0, <3>1, SubSeqFacts
    <3> QED BY <3>2 DEF e, B
  <2> HIDE DEF u
  <2>4. /\ u \in Seq(Bytes \cup {Junk}) /\ Len(u) = m
        /\ \A i \in 1 .. m : u[i] = b.buf[i]
    BY <2>2, <2>3
  <2> QED BY <2>4 DEF m
<1> QED BY <1>2

\* Truncate to n bytes.
LEMMA TruncateGood ==
  ASSUME NEW b, Sound(b), NEW c, Holds(b, c), NEW t, Took(b, t),
         NEW n \in Nat, n > 0, n <= Length(b), b.lastRead = opInvalid,
         NEW r, Sound(r), r.buf = SubSeq(b.buf, 1, b.off + n), r.off = b.off,
         r.lastRead = opInvalid
  PROVE  Holds(r, SubSeq(c, 1, n)) /\ Took(r, t)
<1> DEFINE u == SubSeq(b.buf, 1, b.off + n)
           d == SubSeq(c, 1, n)
<1>1. /\ b.buf \in Seq(Bytes \cup {Junk}) /\ Len(b.buf) \in Nat /\ b.off \in Nat
      /\ b.off <= Len(b.buf) /\ Len(b.buf) <= b.cap /\ b.cap \in Nat
      /\ b.store \in Nat /\ b.lastRead \in Int
      /\ b.lastRead \in opRead .. UTFMax /\ Length(b) = Len(b.buf) - b.off
  BY StructFacts
<1>2. /\ c \in Seq(Bytes) /\ Len(c) = Len(b.buf) - b.off /\ Len(c) \in Nat
      /\ \A i \in 1 .. Len(c) : c[i] = b.buf[b.off + i]
  BY <1>1, LenProperties DEF Holds
<1>3. /\ t \in Seq(Bytes) /\ Len(t) <= 2 /\ Len(t) <= b.off /\ Len(t) \in Nat
      /\ \A i \in 1 .. Len(t) : t[i] = b.buf[b.off - Len(t) + i]
  BY LenProperties DEF Took
<1>4. /\ Len(u) = b.off + n /\ \A i \in 1 .. b.off + n : u[i] = b.buf[i]
  BY TruncatedBytes
<1>5. /\ d \in Seq(Bytes) /\ Len(d) = n
      /\ \A i \in 1 .. n : d[i] = c[i]
  <2> DEFINE e == 1
  <2>1. e \in Nat /\ 1 <= e /\ e <= n + 1 /\ n <= Len(c)
    BY <1>1, <1>2
  <2>2. n - 1 + 1 = n /\ \A i \in 1 .. n : 1 + i - 1 = i
    OBVIOUS
  <2>3. /\ d \in Seq(Bytes) /\ Len(d) = n - 1 + 1
        /\ \A i \in 1 .. n - 1 + 1 : d[i] = c[1 + i - 1]
    <3>1. d = SubSeq(c, e, n)
      OBVIOUS
    <3> HIDE DEF d, e
    <3>2. /\ d \in Seq(Bytes) /\ Len(d) = n - e + 1
          /\ \A i \in 1 .. n - e + 1 : d[i] = c[e + i - 1]
      BY <1>2, <2>1, <3>1, SubSeqFacts
    <3> QED BY <3>2 DEF e
  <2> HIDE DEF d
  <2> QED BY <2>2, <2>3
<1>6. r.buf = u /\ r.off = b.off
  OBVIOUS
<1> HIDE DEF u, d
<1>9. Length(r) = n /\ ~IsEmpty(r)
  BY <1>1, <1>4, <1>6 DEF Length, IsEmpty
<1>10. Holds(r, d)
  <2>1. ASSUME NEW i \in 1 .. n PROVE d[i] = u[b.off + i]
    <3> DEFINE j == b.off + i
    <3>1. j \in 1 .. b.off + n /\ i \in 1 .. Len(c)
      BY <1>1, <1>2
    <3>2. c[i] = b.buf[j]
      BY <1>2, <3>1
    <3> HIDE DEF j
    <3>3. u[j] = b.buf[j]
      BY <1>4, <3>1
    <3>4. d[i] = u[j]
      BY <1>5, <3>2, <3>3
    <3> QED BY <3>4 DEF j
  <2> QED BY <1>5, <1>6, <1>9, <2>1 DEF Holds
<1>11. Took(r, t)
  <2>1. ASSUME NEW i \in 1 .. Len(t) PROVE t[i] = u[b.off - Len(t) + i]
    <3> DEFINE j == b.off - Len(t) + i
    <3>1. j \in 1 .. b.off + n
      BY <1>1, <1>3
    <3>2. t[i] = b.buf[j]
      BY <1>3
    <3> HIDE DEF j
    <3>3. t[i] = u[j]
      BY <1>4, <3>1, <3>2
    <3> QED BY <3>3 DEF j
  <2>2. ~(r.lastRead > opInvalid) /\ r.lastRead # opRead
    BY DEF opInvalid, opRead
  <2> QED BY <1>3, <1>6, <1>9, <2>1, <2>2 DEF Took
<1> QED BY <1>10, <1>11 DEF d

-----------------------------------------------------------------------------
(***************************************************************************)
(* Steps.                                                                  *)
(***************************************************************************)
LEMMA InvStep ==
  ASSUME Inv, NEW p \in PoolBuffers, scenario' = scenario, free' \in [Stores -> Nat],
         NEW b, NEW st, NEW w, NEW c, NEW t, NEW m, Good(b, st, w, c, t, m),
         b.store \in Stores \cup {Own}, st = "get" /\ b.cap > 0 => ~TooLarge(b, w.n),
         pb' = [pb EXCEPT ![p] = b], pc' = [pc EXCEPT ![p] = st],
         pend' = [pend EXCEPT ![p] = w], content' = [content EXCEPT ![p] = c],
         taken' = [taken EXCEPT ![p] = t], promise' = [promise EXCEPT ![p] = m]
  PROVE  Inv'
<1>1. ASSUME NEW q \in PoolBuffers
      PROVE  Good(pb[q], pc[q], pend[q], content[q], taken[q], promise[q])'
  <2>1. CASE q = p
    BY <2>1 DEF Inv
  <2>2. CASE q # p
    BY <2>2 DEF Inv
  <2> QED BY <2>1, <2>2
<1>2. ASSUME NEW q \in PoolBuffers
      PROVE  /\ (pb[q].store \in Stores \cup {Own})'
             /\ (pc[q] = "get" /\ pb[q].cap > 0 => ~TooLarge(pb[q], pend[q].n))'
  <2>1. CASE q = p
    BY <2>1 DEF Inv, TooLarge, Stores, Own
  <2>2. CASE q # p
    BY <2>2 DEF Inv, TooLarge, Stores, Own
  <2> QED BY <2>1, <2>2
<1>3. /\ b \in Structs /\ st \in Phases /\ w \in Pending /\ c \in Seq(Bytes)
      /\ t \in Seq(Bytes) /\ m \in Nat
  <2>1. Nothing \in Pending
    BY EmptySeq DEF Nothing, Pending
  <2> QED BY <2>1 DEF Good, Sound, Holds, Took, Waits
<1>4. /\ pb' \in [PoolBuffers -> Structs] /\ pc' \in [PoolBuffers -> Phases]
      /\ pend' \in [PoolBuffers -> Pending] /\ content' \in [PoolBuffers -> Seq(Bytes)]
      /\ taken' \in [PoolBuffers -> Seq(Bytes)] /\ promise' \in [PoolBuffers -> Nat]
  BY <1>3 DEF Inv
<1>5. scenario' \in Scenarios /\ free' \in [Stores' -> Nat]
  BY DEF Inv, Stores
<1> QED BY <1>1, <1>2, <1>4, <1>5 DEF Inv

LEMMA InvParts ==
  ASSUME Inv, NEW p \in PoolBuffers
  PROVE  /\ Good(pb[p], pc[p], pend[p], content[p], taken[p], promise[p])
         /\ Sound(pb[p]) /\ Holds(pb[p], content[p]) /\ Took(pb[p], taken[p])
         /\ promise[p] \in Nat /\ promise[p] <= pb[p].cap - Len(pb[p].buf)
         /\ pc[p] \in Phases /\ (pc[p] = "none" => pb[p].cap = 0)
         /\ pc[p] = "get" => Waits(pb[p], pend[p], promise[p])
         /\ pc[p] # "get" => pend[p] = Nothing
         /\ pb[p].store \in Stores \cup {Own}
         /\ pc[p] = "get" /\ pb[p].cap > 0 => ~TooLarge(pb[p], pend[p].n)
BY DEF Inv, Good

\* What the code's operations are called with.
LEMMA ScenarioFacts ==
  ASSUME Inv
  PROVE  /\ scenario.users \subseteq PoolBuffers /\ Stores \subseteq Nat \ {0}
         /\ scenario.extra \subseteq Nat /\ scenario.sizes \subseteq Nat
         /\ scenario.maxInt \in Nat /\ scenario.maxLen \in Nat
         /\ Own \notin Stores /\ scenario.bytes \subseteq Bytes
BY ScenariosAssumption DEF Inv, Stores, Own, Bytes

\* The common shape of the steps: the struct of p is Forget(b).
LEMMA BecomesStep ==
  ASSUME Inv, NEW p \in PoolBuffers, scenario' = scenario, free' \in [Stores -> Nat],
         NEW b, NEW st, NEW w, NEW c, NEW t, NEW m, Good(b, st, w, c, t, m),
         b.store \in Stores \cup {Own}, st = "get" /\ b.cap > 0 => ~TooLarge(b, w.n),
         Becomes(p, b), pc' = [pc EXCEPT ![p] = st],
         pend' = [pend EXCEPT ![p] = w], content' = [content EXCEPT ![p] = c],
         taken' = [taken EXCEPT ![p] = t], promise' = [promise EXCEPT ![p] = m]
  PROVE  Inv'
<1>1. Good(Forget(b), st, w, c, t, m)
  BY ForgetGood
<1>2. Sound(b)
  BY DEF Good
<1>3. Forget(b).store = b.store /\ Forget(b).cap = b.cap
  BY <1>2, ForgetFacts
<1>4. st = "get" /\ Forget(b).cap > 0 => ~TooLarge(Forget(b), w.n)
  BY <1>3 DEF TooLarge
<1>5. pb' = [pb EXCEPT ![p] = Forget(b)]
  BY DEF Becomes
<1> QED BY <1>1, <1>3, <1>4, <1>5, InvStep

\* A call returns, or ReadFrom goes on: nothing waits then.
LEMMA StoredStep ==
  ASSUME Inv, NEW p \in PoolBuffers, scenario' = scenario, free' \in [Stores -> Nat],
         NEW b, Sound(b), Holds(b, content[p]), Took(b, IF b.off = 0 THEN <<>> ELSE taken[p]),
         b.store \in Stores \cup {Own}, promise[p] <= b.cap - Len(b.buf),
         NEW n \in Nat, n <= b.cap - Len(b.buf), NEW s \in Seq(Bytes),
         Len(s) <= b.cap - Len(b.buf),
         NEW then \in {"out", "read", "grow"}, Stored(p, b, n, s, then),
         pend' = [pend EXCEPT ![p] = Nothing]
  PROVE  Inv'
<1> DEFINE e == Extended(b, s)
           m == Larger(0, Larger(promise[p], n) - Len(s))
           t == IF b.off = 0 THEN <<>> ELSE taken[p]
<1>1. /\ Sound(e) /\ Holds(e, content[p] \o s) /\ Took(e, IF b.off = 0 THEN <<>> ELSE t)
      /\ Len(e.buf) = Len(b.buf) + Len(s) /\ e.cap = b.cap /\ e.store = b.store
  <2> HIDE DEF t, Bytes
  <2>1. Took(b, t)
    BY DEF t
  <2> QED BY <2>1, ExtendedGood
<1>2. Took(e, t)
  BY <1>1
<1>3. m \in Nat /\ m <= e.cap - Len(e.buf)
  <2>1. promise[p] \in Nat /\ Len(s) \in Nat /\ Len(b.buf) \in Nat /\ b.cap \in Nat
    BY LenProperties, StructFacts, InvParts
  <2>2. e.cap - Len(e.buf) = b.cap - Len(b.buf) - Len(s)
    BY <1>1, <2>1
  <2> QED BY <2>1, <2>2 DEF Larger
<1>4. /\ Becomes(p, e) /\ pc' = [pc EXCEPT ![p] = then]
      /\ content' = [content EXCEPT ![p] = content[p] \o s]
      /\ taken' = [taken EXCEPT ![p] = t] /\ promise' = [promise EXCEPT ![p] = m]
  <2>1. content[p] = content[p] /\ content \in [PoolBuffers -> Seq(Bytes)]
        /\ taken \in [PoolBuffers -> Seq(Bytes)] /\ promise \in [PoolBuffers -> Nat]
    BY DEF Inv
  <2> QED BY <2>1 DEF Stored
<1> HIDE DEF e, m, t
<1>5. Good(e, then, Nothing, content[p] \o s, t, m)
  BY <1>1, <1>2, <1>3 DEF Good, Phases
<1> QED BY <1>1, <1>4, <1>5, BecomesStep

\* grow(n) and a store of s, from a struct b that is as good as that of p.
LEMMA GrownStep ==
  ASSUME Inv, NEW p \in PoolBuffers, pc[p] # "get",
         NEW b, Sound(b), Holds(b, content[p]), Took(b, IF b.off = 0 THEN <<>> ELSE taken[p]),
         b.store = pb[p].store, b.cap = pb[p].cap, Len(b.buf) <= Len(pb[p].buf),
         NEW n \in Nat, NEW s \in Seq(Bytes), Len(s) <= n,
         NEW then \in {"out", "read"}, Grown(p, b, n, s, then)
  PROVE  Inv'
<1> DEFINE t == IF b.off = 0 THEN <<>> ELSE taken[p]
<1>1. /\ promise[p] \in Nat /\ promise[p] <= b.cap - Len(b.buf) /\ pend[p] = Nothing
      /\ b.store \in Stores \cup {Own} /\ b.cap \in Nat /\ Len(b.buf) \in Nat
      /\ Len(pb[p].buf) \in Nat /\ Len(b.buf) <= b.cap /\ Length(b) \in Nat
      /\ Length(b) <= Len(b.buf) /\ Len(s) \in Nat
  <2>1. /\ promise[p] \in Nat /\ promise[p] <= pb[p].cap - Len(pb[p].buf)
        /\ pend[p] = Nothing /\ pb[p].store \in Stores \cup {Own} /\ Sound(pb[p])
    BY InvParts
  <2>2. /\ b.cap \in Nat /\ Len(b.buf) \in Nat /\ Len(pb[p].buf) \in Nat
        /\ Len(b.buf) <= b.cap /\ b.off \in Nat /\ b.off <= Len(b.buf)
        /\ Length(b) = Len(b.buf) - b.off
    BY <2>1, StructFacts
  <2>3. Len(s) \in Nat
    BY LenProperties
  <2>4. \A k, j, i, m \in Nat : m <= k - j /\ i <= j => m <= k - i
    OBVIOUS
  <2>5. promise[p] <= b.cap - Len(pb[p].buf)
    BY <2>1
  <2>6. promise[p] <= b.cap - Len(b.buf)
    BY <2>1, <2>2, <2>4, <2>5
  <2>7. Length(b) \in Nat /\ Length(b) <= Len(b.buf)
    BY <2>2
  <2> QED BY <2>1, <2>2, <2>3, <2>6, <2>7
<1>2. pend = [pend EXCEPT ![p] = Nothing] /\ free \in [Stores -> Nat]
  BY <1>1 DEF Inv
<1>3. CASE /\ Fits(b, n) /\ Stored(p, b, n, s, then) /\ UNCHANGED <<scenario, free, pend>>
  <2>1. n <= b.cap - Len(b.buf)
    BY <1>3 DEF Fits
  <2>2. Len(s) <= b.cap - Len(b.buf)
    BY <1>1, <2>1
  <2> HIDE DEF Bytes
  <2> QED BY <1>1, <1>2, <1>3, <2>1, <2>2, StoredStep
<1>4. CASE /\ ~Fits(b, n) /\ Slides(b, n) /\ Stored(p, Slid(b), n, s, then)
           /\ UNCHANGED <<scenario, free, pend>>
  <2>1. /\ Sound(Slid(b)) /\ Holds(Slid(b), content[p]) /\ Took(Slid(b), <<>>)
        /\ Len(Slid(b).buf) = Length(b) /\ Slid(b).cap = b.cap /\ Slid(b).off = 0
        /\ Slid(b).store = b.store
    BY SlidGood
  <2>2. n <= b.cap - Length(b) /\ Len(s) <= b.cap - Length(b) /\ promise[p] <= b.cap - Length(b)
    <3>1. n <= b.cap \div 2 - Length(b)
      BY <1>4 DEF Slides
    <3>2. \A x \in Nat : x \div 2 \in Nat /\ x \div 2 <= x
      OBVIOUS
    <3>3. b.cap \div 2 \in Nat /\ b.cap \div 2 <= b.cap
      BY <1>1, <3>2
    <3> DEFINE h == b.cap \div 2
    <3> HIDE DEF h
    <3>4. h \in Nat /\ h <= b.cap /\ n <= h - Length(b)
      BY <3>1, <3>3 DEF h
    <3> QED BY <1>1, <3>4
  <2>3. Took(Slid(b), IF Slid(b).off = 0 THEN <<>> ELSE taken[p])
    BY <2>1
  <2> DEFINE d == Slid(b)
  <2>4. Stored(p, d, n, s, then) /\ scenario' = scenario /\ free' \in [Stores -> Nat]
        /\ pend' = [pend EXCEPT ![p] = Nothing]
    BY <1>2, <1>4
  <2>5. /\ Sound(d) /\ Holds(d, content[p]) /\ Took(d, IF d.off = 0 THEN <<>> ELSE taken[p])
        /\ d.store \in Stores \cup {Own} /\ promise[p] <= d.cap - Len(d.buf)
        /\ n <= d.cap - Len(d.buf) /\ Len(s) <= d.cap - Len(d.buf)
    BY <1>1, <2>1, <2>2, <2>3
  <2>6. then \in {"out", "read", "grow"}
    OBVIOUS
  <2> HIDE DEF d, Bytes
  <2> QED BY <2>4, <2>5, <2>6, StoredStep
<1>5. CASE /\ ~Fits(b, n) /\ ~Slides(b, n) /\ Becomes(p, b)
           /\ IF TooLarge(b, n)
              THEN pc' = [pc EXCEPT ![p] = "out"] /\ UNCHANGED pend
              ELSE /\ pc' = [pc EXCEPT ![p] = "get"]
                   /\ pend' = [pend EXCEPT ![p] = [n |-> n, put |-> s, then |-> then]]
           /\ taken' = [taken EXCEPT ![p] = t]
           /\ UNCHANGED <<scenario, free, content, promise>>
  <2>1. /\ content' = [content EXCEPT ![p] = content[p]]
        /\ promise' = [promise EXCEPT ![p] = promise[p]]
    BY <1>5 DEF Inv
  <2>2. n > promise[p]
    BY <1>1, <1>5 DEF Fits
  <2>3. CASE TooLarge(b, n)
    <3>1. pc' = [pc EXCEPT ![p] = "out"] /\ pend' = [pend EXCEPT ![p] = Nothing]
      BY <1>2, <1>5, <2>3
    <3>2. Good(b, "out", Nothing, content[p], t, promise[p])
      BY <1>1 DEF Good, Phases
    <3> HIDE DEF t
    <3> QED BY <1>1, <1>2, <1>5, <2>1, <3>1, <3>2, BecomesStep
  <2>4. CASE ~TooLarge(b, n)
    <3> DEFINE w == [n |-> n, put |-> s, then |-> then]
    <3>1. pc' = [pc EXCEPT ![p] = "get"] /\ pend' = [pend EXCEPT ![p] = w]
      BY <1>5, <2>4
    <3>2. w \in Pending /\ w.n = n /\ w.put = s /\ w.then = then
      BY DEF Pending
    <3> HIDE DEF w, t
    <3>3. Waits(b, w, promise[p])
      BY <1>5, <2>2, <3>2 DEF Waits
    <3>4. Good(b, "get", w, content[p], t, promise[p])
      BY <1>1, <3>3 DEF Good, Phases, t
    <3> QED BY <1>1, <1>2, <1>5, <2>1, <2>4, <3>1, <3>2, <3>4, BecomesStep
  <2> QED BY <2>3, <2>4
<1>6. \/ /\ Fits(b, n) /\ Stored(p, b, n, s, then) /\ UNCHANGED <<scenario, free, pend>>
      \/ /\ ~Fits(b, n) /\ Slides(b, n) /\ Stored(p, Slid(b), n, s, then)
         /\ UNCHANGED <<scenario, free, pend>>
      \/ /\ ~Fits(b, n) /\ ~Slides(b, n) /\ Becomes(p, b)
         /\ IF TooLarge(b, n)
            THEN pc' = [pc EXCEPT ![p] = "out"] /\ UNCHANGED pend
            ELSE /\ pc' = [pc EXCEPT ![p] = "get"]
                 /\ pend' = [pend EXCEPT ![p] = [n |-> n, put |-> s, then |-> then]]
         /\ taken' = [taken EXCEPT ![p] = t]
         /\ UNCHANGED <<scenario, free, content, promise>>
  <2>1. taken[p] = taken[p] /\ taken \in [PoolBuffers -> Seq(Bytes)]
    BY DEF Inv
  <2> QED BY <2>1, Zenon DEF Grown
<1> QED BY <1>3, <1>4, <1>5, <1>6

\* Recovered is what grow begins with; the rest is GrownStep.
LEMMA RecoveredStep ==
  ASSUME Inv, NEW p \in PoolBuffers, pc[p] # "get",
         NEW b, Sound(b), Holds(b, content[p]), Took(b, taken[p]),
         b.store = pb[p].store, b.cap = pb[p].cap, b.buf = pb[p].buf,
         NEW n \in Nat, NEW s \in Seq(Bytes), Len(s) <= n,
         NEW then \in {"out", "read"}, Grown(p, Recovered(b), n, s, then)
  PROVE  Inv'
<1> DEFINE d == Recovered(b)
<1>1. /\ Sound(d) /\ Holds(d, content[p]) /\ Took(d, IF d.off = 0 THEN <<>> ELSE taken[p])
      /\ Len(d.buf) <= Len(pb[p].buf) /\ d.cap = pb[p].cap /\ d.store = pb[p].store
  <2> HIDE DEF d
  <2>1. /\ Sound(d) /\ Holds(d, content[p]) /\ Took(d, IF d.off = 0 THEN <<>> ELSE taken[p])
        /\ Len(d.buf) <= Len(b.buf) /\ d.cap = b.cap /\ d.store = b.store
    BY RecoveredGood DEF d
  <2> QED BY <2>1
<1> HIDE DEF Bytes
<1> QED BY <1>1, GrownStep

LEMMA AppendStep ==
  ASSUME Inv, NEW p \in PoolBuffers, NEW n \in Nat, NEW s \in Seq(Bytes), Len(s) <= n,
         AppendBytes(p, n, s)
  PROVE  Inv'
<1> DEFINE b == Did(pb[p], opInvalid)
<1>1. Sound(pb[p]) /\ Holds(pb[p], content[p]) /\ Took(pb[p], taken[p])
  BY InvParts
<1>2. /\ Sound(b) /\ Holds(b, content[p]) /\ Took(b, taken[p])
      /\ b.buf = pb[p].buf /\ b.off = pb[p].off /\ b.cap = pb[p].cap
      /\ b.store = pb[p].store
  BY <1>1, DidGood
<1>3. /\ pc[p] # "get"
      /\ Grown(p, IF Fits(b, n) THEN b ELSE Recovered(b), n, s, "out")
  <2>1. pc[p] = "out" /\ Grown(p, IF Fits(b, n) THEN b ELSE Recovered(b), n, s, "out")
    BY Zenon DEF AppendBytes, Called
  <2> QED BY <2>1
<1> HIDE DEF b, Bytes
<1>4. CASE Fits(b, n)
  <2>1. Grown(p, b, n, s, "out")
    BY <1>3, <1>4
  <2>2. Took(b, IF b.off = 0 THEN <<>> ELSE taken[p])
    <3>1. b.off = 0 => taken[p] = <<>>
      <4>1. taken[p] \in Seq(Bytes) /\ Len(taken[p]) <= b.off
        BY <1>2 DEF Took
      <4>2. Len(taken[p]) \in Nat
        BY <4>1, LenProperties
      <4> QED BY <4>1, <4>2, EmptySeq
    <3> QED BY <1>2, <3>1
  <2>3. Len(b.buf) <= Len(pb[p].buf)
    BY <1>1, <1>2, StructFacts
  <2> QED BY <1>2, <1>3, <2>1, <2>2, <2>3, GrownStep
<1>5. CASE ~Fits(b, n)
  <2>1. Grown(p, Recovered(b), n, s, "out")
    BY <1>3, <1>5
  <2> QED BY <1>2, <1>3, <2>1, RecoveredStep
<1> QED BY <1>4, <1>5

LEMMA GrowStep ==
  ASSUME Inv, NEW p \in PoolBuffers, NEW n \in Nat, pc[p] # "get",
         NEW then \in {"out", "read"}, Grown(p, Recovered(pb[p]), n, <<>>, then)
  PROVE  Inv'
<1> DEFINE s == <<>>
<1>1. s \in Seq(Bytes) /\ Len(s) <= n
  BY EmptySeq
<1>2. Grown(p, Recovered(pb[p]), n, s, then)
  OBVIOUS
<1>3. Sound(pb[p]) /\ Holds(pb[p], content[p]) /\ Took(pb[p], taken[p])
  BY InvParts
<1> HIDE DEF s, Bytes
<1> QED BY <1>1, <1>2, <1>3, RecoveredStep

LEMMA ReadFromStep ==
  ASSUME Inv, NEW p \in PoolBuffers, ReadFrom(p)
  PROVE  Inv'
<1> DEFINE b == Did(pb[p], opInvalid)
<1>1. /\ Sound(pb[p]) /\ Holds(pb[p], content[p]) /\ Took(pb[p], taken[p])
      /\ promise[p] \in Nat /\ promise[p] <= pb[p].cap - Len(pb[p].buf)
      /\ pb[p].store \in Stores \cup {Own}
  BY InvParts
<1>2. /\ Sound(b) /\ Holds(b, content[p]) /\ Took(b, taken[p])
      /\ b.buf = pb[p].buf /\ b.off = pb[p].off /\ b.cap = pb[p].cap
      /\ b.store = pb[p].store
  BY <1>1, DidGood
<1>3. /\ pc[p] = "out" /\ Becomes(p, b) /\ pc' = [pc EXCEPT ![p] = "grow"]
      /\ scenario' = scenario /\ free' = free /\ pend' = pend /\ content' = content
      /\ taken' = taken /\ promise' = promise
  BY DEF ReadFrom, Called, refVars
<1>4. /\ free' \in [Stores -> Nat] /\ pend[p] = Nothing /\ pend' = [pend EXCEPT ![p] = Nothing]
      /\ content' = [content EXCEPT ![p] = content[p]]
      /\ taken' = [taken EXCEPT ![p] = taken[p]]
      /\ promise' = [promise EXCEPT ![p] = promise[p]]
  <2>1. pend[p] = Nothing
    BY <1>3, InvParts
  <2> QED BY <1>3, <2>1 DEF Inv
<1> HIDE DEF b
<1> DEFINE c == content[p]
           t == taken[p]
           m == promise[p]
<1>5. Good(b, "grow", Nothing, c, t, m)
  BY <1>1, <1>2 DEF Good, Phases
<1>6. /\ content' = [content EXCEPT ![p] = c] /\ taken' = [taken EXCEPT ![p] = t]
      /\ promise' = [promise EXCEPT ![p] = m] /\ b.store \in Stores \cup {Own}
  BY <1>1, <1>2, <1>4
<1> HIDE DEF c, t, m
<1>7. /\ scenario' = scenario /\ free' \in [Stores -> Nat]
      /\ Becomes(p, b) /\ pc' = [pc EXCEPT ![p] = "grow"]
      /\ pend' = [pend EXCEPT ![p] = Nothing]
  BY <1>3, <1>4
<1> QED BY <1>5, <1>6, <1>7, BecomesStep

LEMMA ReadFromReadStep ==
  ASSUME Inv, NEW p \in PoolBuffers, NEW s \in Seq(Bytes), ReadFromRead(p, s)
  PROVE  Inv'
<1>1. /\ Sound(pb[p]) /\ Holds(pb[p], content[p]) /\ Took(pb[p], taken[p])
      /\ promise[p] \in Nat /\ promise[p] <= pb[p].cap - Len(pb[p].buf)
      /\ pb[p].store \in Stores \cup {Own}
  BY InvParts
<1>2. PICK then \in {"grow", "out"} : Stored(p, pb[p], 0, s, then)
  BY Zenon DEF ReadFromRead
<1>3. /\ pc[p] = "read" /\ Len(s) <= pb[p].cap - Len(pb[p].buf)
      /\ scenario' = scenario /\ free' = free /\ pend' = pend
  BY DEF ReadFromRead
<1>4. free' \in [Stores -> Nat] /\ pend' = [pend EXCEPT ![p] = Nothing]
  <2>1. pend[p] = Nothing
    BY <1>3, InvParts
  <2> QED BY <1>3, <2>1 DEF Inv
<1>5. 0 <= pb[p].cap - Len(pb[p].buf) /\ 0 \in Nat /\ then \in {"out", "read", "grow"}
  BY <1>1, StructFacts
<1> HIDE DEF Bytes
<1>6. Took(pb[p], IF pb[p].off = 0 THEN <<>> ELSE taken[p])
  <2>1. pb[p].off = 0 => taken[p] = <<>>
    <3>1. taken[p] \in Seq(Bytes) /\ Len(taken[p]) <= pb[p].off
      BY <1>1 DEF Took
    <3>2. Len(taken[p]) \in Nat
      BY <3>1, LenProperties
    <3> QED BY <3>1, <3>2, EmptySeq
  <2> QED BY <1>1, <2>1
<1> DEFINE b == pb[p]
           zero == 0
<1>7. /\ Sound(b) /\ Holds(b, content[p]) /\ Took(b, IF b.off = 0 THEN <<>> ELSE taken[p])
      /\ b.store \in Stores \cup {Own} /\ promise[p] <= b.cap - Len(b.buf)
      /\ zero \in Nat /\ zero <= b.cap - Len(b.buf) /\ Len(s) <= b.cap - Len(b.buf)
      /\ Stored(p, b, zero, s, then)
  BY <1>1, <1>2, <1>3, <1>5, <1>6
<1> HIDE DEF b, zero
<1>8. scenario' = scenario /\ then \in {"out", "read", "grow"}
  BY <1>3
<1> QED BY <1>4, <1>7, <1>8, StoredStep

LEMMA NewStep ==
  ASSUME Inv, NEW p \in PoolBuffers, NEW n \in Nat, New(p, n)
  PROVE  Inv'
<1> DEFINE w == [n |-> n, put |-> <<>>, then |-> "out"]
<1>1. /\ Sound(pb[p]) /\ Holds(pb[p], content[p]) /\ Took(pb[p], taken[p])
      /\ promise[p] \in Nat /\ promise[p] <= pb[p].cap - Len(pb[p].buf)
      /\ pb[p].store \in Stores \cup {Own}
  BY InvParts
<1>2. /\ pc[p] = "none" /\ pc' = [pc EXCEPT ![p] = "get"] /\ pend' = [pend EXCEPT ![p] = w]
      /\ scenario' = scenario /\ free' = free /\ pb' = pb /\ content' = content
      /\ taken' = taken /\ promise' = promise
  BY DEF New, refVars
<1>3. pb[p].cap = 0
  BY <1>2, InvParts
<1>4. w \in Pending /\ Len(w.put) <= w.n /\ w.then # "none"
  BY EmptySeq DEF Pending
<1>5. /\ free' \in [Stores -> Nat] /\ pb' = [pb EXCEPT ![p] = pb[p]]
      /\ content' = [content EXCEPT ![p] = content[p]]
      /\ taken' = [taken EXCEPT ![p] = taken[p]]
      /\ promise' = [promise EXCEPT ![p] = promise[p]]
  BY <1>2 DEF Inv
<1> HIDE DEF w
<1>6. Good(pb[p], "get", w, content[p], taken[p], promise[p])
  <2>1. Waits(pb[p], w, promise[p])
    BY <1>3, <1>4 DEF Waits
  <2> QED BY <1>1, <2>1 DEF Good, Phases
<1> DEFINE b == pb[p]
           c == content[p]
           t == taken[p]
           m == promise[p]
<1>7. /\ Good(b, "get", w, c, t, m) /\ b.store \in Stores \cup {Own} /\ ~(b.cap > 0)
      /\ pb' = [pb EXCEPT ![p] = b] /\ content' = [content EXCEPT ![p] = c]
      /\ taken' = [taken EXCEPT ![p] = t] /\ promise' = [promise EXCEPT ![p] = m]
  BY <1>1, <1>3, <1>5, <1>6
<1> HIDE DEF b, c, t, m
<1>8. /\ scenario' = scenario /\ free' \in [Stores -> Nat]
      /\ pc' = [pc EXCEPT ![p] = "get"] /\ pend' = [pend EXCEPT ![p] = w]
  BY <1>2, <1>5
<1> QED BY <1>7, <1>8, InvStep

LEMMA CloseStep ==
  ASSUME Inv, NEW p \in PoolBuffers, Close(p)
  PROVE  Inv'
<1> DEFINE none == <<>>
<1>1. /\ pc[p] = "out" /\ free' = Returned(free, pb[p].store)
      /\ pb' = [pb EXCEPT ![p] = NoBuffer] /\ pc' = [pc EXCEPT ![p] = "none"]
      /\ content' = [content EXCEPT ![p] = none] /\ taken' = [taken EXCEPT ![p] = none]
      /\ promise' = [promise EXCEPT ![p] = 0] /\ scenario' = scenario /\ pend' = pend
  BY DEF Close
<1>2. pb[p].store \in Stores \cup {Own} /\ pend[p] = Nothing
  BY <1>1, InvParts
<1>3. free' \in [Stores -> Nat] /\ pend' = [pend EXCEPT ![p] = Nothing]
  BY <1>1, <1>2 DEF Inv, Returned
<1>4. /\ NoBuffer \in Structs /\ NoBuffer.buf = none /\ NoBuffer.off = 0
      /\ NoBuffer.lastRead = 0 /\ NoBuffer.cap = 0 /\ NoBuffer.store = Own
  BY EmptySeq DEF NoBuffer, Structs, opInvalid, Own
<1>5. none \in Seq(Bytes) /\ Len(none) = 0
  BY EmptySeq
<1> HIDE DEF none
<1>6. Sound(NoBuffer)
  BY <1>4, <1>5, SizesAssumption DEF Sound, opRead
<1>7. Good(NoBuffer, "none", Nothing, none, none, 0)
  <2>1. Holds(NoBuffer, none) /\ Took(NoBuffer, none)
    BY <1>4, <1>5 DEF Holds, Took, Length
  <2> QED BY <1>4, <1>5, <1>6, <2>1 DEF Good, Phases
<1> QED BY <1>1, <1>3, <1>4, <1>7, InvStep

\* What growSlice asks for is room enough for the request and the promise.
LEMMA AskedFits ==
  ASSUME NEW b, Sound(b), NEW n \in Nat
  PROVE  /\ GrowSize(b, n) \in Nat /\ n <= GrowSize(b, n) - Length(b)
         /\ b.cap - Len(b.buf) <= GrowSize(b, n) - Length(b)
         /\ Length(b) + b.off + n <= GrowSize(b, n) /\ 2 * (b.cap - b.off) <= GrowSize(b, n)
         /\ GrowSize(b, n) = Length(b) + b.off + n \/ GrowSize(b, n) = 2 * (b.cap - b.off)
<1>1. /\ Len(b.buf) \in Nat /\ b.off \in Nat /\ b.off <= Len(b.buf)
      /\ Len(b.buf) <= b.cap /\ b.cap \in Nat /\ Length(b) = Len(b.buf) - b.off
  BY StructFacts
<1> DEFINE l == Len(b.buf)
           o == b.off
           c == b.cap
           e == Length(b)
           g == GrowSize(b, n)
<1>2. g = IF e + o + n < 2 * (c - o) THEN 2 * (c - o) ELSE e + o + n
  BY DEF GrowSize, Larger
<1>3. l \in Nat /\ o \in Nat /\ c \in Nat /\ o <= l /\ l <= c /\ e = l - o
  BY <1>1
<1> HIDE DEF l, o, c, e, g
<1>4. /\ g \in Nat /\ n <= g - e /\ c - l <= g - e /\ e + o + n <= g /\ 2 * (c - o) <= g
      /\ g = e + o + n \/ g = 2 * (c - o)
  BY <1>2, <1>3
<1> QED BY <1>4 DEF l, o, c, e, g

\* pool.Get has returned a buffer of cap bytes, and the old one was closed.
LEMMA GotStep ==
  ASSUME Inv, NEW p \in PoolBuffers, pc[p] = "get", scenario' = scenario,
         free' \in [Stores -> Nat], NEW cap \in Nat, Asked(p) <= cap,
         NEW store \in Stores \cup {Own},
         Stored(p, Moved(pb[p], cap, store), pend[p].n, pend[p].put, pend[p].then),
         pend' = [pend EXCEPT ![p] = Nothing]
  PROVE  Inv'
<1> DEFINE b == pb[p]
           d == Moved(pb[p], cap, store)
           n == pend[p].n
           s == pend[p].put
           then == pend[p].then
<1>1. /\ Sound(b) /\ Holds(b, content[p]) /\ promise[p] \in Nat
      /\ promise[p] <= b.cap - Len(b.buf) /\ Waits(b, pend[p], promise[p])
  BY InvParts
<1>2. n \in Nat /\ s \in Seq(Bytes) /\ then \in {"out", "read", "grow"} /\ Len(s) <= n
  BY <1>1 DEF Waits, Pending
<1>3. store \in Nat
  BY ScenarioFacts DEF Own
<1>4. /\ Length(b) \in Nat /\ GrowSize(b, n) <= cap /\ Len(b.buf) \in Nat /\ b.cap \in Nat
      /\ Len(s) \in Nat
  BY <1>1, <1>2, StructFacts, LenProperties DEF Asked
<1>5. /\ GrowSize(b, n) \in Nat /\ n <= GrowSize(b, n) - Length(b)
      /\ b.cap - Len(b.buf) <= GrowSize(b, n) - Length(b)
  BY <1>1, <1>2, AskedFits
<1> DEFINE l == Length(b)
           g == GrowSize(b, n)
           z == Len(s)
           y == Len(b.buf)
<1>6. Length(b) <= cap /\ n <= cap - Length(b) /\ promise[p] <= cap - Length(b)
      /\ Len(s) <= cap - Length(b)
  <2>1. /\ l \in Nat /\ g <= cap /\ g \in Nat /\ n <= g - l /\ y \in Nat /\ b.cap \in Nat
        /\ b.cap - y <= g - l /\ n \in Nat /\ promise[p] \in Nat /\ promise[p] <= b.cap - y
        /\ z <= n /\ z \in Nat
    BY <1>1, <1>2, <1>4, <1>5
  <2> HIDE DEF l, g, z, n, y, b
  <2>2. l <= cap /\ n <= cap - l /\ promise[p] <= cap - l /\ z <= cap - l
    BY <2>1
  <2> QED BY <2>2 DEF l, z
<1> HIDE DEF b
<1>7. /\ Sound(d) /\ Holds(d, content[p]) /\ Took(d, <<>>)
      /\ Len(d.buf) = Length(b) /\ d.cap = cap /\ d.off = 0 /\ d.store = store
  <2>1. d = Moved(b, cap, store)
    BY DEF b
  <2> HIDE DEF d, Bytes
  <2> QED BY <1>1, <1>3, <1>6, <2>1, MovedGood
<1>8. Stored(p, d, n, s, then)
  OBVIOUS
<1> HIDE DEF d, n, s, then
<1>9. /\ Took(d, IF d.off = 0 THEN <<>> ELSE taken[p]) /\ d.store \in Stores \cup {Own}
      /\ promise[p] <= d.cap - Len(d.buf) /\ n <= d.cap - Len(d.buf)
      /\ Len(s) <= d.cap - Len(d.buf)
  BY <1>6, <1>7
<1> HIDE DEF Bytes
<1> QED BY <1>2, <1>7, <1>8, <1>9, StoredStep

LEMMA GetReturnsStep ==
  ASSUME Inv, NEW p \in PoolBuffers, GetReturns(p)
  PROVE  Inv'
<1>1. PICK store \in StoreFor(Asked(p)), x \in scenario.extra \cup {0} :
        /\ free[store] > 0
        /\ free' = Returned([free EXCEPT ![store] = @ - 1], pb[p].store)
        /\ Stored(p, Moved(pb[p], store + x, store), pend[p].n, pend[p].put, pend[p].then)
  BY Zenon DEF GetReturns
<1>2. /\ pc[p] = "get" /\ pend' = [pend EXCEPT ![p] = Nothing] /\ scenario' = scenario
  BY DEF GetReturns
<1>3. /\ Stores \subseteq Nat \ {0} /\ scenario.extra \subseteq Nat
      /\ pb[p].store \in Stores \cup {Own} /\ Sound(pb[p]) /\ Waits(pb[p], pend[p], promise[p])
  BY <1>2, InvParts, ScenarioFacts
<1>4. store \in Stores /\ store >= Asked(p)
  BY DEF StoreFor
<1>5. free' \in [Stores -> Nat]
  <2>1. free \in [Stores -> Nat] /\ free[store] - 1 \in Nat
    BY <1>1, <1>4 DEF Inv
  <2> DEFINE f == [free EXCEPT ![store] = @ - 1]
  <2>2. f \in [Stores -> Nat]
    BY <1>4, <2>1
  <2> HIDE DEF f
  <2>3. ASSUME NEW s \in Stores \cup {Own} PROVE Returned(f, s) \in [Stores -> Nat]
    BY <2>2 DEF Returned
  <2>4. Returned(f, pb[p].store) \in [Stores -> Nat]
    BY <1>3, <2>3
  <2> QED BY <1>1, <2>4 DEF f
<1> DEFINE cap == store + x
<1>6. cap \in Nat /\ Asked(p) <= cap
  <2>1. Asked(p) \in Nat
    BY <1>3, AskedFits DEF Asked, Waits, Pending
  <2> QED BY <1>3, <1>4, <2>1
<1>7. Stored(p, Moved(pb[p], cap, store), pend[p].n, pend[p].put, pend[p].then)
  BY <1>1
<1> HIDE DEF cap
<1> QED BY <1>2, <1>4, <1>5, <1>6, <1>7, GotStep

LEMMA GetAllocatesStep ==
  ASSUME Inv, NEW p \in PoolBuffers, GetAllocates(p)
  PROVE  Inv'
<1>1. /\ pc[p] = "get" /\ pend' = [pend EXCEPT ![p] = Nothing] /\ scenario' = scenario
      /\ \/ /\ Stored(p, Moved(pb[p], Asked(p), Own), pend[p].n, pend[p].put, pend[p].then)
            /\ free' = Returned(free, pb[p].store)
         \/ /\ pc' = [pc EXCEPT ![p] = IF pb[p].cap = 0 THEN "none" ELSE "out"]
            /\ UNCHANGED <<free, pb, refVars>>
  BY Zenon DEF GetAllocates
<1>2. /\ pb[p].store \in Stores \cup {Own} /\ Waits(pb[p], pend[p], promise[p])
      /\ Sound(pb[p]) /\ Holds(pb[p], content[p]) /\ Took(pb[p], taken[p])
      /\ promise[p] \in Nat /\ promise[p] <= pb[p].cap - Len(pb[p].buf)
  BY <1>1, InvParts
<1>3. CASE /\ Stored(p, Moved(pb[p], Asked(p), Own), pend[p].n, pend[p].put, pend[p].then)
           /\ free' = Returned(free, pb[p].store)
  <2>1. free' \in [Stores -> Nat]
    BY <1>2, <1>3 DEF Inv, Returned
  <2> DEFINE cap == Asked(p)
             store == Own
  <2>2. cap \in Nat /\ Asked(p) <= cap
    BY <1>2, AskedFits DEF Asked, Waits, Pending
  <2>3. Stored(p, Moved(pb[p], cap, store), pend[p].n, pend[p].put, pend[p].then)
    BY <1>3
  <2>4. store \in Stores \cup {Own}
    OBVIOUS
  <2> HIDE DEF cap, store
  <2> QED BY <1>1, <2>1, <2>2, <2>3, <2>4, GotStep
<1>4. CASE /\ pc' = [pc EXCEPT ![p] = IF pb[p].cap = 0 THEN "none" ELSE "out"]
           /\ UNCHANGED <<free, pb, refVars>>
  <2> DEFINE st == IF pb[p].cap = 0 THEN "none" ELSE "out"
             b == pb[p]
             c == content[p]
             t == taken[p]
             m == promise[p]
  <2>1. Good(b, st, Nothing, c, t, m)
    BY <1>2 DEF Good, Phases
  <2>2. /\ free' \in [Stores -> Nat] /\ pb' = [pb EXCEPT ![p] = b]
        /\ content' = [content EXCEPT ![p] = c] /\ taken' = [taken EXCEPT ![p] = t]
        /\ promise' = [promise EXCEPT ![p] = m] /\ pc' = [pc EXCEPT ![p] = st]
    BY <1>4 DEF Inv, refVars
  <2>3. st # "get" /\ b.store \in Stores \cup {Own}
    BY <1>2
  <2>4. scenario' = scenario /\ pend' = [pend EXCEPT ![p] = Nothing]
    BY <1>1
  <2> HIDE DEF st, b, c, t, m
  <2> QED BY <2>1, <2>2, <2>3, <2>4, InvStep
<1> QED BY <1>1, <1>3, <1>4

LEMMA ConsumeStep ==
  ASSUME Inv, NEW p \in PoolBuffers, pc[p] = "out",
         NEW k \in Nat, k <= Length(pb[p]), NEW op \in opRead .. UTFMax,
         op = opRead => k > 0 \/ IsEmpty(pb[p]), op > opInvalid => op = k /\ k <= 2,
         Consume(p, k, op)
  PROVE  Inv'
<1> DEFINE b == pb[p]
           c == content[p]
           t == taken[p]
           m == promise[p]
           r == [b EXCEPT !.off = @ + k, !.lastRead = op]
           u == IF k = 0 THEN t ELSE SubSeq(c, Larger(1, k - 1), k)
           d == SubSeq(c, k + 1, Len(c))
<1>1. /\ Sound(b) /\ Holds(b, c) /\ Took(b, t) /\ m \in Nat /\ m <= b.cap - Len(b.buf)
      /\ b.store \in Stores \cup {Own} /\ pend[p] = Nothing
  BY InvParts
<1>2. /\ b.off \in Nat /\ Len(b.buf) \in Nat /\ Length(b) = Len(b.buf) - b.off
      /\ b.off + k \in Nat /\ b.off + k <= Len(b.buf) /\ k <= Len(c) /\ op \in Int
  <2>1. /\ b.off \in Nat /\ Len(b.buf) \in Nat /\ Length(b) = Len(b.buf) - b.off
        /\ k <= Length(b) /\ Len(c) = Length(b)
    BY <1>1, StructFacts DEF Holds
  <2>2. b.off + k \in Nat /\ b.off + k <= Len(b.buf) /\ k <= Len(c)
    BY <2>1
  <2>3. op \in Int
    BY SizesAssumption DEF opRead
  <2> QED BY <2>1, <2>2, <2>3
<1>3. /\ Becomes(p, r) /\ content' = [content EXCEPT ![p] = d]
      /\ taken' = [taken EXCEPT ![p] = u]
      /\ scenario' = scenario /\ free' \in [Stores -> Nat] /\ pc' = [pc EXCEPT ![p] = "out"]
      /\ pend' = [pend EXCEPT ![p] = Nothing] /\ promise' = [promise EXCEPT ![p] = m]
  <2>1. Becomes(p, r) /\ content' = [content EXCEPT ![p] = d]
    BY Zenon DEF Consume
  <2>2. taken' = [taken EXCEPT ![p] = u]
    BY Zenon DEF Consume
  <2>3. /\ scenario' = scenario /\ free' = free /\ pc' = pc /\ pend' = pend
        /\ promise' = promise
    BY Zenon DEF Consume
  <2> HIDE DEF r, u, d
  <2>4. /\ free' \in [Stores -> Nat] /\ pc' = [pc EXCEPT ![p] = "out"]
        /\ pend' = [pend EXCEPT ![p] = Nothing] /\ promise' = [promise EXCEPT ![p] = m]
    BY <1>1, <2>3 DEF Inv
  <2> QED BY <2>1, <2>2, <2>3, <2>4
<1>4. k = 0 => u = t
  OBVIOUS
<1>5. k > 0 => u = SubSeq(c, Larger(1, k - 1), k)
  <2>1. k > 0 => k # 0
    OBVIOUS
  <2> QED BY Zenon, <2>1
<1>6. op = opRead => k > 0 \/ IsEmpty(b)
  OBVIOUS
<1> HIDE DEF u
<1>7. /\ Sound(r) /\ r.buf = b.buf /\ r.off = b.off + k /\ r.lastRead = op
      /\ r.cap = b.cap /\ r.store = b.store
  <2> DEFINE off == b.off + k
  <2>1. r = [b EXCEPT !.off = off, !.lastRead = op]
    OBVIOUS
  <2>2. off \in Nat /\ off <= Len(b.buf) /\ Sound(b) /\ b \in Structs
    BY <1>1, <1>2 DEF Sound
  <2> HIDE DEF off, r, b
  <2>3. r = [buf |-> b.buf, off |-> off, lastRead |-> op, cap |-> b.cap, store |-> b.store]
    BY <2>1, <2>2 DEF Structs
  <2>4. /\ Sound(r) /\ r.buf = b.buf /\ r.off = off /\ r.lastRead = op
        /\ r.cap = b.cap /\ r.store = b.store
    BY <2>2, <2>3, NewOffset
  <2> QED BY <2>4 DEF off
<1> HIDE DEF r, b, c, t
<1>8. Holds(r, d) /\ Took(r, u)
  BY <1>1, <1>2, <1>4, <1>5, <1>6, <1>7, ReadGood
<1> HIDE DEF d, m
<1>9. Good(r, "out", Nothing, d, u, m) /\ r.store \in Stores \cup {Own}
  BY <1>1, <1>7, <1>8 DEF Good, Phases
<1> QED BY <1>3, <1>9, BecomesStep

LEMMA EmptiedStep ==
  ASSUME Inv, NEW p \in PoolBuffers, pc[p] = "out", Emptied(p)
  PROVE  Inv'
<1> DEFINE r == Reset(pb[p])
           none == <<>>
           m == promise[p]
<1>1. /\ Sound(pb[p]) /\ m \in Nat /\ m <= pb[p].cap - Len(pb[p].buf)
      /\ pb[p].store \in Stores \cup {Own} /\ pend[p] = Nothing
  BY InvParts
<1>2. pb[p].cap \in Nat /\ Len(pb[p].buf) \in Nat
  BY <1>1, StructFacts
<1>3. /\ Sound(r) /\ Holds(r, none) /\ Took(r, none) /\ r.cap = pb[p].cap
      /\ r.store = pb[p].store /\ Len(r.buf) = 0
  BY <1>1, ResetGood
<1>4. /\ Becomes(p, r) /\ content' = [content EXCEPT ![p] = none]
      /\ taken' = [taken EXCEPT ![p] = none]
      /\ scenario' = scenario /\ free' = free /\ pc' = pc /\ pend' = pend
      /\ promise' = promise
  BY Zenon DEF Emptied
<1> HIDE DEF r, none
<1>5. /\ free' \in [Stores -> Nat] /\ pc' = [pc EXCEPT ![p] = "out"]
      /\ pend' = [pend EXCEPT ![p] = Nothing] /\ promise' = [promise EXCEPT ![p] = m]
  BY <1>1, <1>4 DEF Inv
<1>6. m <= r.cap - Len(r.buf)
  BY <1>1, <1>2, <1>3
<1> HIDE DEF m
<1>7. Good(r, "out", Nothing, none, none, m) /\ r.store \in Stores \cup {Own}
  BY <1>1, <1>3, <1>6 DEF Good, Phases
<1>8. /\ Becomes(p, r) /\ content' = [content EXCEPT ![p] = none]
      /\ taken' = [taken EXCEPT ![p] = none] /\ scenario' = scenario
  BY <1>4
<1> QED BY <1>5, <1>7, <1>8, BecomesStep

\* An Unread of k bytes; s is what it asks for, if there are as many.
LEMMA RestoreStep ==
  ASSUME Inv, NEW p \in PoolBuffers, NEW k \in Nat, k > 0, NEW s,
         pb[p].off > 0 =>
           /\ s \in Seq(Bytes) /\ Len(s) = k /\ k <= pb[p].off
           /\ \A i \in 1 .. k : s[i] = pb[p].buf[pb[p].off - k + i],
         Restore(p, k, s)
  PROVE  Inv'
<1> DEFINE b == Did(pb[p], opInvalid)
           r == [b EXCEPT !.off = @ - k]
           none == <<>>
           m == promise[p]
           c == content[p]
<1>1. /\ Sound(pb[p]) /\ m \in Nat /\ m <= pb[p].cap - Len(pb[p].buf)
      /\ Holds(pb[p], c) /\ Took(pb[p], taken[p])
      /\ pb[p].store \in Stores \cup {Own}
  BY InvParts
<1>2. /\ Sound(b) /\ Holds(b, c) /\ Took(b, taken[p]) /\ b.buf = pb[p].buf
      /\ b.off = pb[p].off /\ b.cap = pb[p].cap /\ b.store = pb[p].store
      /\ b.lastRead = opInvalid
  BY <1>1, DidGood
<1>3. /\ pc[p] = "out" /\ taken' = [taken EXCEPT ![p] = none]
      /\ scenario' = scenario /\ free' = free /\ pc' = pc /\ pend' = pend
      /\ promise' = promise
  BY Zenon DEF Restore, Called
<1>4. IF b.off >= k THEN Becomes(p, r) /\ content' = [content EXCEPT ![p] = s \o c]
                    ELSE Becomes(p, b) /\ content' = content
  BY Zenon DEF Restore
<1>5. /\ free' \in [Stores -> Nat] /\ pc' = [pc EXCEPT ![p] = "out"]
      /\ pend' = [pend EXCEPT ![p] = Nothing] /\ promise' = [promise EXCEPT ![p] = m]
      /\ scenario' = scenario /\ taken' = [taken EXCEPT ![p] = none]
  <2>1. pend[p] = Nothing
    BY <1>3, InvParts
  <2> HIDE DEF none
  <2> QED BY <1>3, <2>1 DEF Inv
<1>6. b.off \in Nat /\ b.off <= Len(b.buf) /\ Len(b.buf) \in Nat /\ b \in Structs
  BY <1>2, StructFacts DEF Sound
<1>7. CASE b.off >= k
  <2>1. /\ s \in Seq(Bytes) /\ Len(s) = k /\ k <= b.off
        /\ \A i \in 1 .. k : s[i] = b.buf[b.off - k + i]
    <3>1. pb[p].off > 0
      BY <1>2, <1>6, <1>7
    <3> QED BY <1>2, <3>1
  <2>2. b.off - k \in Nat /\ b.off - k <= Len(b.buf) /\ opInvalid \in opRead .. UTFMax
    BY <1>6, <1>7, SizesAssumption DEF opInvalid, opRead
  <2>3. /\ Sound(r) /\ r.buf = b.buf /\ r.off = b.off - k /\ r.lastRead = opInvalid
        /\ r.cap = b.cap /\ r.store = b.store
    <3> DEFINE off == b.off - k
    <3> HIDE DEF b
    <3>1. r = [buf |-> b.buf, off |-> off, lastRead |-> opInvalid, cap |-> b.cap,
               store |-> b.store]
      <4>1. r = [b EXCEPT !.off = off]
        OBVIOUS
      <4> HIDE DEF off, r
      <4>2. r = [buf |-> b.buf, off |-> off, lastRead |-> b.lastRead, cap |-> b.cap,
                 store |-> b.store]
        BY <1>6, <4>1 DEF Structs
      <4>3. b.lastRead = opInvalid
        BY <1>2
      <4> QED BY Zenon, <4>2, <4>3
    <3> HIDE DEF off, r
    <3>2. off \in Nat /\ off <= Len(b.buf)
      BY <2>2 DEF off
    <3>3. /\ Sound(r) /\ r.buf = b.buf /\ r.off = off /\ r.lastRead = opInvalid
          /\ r.cap = b.cap /\ r.store = b.store
      BY <1>2, <2>2, <3>1, <3>2, NewOffset
    <3> QED BY <3>3 DEF off
  <2> DEFINE d == s \o c
  <2> HIDE DEF b, r, c
  <2>4. Holds(r, d) /\ Took(r, none)
    BY <1>2, <1>7, <2>1, <2>3, RestoreGood
  <2> HIDE DEF d, none, m
  <2>5. Good(r, "out", Nothing, d, none, m) /\ r.store \in Stores \cup {Own}
    BY <1>1, <1>2, <2>3, <2>4 DEF Good, Phases
  <2>6. Becomes(p, r) /\ content' = [content EXCEPT ![p] = d]
    BY <1>4, <1>7 DEF d
  <2> QED BY <1>5, <2>5, <2>6, BecomesStep
<1>8. CASE ~(b.off >= k)
  <2>1. b.off = 0
    BY <1>2, <1>6, <1>8
  <2>2. Took(b, none)
    BY <2>1, EmptySeq DEF Took
  <2>3. Becomes(p, b) /\ content' = [content EXCEPT ![p] = c]
    BY <1>4, <1>8 DEF Inv
  <2> HIDE DEF b, c, none, m
  <2>4. Good(b, "out", Nothing, c, none, m) /\ b.store \in Stores \cup {Own}
    BY <1>1, <1>2, <2>2 DEF Good, Phases
  <2> QED BY <1>5, <2>3, <2>4, BecomesStep
<1> QED BY <1>7, <1>8

LEMMA SmallerFits ==
  ASSUME NEW x \in Nat, NEW y \in Nat
  PROVE  /\ Smaller(x, y) \in Nat /\ Smaller(x, y) <= x /\ Smaller(x, y) <= y
BY DEF Smaller

LEMMA ReadOpFits ==
  ASSUME NEW k \in Nat
  PROVE  /\ ReadOp(k) \in opRead .. UTFMax /\ (ReadOp(k) = opRead => k > 0)
         /\ ~(ReadOp(k) > opInvalid)
BY SizesAssumption DEF ReadOp, opRead, opInvalid

LEMMA ReadStep ==
  ASSUME Inv, NEW p \in PoolBuffers, NEW n \in Nat, Read(p, n) \/ NextBytes(p, n)
  PROVE  Inv'
<1> DEFINE k == Smaller(n, Length(pb[p]))
<1>1. pc[p] = "out" /\ (Emptied(p) \/ Consume(p, k, ReadOp(k)))
  BY DEF Read, NextBytes, Called
<1>2. Length(pb[p]) \in Nat
  BY InvParts, StructFacts
<1>3. k \in Nat /\ k <= Length(pb[p])
  BY <1>2, SmallerFits
<1> HIDE DEF k
<1>4. CASE Emptied(p)
  BY <1>1, <1>4, EmptiedStep
<1>5. CASE Consume(p, k, ReadOp(k))
  <2> DEFINE op == ReadOp(k)
  <2>1. /\ op \in opRead .. UTFMax /\ (op = opRead => k > 0 \/ IsEmpty(pb[p]))
        /\ (op > opInvalid => op = k /\ k <= 2)
    BY <1>3, ReadOpFits
  <2>2. Consume(p, k, op)
    BY <1>5
  <2> HIDE DEF op
  <2> QED BY <1>1, <1>3, <2>1, <2>2, ConsumeStep
<1> QED BY <1>1, <1>4, <1>5

LEMMA ReadRuneStep ==
  ASSUME Inv, NEW p \in PoolBuffers, ReadRune(p)
  PROVE  Inv'
<1> DEFINE s == Unread(pb[p])
           k == RuneLength(s)
<1>1. pc[p] = "out" /\ IF IsEmpty(pb[p]) THEN Emptied(p) ELSE Consume(p, k, k)
  BY DEF ReadRune, Called
<1>2. /\ Length(pb[p]) \in Nat /\ Len(s) = Length(pb[p])
      /\ (~IsEmpty(pb[p]) => Length(pb[p]) > 0)
  <2>1. Sound(pb[p]) /\ Holds(pb[p], content[p])
    BY InvParts
  <2>2. /\ Len(pb[p].buf) \in Nat /\ pb[p].off \in Nat /\ pb[p].off <= Len(pb[p].buf)
        /\ Length(pb[p]) = Len(pb[p].buf) - pb[p].off
        /\ (IsEmpty(pb[p]) <=> Len(pb[p].buf) = pb[p].off)
    BY <2>1, StructFacts
  <2>3. Len(s) = Length(pb[p])
    BY <2>1, UnreadIs
  <2> HIDE DEF s
  <2> QED BY <2>2, <2>3
<1>3. k \in {1, 2} /\ (k = 2 => Len(s) > 1)
  BY DEF RuneLength
<1> HIDE DEF k, s
<1>4. CASE IsEmpty(pb[p])
  BY <1>1, <1>4, EmptiedStep
<1>5. CASE ~IsEmpty(pb[p])
  <2>1. k \in Nat /\ k <= Length(pb[p]) /\ k # opRead /\ k <= 2
    BY <1>2, <1>3, <1>5 DEF opRead
  <2>2. k \in opRead .. UTFMax
    BY <1>3, SizesAssumption DEF opRead
  <2>3. Consume(p, k, k)
    BY <1>1, <1>5
  <2> QED BY <1>1, <2>1, <2>2, <2>3, ConsumeStep
<1> QED BY <1>4, <1>5

LEMMA ReadSliceStep ==
  ASSUME Inv, NEW p \in PoolBuffers, NEW delim, ReadSlice(p, delim)
  PROVE  Inv'
<1> DEFINE s == Unread(pb[p])
<1>1. PICK k \in 0 .. Len(s) :
        /\ IF k = 0 THEN s = <<>> ELSE k = Len(s) \/ s[k] = delim
        /\ Consume(p, k, opRead)
  BY DEF ReadSlice
<1>2. pc[p] = "out"
  BY DEF ReadSlice, Called
<1>3. Length(pb[p]) \in Nat /\ Len(s) = Length(pb[p]) /\ (Length(pb[p]) = 0 => IsEmpty(pb[p]))
  <2>1. Sound(pb[p]) /\ Holds(pb[p], content[p])
    BY InvParts
  <2>2. /\ Len(pb[p].buf) \in Nat /\ pb[p].off \in Nat /\ pb[p].off <= Len(pb[p].buf)
        /\ Length(pb[p]) = Len(pb[p].buf) - pb[p].off
        /\ (IsEmpty(pb[p]) <=> Len(pb[p].buf) = pb[p].off)
    BY <2>1, StructFacts
  <2>3. Len(s) = Length(pb[p])
    BY <2>1, UnreadIs
  <2> HIDE DEF s
  <2> QED BY <2>2, <2>3
<1>4. k = 0 => IsEmpty(pb[p])
  <2>1. k = 0 => s = <<>>
    BY <1>1
  <2>2. Len(<<>>) = 0
    BY EmptySeq
  <2> QED BY <1>3, <2>1, <2>2
<1>5. k \in Nat /\ k <= Length(pb[p]) /\ (k > 0 \/ IsEmpty(pb[p]))
  BY <1>3, <1>4
<1> DEFINE op == opRead
<1>6. op \in opRead .. UTFMax /\ ~(op > opInvalid) /\ Consume(p, k, op)
  BY <1>1, SizesAssumption DEF opRead, opInvalid
<1> HIDE DEF op
<1> QED BY <1>2, <1>5, <1>6, ConsumeStep

LEMMA WriteToStep ==
  ASSUME Inv, NEW p \in PoolBuffers, NEW k \in Nat, WriteTo(p, k)
  PROVE  Inv'
<1> DEFINE op == opInvalid
<1>1. /\ pc[p] = "out" /\ k <= Length(pb[p])
      /\ Emptied(p) \/ Consume(p, k, op)
  BY DEF WriteTo, Called
<1>2. op \in opRead .. UTFMax /\ op # opRead /\ ~(op > opInvalid)
  BY SizesAssumption DEF opRead, opInvalid
<1> HIDE DEF op
<1>3. CASE Emptied(p)
  BY <1>1, <1>3, EmptiedStep
<1>4. CASE Consume(p, k, op)
  BY <1>1, <1>2, <1>4, ConsumeStep
<1> QED BY <1>1, <1>3, <1>4

LEMMA UnreadStep ==
  ASSUME Inv, NEW p \in PoolBuffers, UnreadRune(p) \/ UnreadByte(p)
  PROVE  Inv'
<1> DEFINE b == pb[p]
           t == taken[p]
<1>1. Sound(b) /\ Took(b, t)
  BY InvParts
<1> HIDE DEF b, t
<1>2. /\ b.off \in Nat /\ b.lastRead \in Int /\ opInvalid = 0
      /\ b.lastRead > opInvalid /\ b.off > 0 =>
            /\ Len(t) = b.lastRead /\ t \in Seq(Bytes) /\ Len(t) <= b.off
            /\ \A i \in 1 .. Len(t) : t[i] = b.buf[b.off - Len(t) + i]
      /\ b.lastRead # opInvalid /\ b.off > 0 =>
            LET s == SubSeq(t, Len(t), Len(t))
            IN  /\ Len(s) = 1 /\ s \in Seq(Bytes)
                /\ \A i \in 1 .. 1 : s[i] = b.buf[b.off - 1 + i]
  <2>1. b.off \in Nat /\ b.lastRead \in Int /\ opInvalid = 0
    BY <1>1, StructFacts DEF opInvalid
  <2> HIDE DEF Bytes
  <2> QED BY <1>1, <2>1, UnreadAsks
<1>3. CASE UnreadRune(p)
  <2> DEFINE k == b.lastRead
  <2>1. b.lastRead > opInvalid /\ Restore(p, b.lastRead, t)
    BY <1>3 DEF UnreadRune, b, t
  <2>2. b.off > 0 => /\ t \in Seq(Bytes) /\ Len(t) = k /\ k <= b.off
                     /\ \A i \in 1 .. k : t[i] = b.buf[b.off - k + i]
    BY <1>2, <2>1
  <2>3. k \in Nat /\ k > 0 /\ Restore(p, k, t)
    BY <1>2, <2>1
  <2> HIDE DEF k, Bytes
  <2>4. pb[p].off > 0 => /\ t \in Seq(Bytes) /\ Len(t) = k /\ k <= pb[p].off
                         /\ \A i \in 1 .. k : t[i] = pb[p].buf[pb[p].off - k + i]
    BY <2>2 DEF b
  <2> QED BY <2>3, <2>4, RestoreStep
<1>4. CASE UnreadByte(p)
  <2> DEFINE s == SubSeq(t, Len(t), Len(t))
             k == 1
  <2>1. b.lastRead # opInvalid /\ Restore(p, k, s)
    BY <1>4 DEF UnreadByte, b, t
  <2>2. b.off > 0 => /\ s \in Seq(Bytes) /\ Len(s) = k /\ k <= b.off
                     /\ \A i \in 1 .. k : s[i] = b.buf[b.off - k + i]
    BY <1>2, <2>1
  <2>3. k \in Nat /\ k > 0
    OBVIOUS
  <2> HIDE DEF s, k, Bytes
  <2>4. pb[p].off > 0 => /\ s \in Seq(Bytes) /\ Len(s) = k /\ k <= pb[p].off
                         /\ \A i \in 1 .. k : s[i] = pb[p].buf[pb[p].off - k + i]
    BY <2>2 DEF b
  <2> QED BY <2>1, <2>3, <2>4, RestoreStep
<1> QED BY <1>3, <1>4

LEMMA TruncateStep ==
  ASSUME Inv, NEW p \in PoolBuffers, NEW n \in Nat, Truncate(p, n)
  PROVE  Inv'
<1> DEFINE b == Did(pb[p], opInvalid)
           c == content[p]
           t == taken[p]
           m == promise[p]
           r == [b EXCEPT !.buf = SubSeq(@, 1, b.off + n)]
<1>1. /\ Sound(pb[p]) /\ m \in Nat /\ m <= pb[p].cap - Len(pb[p].buf)
      /\ Holds(pb[p], c) /\ Took(pb[p], t)
      /\ pb[p].store \in Stores \cup {Own}
  BY InvParts
<1>2. /\ Sound(b) /\ Holds(b, c) /\ Took(b, t) /\ b.buf = pb[p].buf
      /\ b.off = pb[p].off /\ b.cap = pb[p].cap /\ b.store = pb[p].store
      /\ b.lastRead = opInvalid
  BY <1>1, DidGood
<1>3. CASE n = 0
  <2>1. pc[p] = "out" /\ Emptied(p)
    BY <1>3 DEF Truncate, Called
  <2> QED BY <2>1, EmptiedStep
<1>4. CASE n # 0
  <2>1. pc[p] = "out"
    BY DEF Truncate, Called
  <2>2. /\ IF n > Length(b)
           THEN Becomes(p, b) /\ content' = content
           ELSE Becomes(p, r) /\ content' = [content EXCEPT ![p] = SubSeq(c, 1, n)]
        /\ scenario' = scenario /\ free' = free /\ pc' = pc /\ pend' = pend
        /\ taken' = taken /\ promise' = promise
    BY Zenon, <1>4 DEF Truncate
  <2> HIDE DEF b, r
  <2>3. /\ free' \in [Stores -> Nat] /\ pc' = [pc EXCEPT ![p] = "out"]
        /\ pend' = [pend EXCEPT ![p] = Nothing] /\ promise' = [promise EXCEPT ![p] = m]
        /\ scenario' = scenario /\ taken' = [taken EXCEPT ![p] = t]
    <3>1. pend[p] = Nothing
      BY <2>1, InvParts
    <3> QED BY <2>1, <2>2, <3>1 DEF Inv
  <2>4. CASE n > Length(b)
    <3>1. Becomes(p, b) /\ content' = [content EXCEPT ![p] = c]
      BY <2>2, <2>4 DEF Inv
    <3> HIDE DEF c, t, m
    <3>2. Good(b, "out", Nothing, c, t, m) /\ b.store \in Stores \cup {Own}
      BY <1>1, <1>2 DEF Good, Phases
    <3> QED BY <2>3, <3>1, <3>2, BecomesStep
  <2>5. CASE ~(n > Length(b))
    <3> DEFINE d == SubSeq(c, 1, n)
    <3>1. n > 0 /\ n <= Length(b) /\ Len(b.buf) \in Nat /\ b.cap \in Nat
      BY <1>2, <1>4, <2>5, StructFacts
    <3> DEFINE u == SubSeq(b.buf, 1, b.off + n)
    <3>2. r = [b EXCEPT !.buf = u]
      BY DEF r
    <3>3. /\ u \in Seq(Bytes \cup {Junk}) /\ Len(u) = b.off + n
      BY <1>2, <3>1, TruncatedBytes
    <3> HIDE DEF c, t, m, u
    <3>4. /\ b \in Structs /\ b.off \in Nat /\ Len(b.buf) <= b.cap
          /\ b.lastRead \in opRead .. UTFMax /\ Length(b) = Len(b.buf) - b.off
      BY <1>2, StructFacts DEF Sound
    <3>5. /\ r \in Structs /\ r.buf = u /\ r.off = b.off /\ r.lastRead = b.lastRead
          /\ r.cap = b.cap /\ r.store = b.store
      BY <3>2, <3>3, <3>4 DEF Structs
    <3>6. b.off <= Len(u) /\ Len(u) <= Len(b.buf) /\ Len(u) <= b.cap /\ Len(u) \in Nat
      BY <3>1, <3>3, <3>4
    <3>7. Sound(r)
      BY <3>4, <3>5, <3>6 DEF Sound
    <3>8. /\ r.buf = SubSeq(b.buf, 1, b.off + n) /\ r.off = b.off
          /\ r.lastRead = opInvalid
      BY <1>2, <3>5 DEF u
    <3>9. /\ Sound(b) /\ Holds(b, c) /\ Took(b, t) /\ b.lastRead = opInvalid
          /\ n > 0 /\ n <= Length(b)
      BY <1>2, <3>1
    <3>10. Holds(r, d) /\ Took(r, t)
      BY <3>7, <3>8, <3>9, TruncateGood
    <3>11. m <= r.cap - Len(r.buf)
      BY <1>1, <1>2, <3>1, <3>5, <3>6 DEF m
    <3> HIDE DEF d
    <3>12. Good(r, "out", Nothing, d, t, m) /\ r.store \in Stores \cup {Own}
      BY <1>1, <1>2, <3>5, <3>7, <3>10, <3>11 DEF Good, Phases
    <3>13. Becomes(p, r) /\ content' = [content EXCEPT ![p] = d]
      BY <2>2, <2>5 DEF d, c
    <3> QED BY <2>3, <3>12, <3>13, BecomesStep
  <2> QED BY <2>4, <2>5
<1> QED BY <1>3, <1>4

LEMMA TextsFacts ==
  ASSUME Inv, NEW s \in Texts
  PROVE  s \in Seq(Bytes) /\ Len(s) \in Nat
<1>1. PICK n \in scenario.sizes \cup {0} : s \in [1 .. n -> scenario.bytes]
  BY DEF Texts
<1>2. n \in Nat
  BY <1>1, ScenarioFacts
<1>3. s \in [1 .. n -> Bytes]
  BY <1>1, ScenarioFacts
<1> HIDE DEF Bytes
<1>4. s \in Seq(Bytes)
  BY <1>2, <1>3
<1> QED BY <1>4, LenProperties

LEMMA InvInit == Init => Inv
<1> SUFFICES ASSUME Init PROVE Inv
  OBVIOUS
<1> DEFINE none == <<>>
<1>1. /\ NoBuffer \in Structs /\ NoBuffer.buf = none /\ NoBuffer.off = 0
      /\ NoBuffer.lastRead = 0 /\ NoBuffer.cap = 0 /\ NoBuffer.store = Own
  BY EmptySeq DEF NoBuffer, Structs, opInvalid, Own
<1>2. none \in Seq(Bytes) /\ Len(none) = 0 /\ Nothing \in Pending
  BY EmptySeq DEF Nothing, Pending
<1>3. /\ scenario \in Scenarios /\ free = scenario.stock
      /\ pb = [p \in PoolBuffers |-> NoBuffer] /\ pc = [p \in PoolBuffers |-> "none"]
      /\ pend = [p \in PoolBuffers |-> Nothing] /\ content = [p \in PoolBuffers |-> none]
      /\ taken = [p \in PoolBuffers |-> none] /\ promise = [p \in PoolBuffers |-> 0]
  BY Zenon DEF Init
<1>4. free \in [Stores -> Nat]
  BY <1>3, ScenariosAssumption DEF Stores
<1> HIDE DEF none
<1>5. Sound(NoBuffer)
  BY <1>1, <1>2, SizesAssumption DEF Sound, opRead
<1>6. Good(NoBuffer, "none", Nothing, none, none, 0)
  <2>1. Holds(NoBuffer, none) /\ Took(NoBuffer, none)
    BY <1>1, <1>2 DEF Holds, Took, Length
  <2> QED BY <1>1, <1>2, <1>5, <2>1 DEF Good, Phases
<1>7. ASSUME NEW p \in PoolBuffers
      PROVE  /\ Good(pb[p], pc[p], pend[p], content[p], taken[p], promise[p])
             /\ pb[p].store \in Stores \cup {Own}
             /\ (pc[p] = "get" /\ pb[p].cap > 0 => ~TooLarge(pb[p], pend[p].n))
  BY <1>1, <1>3, <1>6
<1>8. /\ pb \in [PoolBuffers -> Structs] /\ pc \in [PoolBuffers -> Phases]
      /\ pend \in [PoolBuffers -> Pending] /\ content \in [PoolBuffers -> Seq(Bytes)]
      /\ taken \in [PoolBuffers -> Seq(Bytes)] /\ promise \in [PoolBuffers -> Nat]
  BY <1>1, <1>2, <1>3 DEF Phases
<1> QED BY <1>3, <1>4, <1>7, <1>8 DEF Inv

LEMMA InvNext ==
  ASSUME Inv, [Next]_vars
  PROVE  Inv'
<1>1. CASE UNCHANGED vars
  <2>1. /\ scenario' = scenario /\ free' = free /\ pb' = pb /\ pc' = pc /\ pend' = pend
        /\ content' = content /\ taken' = taken /\ promise' = promise
    BY <1>1 DEF vars, refVars
  <2>2. \A p \in PoolBuffers : TooLarge(pb[p], pend[p].n)' <=> TooLarge(pb[p], pend[p].n)
    BY <2>1 DEF TooLarge
  <2> QED BY <2>1, <2>2 DEF Inv, Stores
<1>2. CASE Next
  <2>1. PICK p \in scenario.users :
          \/ \E n \in scenario.sizes : New(p, n) \/ Grow(p, n)
          \/ GetReturns(p) \/ GetAllocates(p)
          \/ Writing(p) \/ Reading(p)
          \/ Close(p)
    BY Zenon, <1>2 DEF Next
  <2>2. p \in PoolBuffers /\ scenario.sizes \subseteq Nat
    BY ScenarioFacts
  <2>3. ASSUME NEW n \in scenario.sizes, New(p, n) \/ Grow(p, n) PROVE Inv'
    <3>1. n \in Nat
      BY <2>2
    <3>2. CASE New(p, n)
      BY <2>2, <3>1, <3>2, NewStep
    <3>3. CASE Grow(p, n)
      <4>1. pc[p] # "get" /\ Grown(p, Recovered(pb[p]), n, <<>>, "out")
        BY <3>3 DEF Grow, Called
      <4> QED BY <2>2, <3>1, <4>1, GrowStep
    <3> QED BY <2>3, <3>2, <3>3
  <2>4. CASE GetReturns(p)
    BY <2>2, <2>4, GetReturnsStep
  <2>5. CASE GetAllocates(p)
    BY <2>2, <2>5, GetAllocatesStep
  <2>6. CASE Writing(p)
    <3>1. ASSUME NEW s \in Texts, Write(p, s) \/ ReadFromRead(p, s) PROVE Inv'
      <4>1. s \in Seq(Bytes) /\ Len(s) \in Nat
        BY TextsFacts
      <4>2. CASE Write(p, s)
        <5> DEFINE n == Len(s)
        <5>1. AppendBytes(p, n, s) /\ n \in Nat /\ Len(s) <= n
          BY <4>1, <4>2 DEF Write
        <5> HIDE DEF n, Bytes
        <5> QED BY <2>2, <4>1, <5>1, AppendStep
      <4>3. CASE ReadFromRead(p, s)
        BY <2>2, <4>1, <4>3, ReadFromReadStep
      <4> QED BY <3>1, <4>2, <4>3
    <3>2. CASE WriteRune(p)
      <4> DEFINE s == <<Lead, Cont>>
                 n == UTFMax
      <4>1. s \in Seq(Bytes) /\ Len(s) <= n /\ n \in Nat /\ AppendBytes(p, n, s)
        BY <3>2, SizesAssumption DEF WriteRune, Bytes
      <4> HIDE DEF s, n, Bytes
      <4> QED BY <2>2, <4>1, AppendStep
    <3>3. CASE ReadFrom(p)
      BY <2>2, <3>3, ReadFromStep
    <3>4. CASE ReadFromGrow(p)
      <4> DEFINE n == MinRead
      <4>1. pc[p] # "get" /\ Grown(p, Recovered(pb[p]), n, <<>>, "read") /\ n \in Nat
        BY <3>4, SizesAssumption DEF ReadFromGrow
      <4> HIDE DEF n
      <4> QED BY <2>2, <4>1, GrowStep
    <3> QED BY <2>6, <3>1, <3>2, <3>3, <3>4 DEF Writing
  <2>7. CASE Reading(p)
    <3>1. ASSUME NEW n \in scenario.sizes,
                 Read(p, n) \/ NextBytes(p, n) \/ Truncate(p, n) \/ WriteTo(p, n)
          PROVE  Inv'
      <4>1. n \in Nat
        BY <2>2
      <4>2. CASE Read(p, n) \/ NextBytes(p, n)
        BY <2>2, <4>1, <4>2, ReadStep
      <4>3. CASE Truncate(p, n)
        BY <2>2, <4>1, <4>3, TruncateStep
      <4>4. CASE WriteTo(p, n)
        BY <2>2, <4>1, <4>4, WriteToStep
      <4> QED BY <3>1, <4>2, <4>3, <4>4
    <3>2. CASE ReadRune(p)
      BY <2>2, <3>2, ReadRuneStep
    <3>3. ASSUME NEW delim \in scenario.bytes, ReadSlice(p, delim) PROVE Inv'
      BY <2>2, <3>3, ReadSliceStep
    <3>4. CASE UnreadRune(p) \/ UnreadByte(p)
      BY <2>2, <3>4, UnreadStep
    <3> QED BY <2>7, <3>1, <3>2, <3>3, <3>4 DEF Reading
  <2>8. CASE Close(p)
    BY <2>2, <2>8, CloseStep
  <2> QED BY <2>1, <2>3, <2>4, <2>5, <2>6, <2>7, <2>8
<1> QED BY <1>1, <1>2

LEMMA InvAlways == Spec => []Inv
<1>1. Init => Inv
  BY InvInit
<1>2. Inv /\ [Next]_vars => Inv'
  BY InvNext
<1> QED BY <1>1, <1>2, PTL DEF Spec

-----------------------------------------------------------------------------
(***************************************************************************)
(* Theorems.                                                               *)
(***************************************************************************)

(***************************************************************************)
(* Every variable has its type; in every struct the offset is within the   *)
(* length and the length within the capacity, so that no index of the code *)
(* is out of range; nothing but a call in pool.Get waits.                  *)
(***************************************************************************)
THEOREM TypeCorrect == Spec => []TypeOK
<1>1. Inv => TypeOK
  <2> SUFFICES ASSUME Inv PROVE TypeOK
    OBVIOUS
  <2>1. scenario \in Scenarios /\ free \in [Stores -> Nat] /\ pc \in [PoolBuffers -> Phases]
    BY DEF Inv
  <2>2. ASSUME NEW p \in PoolBuffers
        PROVE  /\ pb[p].buf \in Seq({Ascii, Lead, Cont, Junk})
               /\ pb[p].off \in 0 .. Len(pb[p].buf) /\ Len(pb[p].buf) <= pb[p].cap
               /\ pb[p].lastRead \in opRead .. UTFMax
               /\ pb[p].store \in Stores \cup {Own}
               /\ content[p] \in Seq({Ascii, Lead, Cont})
               /\ taken[p] \in Seq({Ascii, Lead, Cont}) /\ promise[p] \in Nat
               /\ pend[p].n \in Nat /\ (pc[p] # "get" <=> pend[p] = Nothing)
    <3> DEFINE b == pb[p]
    <3>1. /\ Sound(b) /\ Holds(b, content[p]) /\ Took(b, taken[p]) /\ promise[p] \in Nat
          /\ pc[p] = "get" => Waits(b, pend[p], promise[p])
          /\ pc[p] # "get" => pend[p] = Nothing
          /\ b.store \in Stores \cup {Own}
      BY InvParts
    <3> HIDE DEF b
    <3>2. /\ b.buf \in Seq(Bytes \cup {Junk}) /\ b.off \in Nat /\ Len(b.buf) \in Nat
          /\ b.off <= Len(b.buf) /\ Len(b.buf) <= b.cap /\ b.lastRead \in opRead .. UTFMax
      BY <3>1, StructFacts
    <3>3. b.off \in 0 .. Len(b.buf)
      BY <3>2
    <3>4. Bytes \cup {Junk} = {Ascii, Lead, Cont, Junk} /\ Bytes = {Ascii, Lead, Cont}
      BY DEF Bytes
    <3>5. content[p] \in Seq(Bytes) /\ taken[p] \in Seq(Bytes)
      BY <3>1 DEF Holds, Took
    <3>6. pend[p].n \in Nat
      BY DEF Inv, Pending
    <3>7. pc[p] = "get" => pend[p] # Nothing
      BY <3>1 DEF Waits, Nothing
    <3> QED BY <3>1, <3>2, <3>3, <3>4, <3>5, <3>6, <3>7 DEF b
  <2> QED BY <2>1, <2>2 DEF TypeOK, Phases
<1> QED BY <1>1, InvAlways, PTL

(***************************************************************************)
(* A PoolBuffer is a queue of bytes: what is in it is what its caller has  *)
(* written and neither read, truncated nor reset, whatever was moved down, *)
(* copied to a new buffer of the pool, or put back by an Unread meanwhile. *)
(***************************************************************************)
THEOREM QueueOfBytes == Spec => []ContentKept
<1>1. Inv => ContentKept
  <2> SUFFICES ASSUME Inv, NEW p \in PoolBuffers PROVE Unread(pb[p]) = content[p]
    BY DEF ContentKept
  <2>1. Sound(pb[p]) /\ Holds(pb[p], content[p])
    BY InvParts
  <2> QED BY <2>1, UnreadIs
<1> QED BY <1>1, InvAlways, PTL

(***************************************************************************)
(* After Grow(n) or NewPoolBuffer(pool, n), calls that write n bytes at    *)
(* most do not go to the pool, whatever is read, unread, truncated or      *)
(* reset in between.                                                       *)
(***************************************************************************)
THEOREM GrowIsKept == Spec => []GrowKept
<1>1. Inv => GrowKept
  <2> SUFFICES ASSUME Inv, NEW p \in PoolBuffers
               PROVE  /\ pc[p] = "get" => pend[p].n > promise[p] \/ pb[p].cap = 0
                      /\ promise[p] <= pb[p].cap - Len(pb[p].buf)
    BY DEF GrowKept
  <2>1. /\ promise[p] <= pb[p].cap - Len(pb[p].buf)
        /\ pc[p] = "get" => Waits(pb[p], pend[p], promise[p])
    BY InvParts
  <2> QED BY <2>1 DEF Waits
<1> QED BY <1>1, InvAlways, PTL

LEMMA WaitingFor ==
  ASSUME Inv, NEW p \in PoolBuffers, pc[p] = "get", pb[p].cap > 0
  PROVE  /\ Asked(p) > pb[p].cap /\ Asked(p) <= 4 * (Length(pb[p]) + pend[p].n)
         /\ Length(pb[p]) + pb[p].off + pend[p].n <= scenario.maxInt
         /\ 2 * (pb[p].cap - pb[p].off) <= scenario.maxInt
<1> DEFINE b == pb[p]
           n == pend[p].n
           l == Len(b.buf)
           o == b.off
           c == b.cap
           e == Length(b)
           g == GrowSize(b, n)
           z == scenario.maxInt
<1>1. Sound(b) /\ Waits(b, pend[p], promise[p]) /\ ~TooLarge(b, n)
  BY InvParts
<1>2. n \in Nat /\ ~Fits(b, n) /\ ~Slides(b, n)
  BY <1>1 DEF Waits, Pending
<1>3. /\ l \in Nat /\ o \in Nat /\ c \in Nat /\ o <= l /\ l <= c /\ e = l - o /\ z \in Nat
  BY <1>1, StructFacts, ScenarioFacts
<1>4. g = IF e + o + n < 2 * (c - o) THEN 2 * (c - o) ELSE e + o + n
  BY DEF GrowSize, Larger
<1>5. ~(n <= c - l) /\ ~(n <= c \div 2 - e) /\ ~(c > z - c - n)
  BY <1>1, <1>2 DEF Fits, Slides, TooLarge
<1>6. c \div 2 \in Nat /\ c <= 2 * (c \div 2) + 1
  <2>1. \A x \in Nat : x \div 2 \in Nat /\ x <= 2 * (x \div 2) + 1
    OBVIOUS
  <2> QED BY <1>3, <2>1
<1>7. g = Asked(p)
  BY DEF Asked
<1> DEFINE h == c \div 2
<1>8. h \in Nat /\ c <= 2 * h + 1 /\ ~(n <= h - e)
  BY <1>5, <1>6
<1>9. ~(n <= c - l) /\ ~(c > z - c - n)
  BY <1>5
<1> HIDE DEF b, n, l, o, c, e, g, z, h
<1>10. /\ g > c /\ g <= 4 * (e + n) /\ e + o + n <= z /\ 2 * (c - o) <= z
  BY <1>2, <1>3, <1>4, <1>8, <1>9
<1> QED BY <1>7, <1>10 DEF b, n, o, c, e, z

(***************************************************************************)
(* Where grow does not panic with ErrTooLarge, the size it computes for    *)
(* growSlice is an int, whatever the largest int is.                       *)
(***************************************************************************)
THEOREM SizesFit == Spec => []NoOverflow
<1>1. Inv => NoOverflow
  BY WaitingFor DEF NoOverflow
<1> QED BY <1>1, InvAlways, PTL

-----------------------------------------------------------------------------
(***************************************************************************)
(* The buffers behind the PoolBuffers: they have room for what their store *)
(* promises, and none is lost.  Counting needs finite sets: only finitely  *)
(* many PoolBuffers have a buffer of a store, however many there are.      *)
(***************************************************************************)
Holders(s) == {p \in PoolBuffers : pb[p].store = s}

HasRoom == \A p \in PoolBuffers : pb[p].store <= pb[p].cap

StockInv ==
  \A s \in Stores :
    /\ IsFiniteSet(Holders(s))
    /\ free[s] + Cardinality(Holders(s)) = scenario.stock[s]

\* b has the fields of a struct, and the same buffer behind it as x.
IsStruct(b)  == DOMAIN b = {"buf", "off", "lastRead", "cap", "store"}
Behind(b, x) == IsStruct(b) /\ b.store = x.store /\ b.cap = x.cap

\* Only growSlice and Close give a struct another buffer.
LEMMA StoreStays ==
  ASSUME NEW b, NEW x, Behind(b, x)
  PROVE  /\ Behind(Forget(b), x) /\ Behind(Reset(b), x) /\ Behind(Recovered(b), x)
         /\ Behind(Slid(b), x)
         /\ \A op : Behind(Did(b, op), x)
         /\ \A s : Behind(Extended(b, s), x)
         /\ \A off, op : Behind([b EXCEPT !.off = off, !.lastRead = op], x)
         /\ \A off : Behind([b EXCEPT !.off = off], x)
         /\ \A s : Behind([b EXCEPT !.buf = s], x)
<1>0. /\ "buf" \in DOMAIN b /\ "off" \in DOMAIN b /\ "lastRead" \in DOMAIN b
      /\ "store" \in DOMAIN b /\ "cap" \in DOMAIN b /\ b.store = x.store /\ b.cap = x.cap
      /\ DOMAIN b = {"buf", "off", "lastRead", "cap", "store"}
  BY DEF Behind, IsStruct
<1>1. ASSUME NEW r, NEW s, r = [b EXCEPT !.buf = s] PROVE Behind(r, x)
  BY <1>0, <1>1 DEF Behind, IsStruct
<1>2. ASSUME NEW r, NEW s, NEW off, r = [b EXCEPT !.buf = s, !.off = off]
      PROVE  Behind(r, x)
  BY <1>0, <1>2 DEF Behind, IsStruct
<1>3. ASSUME NEW r, NEW s, NEW off, NEW op,
             r = [b EXCEPT !.buf = s, !.off = off, !.lastRead = op]
      PROVE  Behind(r, x)
  BY <1>0, <1>3 DEF Behind, IsStruct
<1>4. ASSUME NEW r, NEW off, NEW op, r = [b EXCEPT !.off = off, !.lastRead = op]
      PROVE  Behind(r, x)
  BY <1>0, <1>4 DEF Behind, IsStruct
<1>5. ASSUME NEW r, NEW off, r = [b EXCEPT !.off = off] PROVE Behind(r, x)
  BY <1>0, <1>5 DEF Behind, IsStruct
<1>6. ASSUME NEW r, NEW op, r = [b EXCEPT !.lastRead = op] PROVE Behind(r, x)
  BY <1>0, <1>6 DEF Behind, IsStruct
<1>7. Behind(Forget(b), x) /\ \A s : Behind(Extended(b, s), x)
  BY Zenon, <1>1 DEF Forget, Extended
<1>8. Behind(Reset(b), x) /\ Behind(Slid(b), x)
  BY Zenon, <1>2, <1>3 DEF Reset, Slid
<1>9. \A op : Behind(Did(b, op), x)
  BY Zenon, <1>6 DEF Did
<1>10. Behind(Recovered(b), x)
  BY <1>8 DEF Recovered
<1>11. /\ \A off, op : Behind([b EXCEPT !.off = off, !.lastRead = op], x)
       /\ \A off : Behind([b EXCEPT !.off = off], x)
       /\ \A s : Behind([b EXCEPT !.buf = s], x)
  BY Zenon, <1>1, <1>4, <1>5
<1> QED BY Zenon, <1>7, <1>8, <1>9, <1>10, <1>11

\* The struct of p changes, with the same buffer behind it as x.
Changes(p, x) ==
  \E b : pb' = [pb EXCEPT ![p] = b] /\ b.store = x.store /\ b.cap = x.cap

LEMMA BecomesChanges ==
  ASSUME NEW p, NEW b, NEW x, Behind(b, x), Becomes(p, b)
  PROVE  Changes(p, x)
<1>1. Behind(Forget(b), x)
  BY StoreStays
<1> QED BY <1>1 DEF Becomes, Changes, Behind

LEMMA StoredChanges ==
  ASSUME NEW p, NEW b, NEW x, Behind(b, x), NEW n, NEW s, NEW then,
         Stored(p, b, n, s, then)
  PROVE  Changes(p, x)
<1>1. Becomes(p, Extended(b, s)) /\ Behind(Extended(b, s), x)
  BY StoreStays DEF Stored
<1> QED BY <1>1, BecomesChanges

LEMMA GrownChanges ==
  ASSUME NEW p, NEW b, NEW x, Behind(b, x), NEW n, NEW s, NEW then,
         Grown(p, b, n, s, then)
  PROVE  Changes(p, x) /\ scenario' = scenario /\ free' = free
<1>1. /\ Stored(p, b, n, s, then) \/ Stored(p, Slid(b), n, s, then) \/ Becomes(p, b)
      /\ scenario' = scenario /\ free' = free
  BY Zenon DEF Grown
<1>2. Behind(Slid(b), x)
  BY StoreStays
<1> QED BY <1>1, <1>2, StoredChanges, BecomesChanges

\* That changes who holds a buffer of s.
LEMMA HoldersChange ==
  ASSUME Inv, NEW p \in PoolBuffers, NEW x, Changes(p, x), NEW s
  PROVE  {q \in PoolBuffers : pb'[q].store = s}
           = (Holders(s) \ {p}) \cup (IF s = x.store THEN {p} ELSE {})
<1>1. PICK b : pb' = [pb EXCEPT ![p] = b] /\ b.store = x.store
  BY DEF Changes
<1>2. /\ pb'[p].store = x.store
      /\ \A q \in PoolBuffers : q # p => pb'[q].store = pb[q].store
  BY <1>1 DEF Inv
<1> QED BY <1>2 DEF Holders

\* p trades its buffer for one as behind x: the stock of a store is one buffer
\* less when it is of that store, and one more when the old buffer was.
Trades(p, x) ==
  /\ Changes(p, x) /\ x.store <= x.cap /\ scenario' = scenario
  /\ \A s \in Stores : free'[s] = free[s] - (IF s = x.store THEN 1 ELSE 0)
                                          + (IF s = pb[p].store THEN 1 ELSE 0)

LEMMA StockChange ==
  ASSUME Inv, StockInv, NEW p \in PoolBuffers, NEW x, Trades(p, x)
  PROVE  StockInv'
<1>1. ASSUME NEW s \in Stores
      PROVE  /\ IsFiniteSet({q \in PoolBuffers : pb'[q].store = s})
             /\ free'[s] + Cardinality({q \in PoolBuffers : pb'[q].store = s})
                  = scenario.stock[s]
  <2> DEFINE H == Holders(s)
             K == {q \in PoolBuffers : pb'[q].store = s}
  <2>0. Changes(p, x)
    BY DEF Trades
  <2>1. K = (H \ {p}) \cup (IF s = x.store THEN {p} ELSE {})
    BY <2>0, HoldersChange
  <2>2. p \in H <=> pb[p].store = s
    BY DEF Holders
  <2>3. /\ IsFiniteSet(H) /\ Cardinality(H) \in Nat /\ free[s] \in Nat
        /\ free[s] + Cardinality(H) = scenario.stock[s]
    BY FS_CardinalityType DEF StockInv, Inv
  <2> HIDE DEF H, K
  <2>4. /\ IsFiniteSet(H \ {p}) /\ Cardinality(H \ {p}) \in Nat
        /\ Cardinality(H \ {p}) = IF p \in H THEN Cardinality(H) - 1 ELSE Cardinality(H)
    BY <2>3, FS_RemoveElement, FS_CardinalityType
  <2>5. /\ IsFiniteSet(K)
        /\ Cardinality(K) = Cardinality(H \ {p}) + (IF s = x.store THEN 1 ELSE 0)
    <3>1. CASE s = x.store
      <4>1. K = (H \ {p}) \cup {p} /\ p \notin H \ {p}
        BY <2>1, <3>1
      <4> QED BY <2>4, <3>1, <4>1, FS_AddElement
    <3>2. CASE s # x.store
      <4>1. K = H \ {p}
        BY <2>1, <3>2
      <4> QED BY <2>4, <3>2, <4>1
    <3> QED BY <3>1, <3>2
  <2>6. free'[s] = free[s] - (IF s = x.store THEN 1 ELSE 0) + (IF p \in H THEN 1 ELSE 0)
    BY <2>2 DEF Trades
  <2>7. free'[s] + Cardinality(K) = scenario.stock[s]
    BY <2>3, <2>4, <2>5, <2>6
  <2> QED BY <2>5, <2>7 DEF K
<1> QED BY <1>1 DEF Trades, StockInv, Holders, Stores

LEMMA RoomChange ==
  ASSUME Inv, HasRoom, NEW p \in PoolBuffers, NEW x, Trades(p, x)
  PROVE  HasRoom'
<1>1. PICK b : /\ pb' = [pb EXCEPT ![p] = b] /\ b.store = x.store /\ b.cap = x.cap
               /\ x.store <= x.cap
  BY DEF Trades, Changes
<1> QED BY <1>1 DEF HasRoom, Inv

\* Nothing is traded.
LEMMA SameTrades ==
  ASSUME Inv, HasRoom, NEW p \in PoolBuffers, Changes(p, pb[p]), scenario' = scenario,
         free' = free
  PROVE  \E x : Trades(p, x)
<1> DEFINE x == pb[p]
<1>1. Changes(p, x) /\ x.store <= x.cap
  BY DEF HasRoom
<1>2. ASSUME NEW s \in Stores
      PROVE  free'[s] = free[s] - (IF s = x.store THEN 1 ELSE 0)
                                + (IF s = pb[p].store THEN 1 ELSE 0)
  <2>1. free[s] \in Nat
    BY DEF Inv
  <2> QED BY <2>1
<1> HIDE DEF x
<1> QED BY <1>1, <1>2 DEF Trades

\* The actions that leave the pool alone.
Local(p) ==
  \/ \E n : New(p, n) \/ Grow(p, n) \/ Read(p, n) \/ NextBytes(p, n) \/ Truncate(p, n)
            \/ WriteTo(p, n)
  \/ \E n, s : AppendBytes(p, n, s) \/ ReadFromRead(p, s)
  \/ ReadFrom(p) \/ ReadFromGrow(p) \/ ReadRune(p)
  \/ \E delim : ReadSlice(p, delim)
  \/ UnreadRune(p) \/ UnreadByte(p)

LEMMA LocalChanges ==
  ASSUME Inv, NEW p \in PoolBuffers, Local(p)
  PROVE  Changes(p, pb[p]) /\ scenario' = scenario /\ free' = free
<1> DEFINE x == pb[p]
           d == Did(pb[p], opInvalid)
<1>1. Behind(pb[p], x)
  BY DEF Inv, Structs, Behind, IsStruct
<1>2. Behind(d, x) /\ Behind(Recovered(d), x) /\ Behind(Recovered(pb[p]), x)
  <2>1. Behind(d, x) /\ Behind(Recovered(pb[p]), x)
    BY <1>1, StoreStays
  <2> QED BY <2>1, StoreStays
<1> HIDE DEF x
<1>3. ASSUME Emptied(p)
      PROVE  Changes(p, x) /\ scenario' = scenario /\ free' = free
  <2>1. Becomes(p, Reset(pb[p])) /\ scenario' = scenario /\ free' = free
    BY Zenon, <1>3 DEF Emptied
  <2>2. Behind(Reset(pb[p]), x)
    BY <1>1, StoreStays
  <2> QED BY <2>1, <2>2, BecomesChanges
<1>4. ASSUME NEW k, NEW op, Consume(p, k, op)
      PROVE  Changes(p, x) /\ scenario' = scenario /\ free' = free
  <2>1. PICK off : /\ Becomes(p, [pb[p] EXCEPT !.off = off, !.lastRead = op])
                   /\ scenario' = scenario /\ free' = free
    BY Zenon, <1>4 DEF Consume
  <2> DEFINE r == [pb[p] EXCEPT !.off = off, !.lastRead = op]
  <2>2. Behind(r, x)
    BY Zenon, <1>1, StoreStays
  <2> HIDE DEF r
  <2>3. Becomes(p, r)
    BY <2>1 DEF r
  <2> QED BY <2>1, <2>2, <2>3, BecomesChanges
<1>5. ASSUME NEW k, NEW s, Restore(p, k, s)
      PROVE  Changes(p, x) /\ scenario' = scenario /\ free' = free
  <2>1. PICK off : /\ Becomes(p, [d EXCEPT !.off = off]) \/ Becomes(p, d)
                   /\ scenario' = scenario /\ free' = free
    BY Zenon, <1>5 DEF Restore
  <2> DEFINE r == [d EXCEPT !.off = off]
  <2> HIDE DEF d
  <2>2. Behind(r, x)
    BY Zenon, <1>2, StoreStays
  <2> HIDE DEF r
  <2>3. Becomes(p, r) \/ Becomes(p, d)
    BY <2>1 DEF r
  <2> QED BY <1>2, <2>1, <2>2, <2>3, BecomesChanges
<1>6. ASSUME NEW n, New(p, n)
      PROVE  Changes(p, x) /\ scenario' = scenario /\ free' = free
  <2>1. pb' = pb /\ scenario' = scenario /\ free' = free
    BY <1>6 DEF New
  <2>2. pb' = [pb EXCEPT ![p] = pb[p]]
    BY <2>1 DEF Inv
  <2> QED BY <2>1, <2>2 DEF Changes, x
<1>7. ASSUME NEW n, Grow(p, n) \/ ReadFromGrow(p)
      PROVE  Changes(p, x) /\ scenario' = scenario /\ free' = free
  <2>1. PICK k, then : Grown(p, Recovered(pb[p]), k, <<>>, then)
    BY Zenon, <1>7 DEF Grow, ReadFromGrow
  <2> QED BY <1>2, <2>1, GrownChanges
<1>8. ASSUME NEW n, NEW s, AppendBytes(p, n, s)
      PROVE  Changes(p, x) /\ scenario' = scenario /\ free' = free
  <2>1. Grown(p, d, n, s, "out") \/ Grown(p, Recovered(d), n, s, "out")
    BY <1>8 DEF AppendBytes
  <2> QED BY <1>2, <2>1, GrownChanges
<1>9. ASSUME ReadFrom(p)
      PROVE  Changes(p, x) /\ scenario' = scenario /\ free' = free
  <2>1. Becomes(p, d) /\ scenario' = scenario /\ free' = free
    BY <1>9 DEF ReadFrom
  <2> QED BY <1>2, <2>1, BecomesChanges
<1>10. ASSUME NEW s, ReadFromRead(p, s)
       PROVE  Changes(p, x) /\ scenario' = scenario /\ free' = free
  <2>1. PICK then : Stored(p, pb[p], 0, s, then) /\ scenario' = scenario /\ free' = free
    BY Zenon, <1>10 DEF ReadFromRead
  <2> QED BY <1>1, <2>1, StoredChanges
<1>11. ASSUME NEW n, Truncate(p, n)
       PROVE  Changes(p, x) /\ scenario' = scenario /\ free' = free
  <2>1. CASE Emptied(p)
    BY <1>3, <2>1
  <2>2. CASE ~Emptied(p)
    <3>1. PICK s : /\ Becomes(p, d) \/ Becomes(p, [d EXCEPT !.buf = s])
                   /\ scenario' = scenario /\ free' = free
      BY Zenon, <1>11, <2>2 DEF Truncate
    <3> DEFINE r == [d EXCEPT !.buf = s]
    <3> HIDE DEF d
    <3>2. Behind(r, x)
      BY Zenon, <1>2, StoreStays
    <3> HIDE DEF r
    <3>3. Becomes(p, d) \/ Becomes(p, r)
      BY <3>1 DEF r
    <3> QED BY <1>2, <3>1, <3>2, <3>3, BecomesChanges
  <2> QED BY <2>1, <2>2
<1>12. ASSUME NEW n, Read(p, n) \/ NextBytes(p, n) \/ WriteTo(p, n)
       PROVE  Changes(p, x) /\ scenario' = scenario /\ free' = free
  <2>1. Emptied(p) \/ \E k, op : Consume(p, k, op)
    BY Zenon, <1>12 DEF Read, NextBytes, WriteTo
  <2> QED BY <1>3, <1>4, <2>1
<1>13. ASSUME NEW delim, ReadRune(p) \/ ReadSlice(p, delim)
       PROVE  Changes(p, x) /\ scenario' = scenario /\ free' = free
  <2>1. Emptied(p) \/ \E k, op : Consume(p, k, op)
    BY Zenon, <1>13 DEF ReadRune, ReadSlice
  <2> QED BY <1>3, <1>4, <2>1
<1>14. ASSUME UnreadRune(p) \/ UnreadByte(p)
       PROVE  Changes(p, x) /\ scenario' = scenario /\ free' = free
  <2>1. \E k, s : Restore(p, k, s)
    BY Zenon, <1>14 DEF UnreadRune, UnreadByte
  <2> QED BY <1>5, <2>1
<1>15. Changes(p, x) /\ scenario' = scenario /\ free' = free
  BY Zenon, <1>6, <1>7, <1>8, <1>9, <1>10, <1>11, <1>12, <1>13, <1>14 DEF Local
<1> QED BY <1>15 DEF x

LEMMA GetReturnsTrades ==
  ASSUME Inv, NEW p \in PoolBuffers, GetReturns(p)
  PROVE  \E x : Trades(p, x)
<1>1. PICK store \in StoreFor(Asked(p)), y \in scenario.extra \cup {0} :
        /\ free' = Returned([free EXCEPT ![store] = @ - 1], pb[p].store)
        /\ Stored(p, Moved(pb[p], store + y, store), pend[p].n, pend[p].put, pend[p].then)
  BY Zenon DEF GetReturns
<1>2. scenario' = scenario
  BY DEF GetReturns
<1> DEFINE x == [store |-> store, cap |-> store + y]
           r == Moved(pb[p], store + y, store)
<1>3. Behind(r, x)
  <2>1. Sound(pb[p])
    BY InvParts
  <2>2. r = [buf |-> Unread(pb[p]), off |-> 0, lastRead |-> pb[p].lastRead,
             cap |-> store + y, store |-> store]
    BY <2>1, MovedForm
  <2> HIDE DEF r
  <2> QED BY <2>2 DEF Behind, IsStruct
<1>4. Stored(p, r, pend[p].n, pend[p].put, pend[p].then)
  BY <1>1
<1>5. x.store <= x.cap /\ x.store = store
  BY ScenarioFacts DEF StoreFor
<1> HIDE DEF r, x
<1>6. Changes(p, x)
  BY <1>3, <1>4, StoredChanges
<1>7. ASSUME NEW s \in Stores
      PROVE  free'[s] = free[s] - (IF s = store THEN 1 ELSE 0)
                                + (IF s = pb[p].store THEN 1 ELSE 0)
  <2>1. /\ store \in Stores /\ Own \notin Stores /\ pb[p].store \in Stores \cup {Own}
        /\ \A t \in Stores : free[t] \in Nat
    BY ScenarioFacts, InvParts DEF Inv, StoreFor
  <2> DEFINE f == [free EXCEPT ![store] = @ - 1]
  <2>2. /\ DOMAIN f = Stores
        /\ \A t \in Stores : f[t] = free[t] - (IF t = store THEN 1 ELSE 0)
    BY <2>1 DEF Inv
  <2>3. free' = Returned(f, pb[p].store)
    BY <1>1
  <2> HIDE DEF f
  <2>4. free'[s] = f[s] + (IF s = pb[p].store THEN 1 ELSE 0)
    <3>1. f[s] \in Int
      BY <2>1, <2>2
    <3> QED BY <2>1, <2>2, <2>3, <3>1 DEF Returned
  <2> QED BY <2>2, <2>4
<1> QED BY <1>2, <1>5, <1>6, <1>7 DEF Trades

\* The buffer of p goes back, and what p has instead is not of a store.
LEMMA ReturnedTrades ==
  ASSUME Inv, NEW p \in PoolBuffers, NEW x, Changes(p, x), x.store = Own,
         x.cap \in Nat, scenario' = scenario, free' = Returned(free, pb[p].store)
  PROVE  Trades(p, x)
<1>1. ASSUME NEW s \in Stores
      PROVE  free'[s] = free[s] - (IF s = x.store THEN 1 ELSE 0)
                                + (IF s = pb[p].store THEN 1 ELSE 0)
  <2>1. /\ Own \notin Stores /\ pb[p].store \in Stores \cup {Own}
        /\ free \in [Stores -> Nat]
    BY ScenarioFacts, InvParts DEF Inv
  <2> QED BY <2>1 DEF Returned
<1>2. x.store <= x.cap
  BY DEF Own
<1> QED BY <1>1, <1>2 DEF Trades

LEMMA GetAllocatesTrades ==
  ASSUME Inv, HasRoom, NEW p \in PoolBuffers, GetAllocates(p)
  PROVE  \E x : Trades(p, x)
<1>1. /\ scenario' = scenario /\ pc[p] = "get"
      /\ \/ /\ Stored(p, Moved(pb[p], Asked(p), Own), pend[p].n, pend[p].put, pend[p].then)
            /\ free' = Returned(free, pb[p].store)
         \/ UNCHANGED <<free, pb>>
  BY Zenon DEF GetAllocates
<1>2. CASE /\ Stored(p, Moved(pb[p], Asked(p), Own), pend[p].n, pend[p].put, pend[p].then)
           /\ free' = Returned(free, pb[p].store)
  <2> DEFINE x == [store |-> Own, cap |-> Asked(p)]
             r == Moved(pb[p], Asked(p), Own)
  <2>1. Sound(pb[p]) /\ pend[p].n \in Nat
    BY <1>1, InvParts DEF Waits, Pending
  <2>2. Behind(r, x)
    <3>1. r = [buf |-> Unread(pb[p]), off |-> 0, lastRead |-> pb[p].lastRead,
               cap |-> Asked(p), store |-> Own]
      BY <2>1, MovedForm
    <3> HIDE DEF r
    <3> QED BY <3>1 DEF Behind, IsStruct
  <2>3. Stored(p, r, pend[p].n, pend[p].put, pend[p].then)
    BY <1>2
  <2>4. x.store = Own /\ x.cap \in Nat
    BY <2>1, AskedFits DEF Asked
  <2> HIDE DEF r, x
  <2>5. Changes(p, x)
    BY <2>2, <2>3, StoredChanges
  <2> QED BY <1>1, <1>2, <2>4, <2>5, ReturnedTrades
<1>3. CASE UNCHANGED <<free, pb>>
  <2>1. pb' = [pb EXCEPT ![p] = pb[p]]
    BY <1>3 DEF Inv
  <2>2. Changes(p, pb[p])
    BY <2>1 DEF Changes
  <2> QED BY <1>1, <1>3, <2>2, SameTrades
<1> QED BY <1>1, <1>2, <1>3

LEMMA CloseTrades ==
  ASSUME Inv, NEW p \in PoolBuffers, Close(p)
  PROVE  Trades(p, NoBuffer)
<1>1. /\ pb' = [pb EXCEPT ![p] = NoBuffer] /\ scenario' = scenario
      /\ free' = Returned(free, pb[p].store)
  BY DEF Close
<1>2. NoBuffer.store = Own /\ NoBuffer.cap = 0
  BY DEF NoBuffer
<1>3. Changes(p, NoBuffer)
  BY <1>1 DEF Changes
<1> QED BY <1>1, <1>2, <1>3, ReturnedTrades

\* Whatever a step of p does, it trades.
LEMMA NextTrades ==
  ASSUME Inv, HasRoom, Next
  PROVE  \E p \in PoolBuffers : \E x : Trades(p, x)
<1>1. PICK p \in scenario.users :
        \/ \E n \in scenario.sizes : New(p, n) \/ Grow(p, n)
        \/ GetReturns(p) \/ GetAllocates(p)
        \/ Writing(p) \/ Reading(p)
        \/ Close(p)
  BY Zenon DEF Next
<1>2. p \in PoolBuffers
  BY ScenarioFacts
<1>3. Local(p) \/ GetReturns(p) \/ GetAllocates(p) \/ Close(p)
  <2>1. ASSUME NEW n, New(p, n) \/ Grow(p, n) PROVE Local(p)
    BY Zenon, <2>1 DEF Local
  <2>2. ASSUME Writing(p) PROVE Local(p)
    BY Zenon, <2>2 DEF Local, Writing, Write, WriteRune
  <2>3. ASSUME Reading(p) PROVE Local(p)
    BY Zenon, <2>3 DEF Local, Reading
  <2> QED BY Zenon, <1>1, <2>1, <2>2, <2>3
<1>4. ASSUME Local(p) PROVE \E x : Trades(p, x)
  BY <1>2, <1>4, LocalChanges, SameTrades
<1>5. \E x : Trades(p, x)
  BY Zenon, <1>2, <1>3, <1>4, GetReturnsTrades, GetAllocatesTrades, CloseTrades
<1> QED BY <1>2, <1>5

HeldInv == HasRoom /\ StockInv

LEMMA HeldInit == Init => HeldInv
<1> SUFFICES ASSUME Init PROVE HeldInv
  OBVIOUS
<1>1. Own \notin Stores
  BY InvInit, ScenarioFacts
<1>2. ASSUME NEW s \in Stores PROVE Holders(s) = {}
  BY <1>1 DEF Init, Holders, NoBuffer
<1>3. ASSUME NEW s \in Stores PROVE free[s] = scenario.stock[s] /\ free[s] \in Nat
  BY InvInit DEF Init, Inv
<1>4. IsFiniteSet({}) /\ Cardinality({}) = 0
  BY FS_EmptySet
<1>5. HasRoom
  BY DEF Init, HasRoom, NoBuffer, Own
<1> QED BY <1>2, <1>3, <1>4, <1>5 DEF HeldInv, StockInv

LEMMA HeldNext ==
  ASSUME Inv, HeldInv, [Next]_vars
  PROVE  HeldInv'
<1>1. CASE UNCHANGED vars
  BY <1>1 DEF vars, HeldInv, HasRoom, StockInv, Holders, Stores
<1>2. CASE Next
  <2>1. PICK p \in PoolBuffers : \E x : Trades(p, x)
    BY <1>2, NextTrades DEF HeldInv
  <2> QED BY <2>1, StockChange, RoomChange DEF HeldInv
<1> QED BY <1>1, <1>2

LEMMA HeldAlways == Spec => []HeldInv
<1>1. Init => HeldInv
  BY HeldInit
<1>2. Inv /\ HeldInv /\ [Next]_vars => HeldInv'
  BY HeldNext
<1> QED BY <1>1, <1>2, InvAlways, PTL DEF Spec

(***************************************************************************)
(* No buffer of the pool is lost or closed twice: growSlice closes the old *)
(* buffer when it has copied the bytes, Close the last one, and a Get that *)
(* fails closes none.  Every buffer is in its store or behind exactly one  *)
(* PoolBuffer, which has one at most.                                      *)
(***************************************************************************)
THEOREM StockIsKept == Spec => []StockKept
<1>1. HeldInv => StockKept
  BY DEF HeldInv, StockInv, StockKept, Holders
<1> QED BY <1>1, HeldAlways, PTL

-----------------------------------------------------------------------------
(***************************************************************************)
(* Holding and waiting.  Who waits with a buffer in hand waits for a store *)
(* that is larger than it, so that those it waits for have larger ones; as *)
(* no buffer of those who wait is larger than the largest int, the waiting *)
(* ends with one who waits for none of them.                               *)
(***************************************************************************)

LEMMA WaitsForLarger ==
  ASSUME Inv, HasRoom, NEW p \in PoolBuffers, NEW q \in PoolBuffers, WaitsFor(p, q)
  PROVE  pb[p].cap < pb[q].cap
<1>1. PICK s \in StoreFor(Asked(p)) : pb[q].store = s
  BY DEF WaitsFor
<1>2. /\ Sound(pb[p]) /\ pb[p].cap \in Nat /\ pb[q].cap \in Nat
      /\ pc[p] = "get" /\ pend[p].n \in Nat
  <2>1. pc[p] = "get"
    BY DEF WaitsFor
  <2> QED BY <2>1, InvParts, StructFacts DEF Waits, Pending
<1>3. /\ s \in Nat \ {0} /\ Asked(p) <= s /\ Asked(p) \in Nat
  BY <1>2, AskedFits, ScenarioFacts DEF StoreFor, Asked
<1>4. s <= pb[q].cap
  BY <1>1 DEF HasRoom
<1>5. CASE pb[p].cap = 0
  BY <1>2, <1>3, <1>4, <1>5
<1>6. CASE pb[p].cap > 0
  <2>1. Asked(p) > pb[p].cap
    BY <1>2, <1>6, WaitingFor
  <2> QED BY <1>2, <1>3, <1>4, <2>1
<1> QED BY <1>2, <1>5, <1>6


LEMMA LeastExists ==
  ASSUME NEW S \in SUBSET Nat, S # {}
  PROVE  \E x \in S : \A y \in S : x <= y
<1> DEFINE less == OpToRel(<, Nat)
<1>1. \A x, y \in Nat : x < y => <<x, y>> \in less
  BY Zenon DEF OpToRel
<1>2. IsWellFoundedOn(less, Nat)
  BY NatLessThanWellFounded DEF OpToRel
<1> HIDE DEF less
<1>3. PICK x \in S : \A y \in S : <<y, x>> \notin less
  BY <1>2, WFMin
<1>4. ASSUME NEW y \in S PROVE x <= y
  <2>1. ~(y < x)
    BY <1>1, <1>3
  <2> QED BY <2>1
<1> QED BY <1>4

\* What is left to the largest int becomes less from one who waits to the next.
LEMMA WaitingEnds ==
  ASSUME Inv, HasRoom
  PROVE  NoCircle
<1> SUFFICES ASSUME NEW C \in SUBSET PoolBuffers, C # {},
                    \A p \in C : \E q \in C : WaitsFor(p, q)
             PROVE  FALSE
  BY DEF NoCircle
<1> DEFINE left(p) == scenario.maxInt - pb[p].cap
           S == {left(p) : p \in C}
<1>1. ASSUME NEW p \in C PROVE left(p) \in Nat
  <2>1. pc[p] = "get"
    BY DEF WaitsFor
  <2>2. /\ pb[p].cap \in Nat /\ pend[p].n \in Nat /\ scenario.maxInt \in Nat
        /\ pb[p].cap > 0 => ~TooLarge(pb[p], pend[p].n)
    BY <2>1, InvParts, StructFacts, ScenarioFacts DEF Waits, Pending
  <2>3. pb[p].cap <= scenario.maxInt
    BY <2>2 DEF TooLarge
  <2> QED BY <2>2, <2>3
<1>2. PICK p \in C : \A q \in C : left(p) <= left(q)
  <2>1. S \in SUBSET Nat /\ S # {}
    BY <1>1
  <2> HIDE DEF S
  <2>2. PICK x \in S : \A y \in S : x <= y
    BY <2>1, LeastExists
  <2> QED BY <2>2 DEF S
<1>3. PICK q \in C : WaitsFor(p, q)
  OBVIOUS
<1>4. /\ pb[p].cap < pb[q].cap /\ pb[p].cap \in Nat /\ pb[q].cap \in Nat
      /\ scenario.maxInt \in Nat /\ left(p) <= left(q)
  BY <1>2, <1>3, WaitsForLarger, InvParts, StructFacts, ScenarioFacts
<1> QED BY <1>4

(***************************************************************************)
(* A PoolBuffer that waits for a buffer asks for a larger one than it      *)
(* holds, and for four times what its unread bytes and the request need at *)
(* most.  However many PoolBuffers share a pool, each holding one buffer   *)
(* and wanting another, no circle of them waits for each other.            *)
(***************************************************************************)
THEOREM GrowthIsBounded == Spec => []GrowthBounded
<1>1. Inv /\ HeldInv => GrowthBounded
  BY WaitingFor, WaitingEnds DEF GrowthBounded, HeldInv
<1> QED BY <1>1, InvAlways, HeldAlways, PTL
=============================================================================
