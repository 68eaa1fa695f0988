-------------------------- MODULE FlashBenchProofs --------------------------
(* What the flash benchmark writes, and over what, for every layout of the *)
(* flash and every number of units the items measure.                      *)
EXTENDS FlashBench, FiniteSetTheorems, TLAPS

-----------------------------------------------------------------------------
(* Alignment.                                                              *)

\* What is a multiple of a size, divided by it.
LEMMA Multiple ==
  ASSUME NEW s \in Nat \ {0}, NEW m \in Int
  PROVE  (s * m) % s = 0 /\ (s * m) \div s = m
<1> DEFINE d == (s * m) \div s
           r == (s * m) % s
<1>1. d \in Int /\ r \in 0 .. s - 1 /\ s * m \in Int /\ s * m = s * d + r
  OBVIOUS
<1> HIDE DEF d, r
<1>2. CASE m = d
  <2>1. r = 0
    BY <1>1, <1>2
  <2> QED
    BY <1>2, <2>1 DEF d, r
<1>3. CASE m > d
  <2>1. s * m >= s * (d + 1)
    BY <1>1, <1>3
  <2>2. s * (d + 1) = s * d + s
    BY <1>1
  <2> QED
    BY <1>1, <2>1, <2>2
<1>4. CASE m < d
  <2>1. s * d >= s * (m + 1)
    BY <1>1, <1>4
  <2>2. s * (m + 1) = s * m + s
    OBVIOUS
  <2> QED
    BY <1>1, <2>1, <2>2
<1> QED
  BY <1>1, <1>2, <1>3, <1>4

\* What leaves no remainder is a multiple.
LEMMA Quotient ==
  ASSUME NEW s \in Nat \ {0}, NEW a \in Int, a % s = 0
  PROVE  a \div s \in Int /\ a = s * (a \div s)
OBVIOUS

\* Sums, differences and multiples of what is aligned are aligned.
LEMMA Aligned ==
  ASSUME NEW s \in Nat \ {0}, NEW a \in Int, NEW b \in Int, a % s = 0, b % s = 0
  PROVE  /\ (a + b) % s = 0 /\ (a - b) % s = 0
         /\ \A k \in Int : (k * b) % s = 0 /\ (a + k * b) % s = 0
<1> DEFINE x == a \div s
           y == b \div s
<1>1. x \in Int /\ y \in Int /\ a = s * x /\ b = s * y
  BY Quotient
<1> HIDE DEF x, y
<1>2. a + b = s * (x + y) /\ a - b = s * (x - y)
  BY <1>1
<1>3. ASSUME NEW k \in Int PROVE (k * b) % s = 0 /\ (a + k * b) % s = 0
  <2>1. k * b = s * (k * y) /\ k * y \in Int
    BY <1>1
  <2>2. a + k * b = s * (x + k * y)
    BY <1>1, <2>1
  <2> QED
    BY <1>1, <2>1, <2>2, Multiple
<1> QED
  BY <1>1, <1>2, <1>3, Multiple

\* One unit more.
LEMMA OneMore ==
  ASSUME NEW n \in Nat, NEW u \in Nat
  PROVE  (n + 1) * u = n * u + u
OBVIOUS

\* Multiples of what is aligned are aligned.
LEMMA Scaled ==
  ASSUME NEW s \in Nat \ {0}, NEW b \in Int, b % s = 0, NEW k \in Int
  PROVE  (k * b) % s = 0
<1>1. \A j \in Int : (j * b) % s = 0
  BY Aligned, Zenon
<1> QED
  BY <1>1, Zenon

\* What is aligned to sectors is aligned to pages.
LEMMA Finer ==
  ASSUME NEW p \in Nat \ {0}, NEW s \in Nat \ {0}, NEW a \in Int, s % p = 0, a % s = 0
  PROVE  a % p = 0
<1> DEFINE k == a \div s
<1>1. k \in Int /\ a = s * k
  BY Quotient
<1> HIDE DEF k
<1>2. (k * s) % p = 0
  <2>1. s \in Int
    OBVIOUS
  <2>2. \A j \in Int : (j * s) % p = 0
    BY <2>1, Aligned, Zenon
  <2> QED
    BY <1>1, <2>2
<1>3. k * s = a
  BY <1>1
<1> QED
  BY <1>2, <1>3

-----------------------------------------------------------------------------
(* The items.                                                              *)

\* What the assumptions say of the constants.
LEMMA Sizes ==
  /\ Page \in Nat \ {0} /\ Sector \in Nat \ {0} /\ Block \in Nat \ {0}
  /\ TestBytes \in Nat \ {0} /\ TestOffset \in Nat \ {0}
  /\ StagingOffset = TestOffset /\ StagingBytes \in Nat /\ TestBytes <= StagingBytes
  /\ TestOffset % Sector = 0 /\ TestOffset % Page = 0
  /\ Sector % Page = 0 /\ Block % Sector = 0 /\ Block % Page = 0
  /\ TestBytes % Block = 0 /\ TestBytes % Sector = 0 /\ TestBytes % Page = 0
  /\ NSectors \in Nat \ {0} /\ NBlocks \in Nat \ {0} /\ NPages \in Nat \ {0}
  /\ NChunks \in Nat \ {0}
<1>1. /\ Page \in Nat \ {0} /\ Sector \in Nat \ {0} /\ Block \in Nat \ {0}
      /\ TestBytes \in Nat \ {0} /\ TestOffset \in Nat \ {0} /\ StagingOffset = TestOffset
      /\ TestOffset % Sector = 0 /\ Sector % Page = 0 /\ Block % Sector = 0
      /\ TestBytes % Block = 0 /\ TestBytes <= StagingBytes
      /\ NSectors \in Nat \ {0} /\ NBlocks \in Nat \ {0} /\ NPages \in Nat \ {0}
      /\ NChunks \in Nat \ {0}
  BY FlashMapAssumption, FlashBenchAssumption DEF TestOffset, StagingOffset
<1>2. StagingBytes \in Int
  BY FlashMapAssumption DEF StagingBytes, ReservedOffset, ReservedBytes, StagingOffset
<1>3. Block \in Int /\ TestBytes \in Int /\ TestOffset \in Int
  BY <1>1
<1>4. Block % Page = 0 /\ TestBytes % Sector = 0 /\ TestOffset % Page = 0
  BY <1>1, <1>3, Finer
<1>5. TestBytes % Page = 0
  BY <1>1, <1>3, <1>4, Finer
<1> QED
  BY <1>1, <1>2, <1>4, <1>5

LoopType == [op : {"erase", "program", "rewrite", "verify"}, unit : Nat \ {0},
             turns : Nat \ {0}, fill : Nat \ {0}, seed : {"none", "page", "chunk", "image"}]

\* The units a loop does, and the bytes they take.
Units(l) == IF l.op = "rewrite" THEN l.turns \div 2 ELSE l.turns
Span(l)  == Units(l) * l.unit

\* A loop of an item: it stays in the test region, in units the guard lets pass.
Good(l) ==
  /\ l \in LoopType
  /\ l.op = "rewrite" => l.turns = 2 * Units(l)
  /\ l.op # "verify" =>
       /\ Units(l) \in Nat \ {0} /\ Span(l) \in Nat /\ Span(l) <= TestBytes
       /\ l.unit % Page = 0
       /\ l.op # "program" => l.unit % Sector = 0
  /\ l.op = "program" /\ l.seed = "image" => l.fill = Sector /\ Sector % l.unit = 0
  /\ l.op = "rewrite" => l.seed = "image" /\ l.fill = Sector /\ l.unit = Sector
  /\ l.op = "verify" => l = ReadBack

\* What is programmed has been erased by the loop before.
Item(s) ==
  /\ s \in Seq(LoopType) /\ Len(s) >= 1
  /\ \A k \in 1 .. Len(s) : Good(s[k])
  /\ \A k \in 1 .. Len(s) : s[k].op = "program" =>
       k > 1 /\ s[k - 1].op = "erase" /\ Span(s[k]) <= Span(s[k - 1])

\* An item after an item is one.
LEMMA ItemsJoin ==
  ASSUME NEW s, NEW t, Item(s), Item(t)
  PROVE  Item(s \o t)
<1> DEFINE u == s \o t
<1>1. /\ s \in Seq(LoopType) /\ t \in Seq(LoopType) /\ Len(s) \in Nat /\ Len(t) \in Nat
      /\ Len(s) >= 1 /\ Len(t) >= 1
  BY DEF Item
<1>2. /\ u \in Seq(LoopType) /\ Len(u) = Len(s) + Len(t)
      /\ \A k \in 1 .. Len(u) : u[k] = IF k <= Len(s) THEN s[k] ELSE t[k - Len(s)]
  BY <1>1
<1> HIDE DEF u
<1>3. ASSUME NEW k \in 1 .. Len(u)
      PROVE  /\ Good(u[k])
             /\ u[k].op = "program" =>
                  k > 1 /\ u[k - 1].op = "erase" /\ Span(u[k]) <= Span(u[k - 1])
  <2>1. CASE k <= Len(s)
    <3>1. k \in 1 .. Len(s) /\ u[k] = s[k]
      BY <1>1, <1>2, <2>1
    <3>2. k > 1 => u[k - 1] = s[k - 1]
      <4>1. k > 1 => k - 1 \in 1 .. Len(u) /\ k - 1 <= Len(s)
        BY <1>1, <1>2, <2>1
      <4> QED
        BY <1>2, <4>1
    <3> QED
      BY <3>1, <3>2 DEF Item
  <2>2. CASE k > Len(s)
    <3> DEFINE j == k - Len(s)
    <3>1. j \in 1 .. Len(t) /\ u[k] = t[j]
      BY <1>1, <1>2, <2>2
    <3>2. j > 1 => k > 1 /\ u[k - 1] = t[j - 1]
      <4> HAVE j > 1
      <4>1. k - 1 \in 1 .. Len(u) /\ ~ (k - 1 <= Len(s)) /\ k - 1 - Len(s) = j - 1
        BY <1>1, <1>2, <2>2
      <4> QED
        BY <1>1, <1>2, <2>2, <4>1
    <3> HIDE DEF j
    <3> QED
      BY <3>1, <3>2 DEF Item
  <2> QED
    BY <1>1, <1>2, <2>1, <2>2
<1> QED
  BY <1>1, <1>2, <1>3 DEF Item, u
\* The loops the items are made of are good.
LEMMA GoodErase ==
  ASSUME NEW u \in Nat \ {0}, NEW n \in Nat \ {0}, n * u <= TestBytes, u % Sector = 0
  PROVE  /\ Good(EraseEach(u, n)) /\ EraseEach(u, n).op = "erase"
         /\ Span(EraseEach(u, n)) = n * u
<1> DEFINE l == EraseEach(u, n)
<1>1. l \in LoopType /\ l.op = "erase" /\ l.unit = u /\ l.turns = n
  BY DEF EraseEach, Loop, LoopType
<1>2. Units(l) = n /\ Span(l) = n * u
  BY <1>1 DEF Units, Span
<1>3. u % Page = 0
  <2>1. u \in Int
    OBVIOUS
  <2> QED
    BY <2>1, Sizes, Finer
<1> HIDE DEF l
<1>4. Good(l)
  BY <1>1, <1>2, <1>3 DEF Good
<1> QED
  BY <1>1, <1>2, <1>4 DEF l

LEMMA GoodProgram ==
  ASSUME NEW u \in Nat \ {0}, NEW n \in Nat \ {0}, n * u <= TestBytes, u % Page = 0,
         NEW f \in Nat \ {0}, NEW seed \in {"page", "chunk", "image"},
         seed = "image" => f = Sector /\ Sector % u = 0
  PROVE  /\ Good(ProgramEach(u, n, f, seed)) /\ ProgramEach(u, n, f, seed).op = "program"
         /\ Span(ProgramEach(u, n, f, seed)) = n * u
<1> DEFINE l == ProgramEach(u, n, f, seed)
<1>1. /\ l \in LoopType /\ l.op = "program" /\ l.unit = u /\ l.turns = n /\ l.fill = f
      /\ l.seed = seed
  BY DEF ProgramEach, Loop, LoopType
<1>2. Units(l) = n /\ Span(l) = n * u
  BY <1>1 DEF Units, Span
<1> HIDE DEF l
<1>3. Good(l)
  BY <1>1, <1>2 DEF Good
<1> QED
  BY <1>1, <1>2, <1>3 DEF l

LEMMA GoodRewrite ==
  ASSUME NEW n \in Nat \ {0}, n * Sector <= TestBytes
  PROVE  /\ Good(RewriteEach(Sector, n, "image")) /\ RewriteEach(Sector, n, "image").op = "rewrite"
         /\ Span(RewriteEach(Sector, n, "image")) = n * Sector
<1> DEFINE l == RewriteEach(Sector, n, "image")
<1>1. Sector \in Nat \ {0} /\ 2 * n \in Nat \ {0} /\ (2 * n) \div 2 = n /\ Sector % Sector = 0
      /\ Sector % Page = 0
  BY Sizes
<1>2. /\ l \in LoopType /\ l.op = "rewrite" /\ l.unit = Sector /\ l.turns = 2 * n
      /\ l.fill = Sector /\ l.seed = "image"
  BY <1>1 DEF RewriteEach, Loop, LoopType
<1>3. Units(l) = n /\ Span(l) = n * Sector
  BY <1>1, <1>2 DEF Units, Span
<1> HIDE DEF l
<1>4. Good(l)
  BY <1>1, <1>2, <1>3 DEF Good
<1> QED
  BY <1>2, <1>3, <1>4 DEF l

LEMMA GoodRead == Good(ReadBack) /\ ReadBack.op = "verify"
BY Sizes DEF Good, ReadBack, Loop, LoopType

LEMMA ItemOne ==
  ASSUME NEW a, Good(a), a.op # "program"
  PROVE  Item(<<a>>)
<1>1. a \in LoopType
  BY DEF Good
<1> QED
  BY <1>1 DEF Item

LEMMA ItemTwo ==
  ASSUME NEW a, NEW b, Good(a), Good(b), a.op # "program",
         b.op = "program" => a.op = "erase" /\ Span(b) <= Span(a)
  PROVE  Item(<<a, b>>)
<1>1. a \in LoopType /\ b \in LoopType
  BY DEF Good
<1>2. <<a, b>> \in Seq(LoopType) /\ Len(<<a, b>>) = 2 /\ <<a, b>>[1] = a /\ <<a, b>>[2] = b
  BY <1>1
<1>3. 1 .. 2 = {1, 2}
  OBVIOUS
<1> QED
  BY <1>2, <1>3 DEF Item

LEMMA ItemThree ==
  ASSUME NEW a, NEW b, NEW c, Good(a), Good(b), Good(c), a.op = "erase", b.op = "program",
         Span(b) <= Span(a), c.op # "program"
  PROVE  Item(<<a, b, c>>)
<1>1. a \in LoopType /\ b \in LoopType /\ c \in LoopType
  BY DEF Good
<1>2. /\ <<a, b, c>> \in Seq(LoopType) /\ Len(<<a, b, c>>) = 3
      /\ <<a, b, c>>[1] = a /\ <<a, b, c>>[2] = b /\ <<a, b, c>>[3] = c
  BY <1>1
<1>3. 1 .. 3 = {1, 2, 3}
  OBVIOUS
<1> QED
  BY <1>2, <1>3 DEF Item

\* After such a loop the test region holds the image, and every read-back comes
\* right after one.
Puts(l) ==
  l.op = "verify" \/ (l.op \in {"program", "rewrite"} /\ l.seed = "image" /\ Span(l) = TestBytes)

Reads(s) == \A k \in 1 .. Len(s) : s[k].op = "verify" => k > 1 /\ Puts(s[k - 1])
Ends(s)  == Puts(s[Len(s)])

LEMMA ReadsJoin ==
  ASSUME NEW s, NEW t, Item(s), Item(t), Reads(s), Reads(t) \/ (Len(t) = 1 /\ Ends(s))
  PROVE  Reads(s \o t) /\ (Ends(t) => Ends(s \o t))
<1> DEFINE u == s \o t
<1>1. /\ s \in Seq(LoopType) /\ t \in Seq(LoopType) /\ Len(s) \in Nat /\ Len(t) \in Nat
      /\ Len(s) >= 1 /\ Len(t) >= 1
  BY DEF Item
<1>2. /\ u \in Seq(LoopType) /\ Len(u) = Len(s) + Len(t)
      /\ \A k \in 1 .. Len(u) : u[k] = IF k <= Len(s) THEN s[k] ELSE t[k - Len(s)]
  BY <1>1
<1> HIDE DEF u
<1>3. ASSUME NEW k \in 1 .. Len(u), u[k].op = "verify"
      PROVE  k > 1 /\ Puts(u[k - 1])
  <2>1. CASE k <= Len(s)
    <3>1. k \in 1 .. Len(s) /\ u[k] = s[k]
      BY <1>1, <1>2, <2>1
    <3>2. k > 1 => u[k - 1] = s[k - 1]
      <4>1. k > 1 => k - 1 \in 1 .. Len(u) /\ k - 1 <= Len(s)
        BY <1>1, <1>2, <2>1
      <4> QED
        BY <1>2, <4>1
    <3> QED
      BY <1>3, <3>1, <3>2 DEF Reads
  <2>2. CASE k > Len(s) + 1
    <3> DEFINE j == k - Len(s)
    <3>1. j \in 1 .. Len(t) /\ u[k] = t[j] /\ j > 1
      BY <1>1, <1>2, <2>2
    <3>2. k > 1 /\ u[k - 1] = t[j - 1]
      <4>1. k - 1 \in 1 .. Len(u) /\ ~ (k - 1 <= Len(s)) /\ k - 1 - Len(s) = j - 1
        BY <1>1, <1>2, <2>2
      <4>2. u[k - 1] = t[k - 1 - Len(s)]
        BY <1>2, <4>1
      <4>3. k > 1
        BY <1>1, <2>2
      <4> QED
        BY <4>1, <4>2, <4>3, Zenon
    <3>3. Reads(t)
      BY <1>1, <3>1
    <3> HIDE DEF j
    <3> QED
      BY <1>3, <3>1, <3>2, <3>3 DEF Reads
  <2>3. CASE k = Len(s) + 1
    <3>1. u[k] = t[1] /\ 1 \in 1 .. Len(t)
      BY <1>1, <1>2, <2>3
    <3>2. k > 1 /\ u[k - 1] = s[Len(s)]
      BY <1>1, <1>2, <2>3
    <3>3. Ends(s)
      BY <1>1, <1>3, <3>1 DEF Reads
    <3> QED
      BY <3>2, <3>3 DEF Ends
  <2> QED
    BY <1>1, <1>2, <2>1, <2>2, <2>3
<1>4. u[Len(u)] = t[Len(t)]
  BY <1>1, <1>2
<1> QED
  BY <1>3, <1>4 DEF Reads, Ends, u

\* Sectors that are enough for a number of bytes, and not more than there are.
LEMMA RoundedUp ==
  ASSUME NEW x \in Nat \ {0}, x <= TestBytes
  PROVE  /\ (x + Sector - 1) \div Sector \in Nat \ {0}
         /\ x <= ((x + Sector - 1) \div Sector) * Sector
         /\ ((x + Sector - 1) \div Sector) * Sector <= TestBytes
<1> DEFINE q == (x + Sector - 1) \div Sector
           n == TestBytes \div Sector
<1>1. Sector \in Nat \ {0} /\ TestBytes \in Nat /\ TestBytes % Sector = 0
  BY Sizes
<1>2. q \in Int /\ Sector * q <= x + Sector - 1 /\ x - 1 < Sector * q
  BY <1>1
<1>3. n \in Int /\ TestBytes = Sector * n
  <2>1. TestBytes \in Int
    BY <1>1
  <2> QED
    BY <1>1, <2>1, Quotient
<1> HIDE DEF q, n
<1>4. q >= 1
  <2> SUFFICES ASSUME q <= 0 PROVE FALSE
    BY <1>2
  <2>1. Sector * q <= 0
    BY <1>1, <1>2
  <2> QED
    BY <1>1, <1>2, <2>1
<1>5. q <= n
  <2> SUFFICES ASSUME q >= n + 1 PROVE FALSE
    BY <1>2, <1>3
  <2>1. Sector * q >= Sector * (n + 1)
    BY <1>1, <1>2, <1>3
  <2>2. Sector * (n + 1) = TestBytes + Sector
    BY <1>1, <1>3
  <2> QED
    BY <1>1, <1>2, <2>1, <2>2
<1>6. q * Sector = Sector * q /\ Sector * q <= Sector * n
  BY <1>1, <1>2, <1>3, <1>5
<1> QED
  BY <1>1, <1>2, <1>3, <1>4, <1>6 DEF q

\* The test region is a number of units that divide it.
LEMMA Filling ==
  ASSUME NEW u \in Nat \ {0}, TestBytes % u = 0
  PROVE  TestBytes \div u \in Nat \ {0} /\ (TestBytes \div u) * u = TestBytes
<1> DEFINE n == TestBytes \div u
<1>1. TestBytes \in Nat \ {0} /\ TestBytes \in Int
  BY Sizes
<1>2. n \in Int /\ TestBytes = u * n
  BY <1>1, Quotient
<1> HIDE DEF n
<1>3. n > 0
  <2> SUFFICES ASSUME n <= 0 PROVE FALSE
    BY <1>2
  <2>1. u * n <= 0
    BY <1>2
  <2> QED
    BY <1>1, <1>2, <2>1
<1> QED
  BY <1>1, <1>2, <1>3 DEF n

\* The items, and the strategies, which read back nothing but the image.
LEMMA Measurements ==
  /\ Item(sector_erase) /\ Reads(sector_erase)
  /\ Item(block_erase) /\ Reads(block_erase)
  /\ Item(page_program) /\ Reads(page_program)
  /\ Item(chunk_program) /\ Reads(chunk_program)
<1>1. Sector % Sector = 0 /\ Page % Page = 0
  BY Sizes
<1>2. ASSUME NEW a, Good(a), a.op = "erase"
      PROVE  Item(<<a>>) /\ Reads(<<a>>)
  <2>1. Item(<<a>>)
    BY <1>2, ItemOne
  <2>2. Len(<<a>>) = 1 /\ <<a>>[1] = a /\ 1 .. 1 = {1}
    OBVIOUS
  <2> QED
    BY <1>2, <2>1, <2>2 DEF Reads
<1>3. ASSUME NEW a, NEW b, Good(a), Good(b), a.op = "erase", b.op = "program", Span(b) <= Span(a)
      PROVE  Item(<<a, b>>) /\ Reads(<<a, b>>)
  <2>1. Item(<<a, b>>)
    BY <1>3, ItemTwo
  <2>2. Len(<<a, b>>) = 2 /\ <<a, b>>[1] = a /\ <<a, b>>[2] = b /\ 1 .. 2 = {1, 2}
    OBVIOUS
  <2> QED
    BY <1>3, <2>1, <2>2 DEF Reads
<1>4. Item(sector_erase) /\ Reads(sector_erase)
  <2>1. NSectors * Sector <= TestBytes
    BY FlashBenchAssumption
  <2>2. Good(EraseEach(Sector, NSectors)) /\ EraseEach(Sector, NSectors).op = "erase"
    BY <1>1, <2>1, Sizes, GoodErase
  <2> QED
    BY <1>2, <2>2 DEF sector_erase
<1>5. Item(block_erase) /\ Reads(block_erase)
  <2>1. NBlocks * Block <= TestBytes
    BY FlashBenchAssumption
  <2>2. Good(EraseEach(Block, NBlocks)) /\ EraseEach(Block, NBlocks).op = "erase"
    BY <2>1, Sizes, GoodErase
  <2> QED
    BY <1>2, <2>2 DEF block_erase
<1>6. Item(page_program) /\ Reads(page_program)
  <2> DEFINE n == (NPages * Page + Sector - 1) \div Sector
  <2>1. NPages * Page \in Nat \ {0} /\ NPages * Page <= TestBytes
    BY FlashBenchAssumption, Sizes
  <2>2. n \in Nat \ {0} /\ NPages * Page <= n * Sector /\ n * Sector <= TestBytes
    BY <2>1, RoundedUp
  <2> HIDE DEF n
  <2>3. /\ Good(EraseEach(Sector, n)) /\ EraseEach(Sector, n).op = "erase"
        /\ Span(EraseEach(Sector, n)) = n * Sector
    BY <1>1, <2>2, Sizes, GoodErase
  <2>4. /\ Good(ProgramEach(Page, NPages, Page, "page"))
        /\ ProgramEach(Page, NPages, Page, "page").op = "program"
        /\ Span(ProgramEach(Page, NPages, Page, "page")) = NPages * Page
    BY <1>1, <2>1, Sizes, GoodProgram
  <2>5. Span(ProgramEach(Page, NPages, Page, "page")) <= Span(EraseEach(Sector, n))
    BY <2>2, <2>3, <2>4
  <2> QED
    BY <1>3, <2>3, <2>4, <2>5 DEF page_program, n
<1>7. Item(chunk_program) /\ Reads(chunk_program)
  <2>1. NChunks * Sector \in Nat /\ NChunks * Sector <= TestBytes
    BY FlashBenchAssumption, Sizes
  <2>2. /\ Good(EraseEach(Sector, NChunks)) /\ EraseEach(Sector, NChunks).op = "erase"
        /\ Span(EraseEach(Sector, NChunks)) = NChunks * Sector
    BY <1>1, <2>1, Sizes, GoodErase
  <2>3. /\ Good(ProgramEach(Sector, NChunks, Sector, "chunk"))
        /\ ProgramEach(Sector, NChunks, Sector, "chunk").op = "program"
        /\ Span(ProgramEach(Sector, NChunks, Sector, "chunk")) = NChunks * Sector
    BY <2>1, Sizes, GoodProgram
  <2>4. Span(ProgramEach(Sector, NChunks, Sector, "chunk")) <= Span(EraseEach(Sector, NChunks))
    BY <2>1, <2>2, <2>3
  <2> QED
    BY <1>3, <2>2, <2>3, <2>4 DEF chunk_program
<1> QED
  BY <1>4, <1>5, <1>6, <1>7

\* An item that ends by reading back the image it has put there.
Strategy(s) == Item(s) /\ Reads(s) /\ Ends(s)

LEMMA ErasedRegion ==
  Good(EraseRegion) /\ EraseRegion.op = "erase" /\ Span(EraseRegion) = TestBytes
<1> DEFINE n == TestBytes \div Block
<1>1. Block \in Nat \ {0} /\ TestBytes % Block = 0 /\ Block % Sector = 0 /\ TestBytes \in Nat
  BY Sizes
<1>2. n \in Nat \ {0} /\ n * Block = TestBytes
  BY <1>1, Filling
<1> HIDE DEF n
<1>3. n * Block <= TestBytes
  BY <1>1, <1>2
<1>4. Good(EraseEach(Block, n)) /\ EraseEach(Block, n).op = "erase" /\ Span(EraseEach(Block, n)) = n * Block
  BY <1>1, <1>2, <1>3, GoodErase
<1> QED
  BY <1>2, <1>4 DEF EraseRegion, n

LEMMA StrategyA == Strategy(strategy_a)
<1> DEFINE n == TestBytes \div Sector
           a == RewriteEach(Sector, n, "image")
<1>1. Sector \in Nat \ {0} /\ TestBytes % Sector = 0 /\ TestBytes \in Nat
  BY Sizes
<1>2. n \in Nat \ {0} /\ n * Sector = TestBytes
  BY <1>1, Filling
<1> HIDE DEF n
<1>3. n * Sector <= TestBytes
  BY <1>1, <1>2
<1>4. Good(a) /\ a.op = "rewrite" /\ Span(a) = TestBytes
  BY <1>2, <1>3, GoodRewrite
<1>5. a.seed = "image"
  BY DEF RewriteEach, Loop
<1> HIDE DEF a
<1>6. Item(<<a, ReadBack>>)
  BY <1>4, GoodRead, ItemTwo
<1>7. Len(<<a, ReadBack>>) = 2 /\ <<a, ReadBack>>[1] = a /\ <<a, ReadBack>>[2] = ReadBack /\ 1 .. 2 = {1, 2}
  OBVIOUS
<1>8. Puts(a) /\ Puts(ReadBack)
  BY <1>4, <1>5, GoodRead DEF Puts
<1>9. Reads(<<a, ReadBack>>) /\ Ends(<<a, ReadBack>>)
  BY <1>4, <1>7, <1>8 DEF Reads, Ends
<1> QED
  BY <1>6, <1>9 DEF Strategy, strategy_a, a, n

LEMMA StrategyBC ==
  ASSUME NEW u \in {Page, Sector}
  PROVE  Strategy(<<EraseRegion, ProgramEach(u, TestBytes \div u, Sector, "image"), ReadBack>>)
<1> DEFINE n == TestBytes \div u
           b == ProgramEach(u, n, Sector, "image")
           s == <<EraseRegion, b, ReadBack>>
<1>1. /\ u \in Nat \ {0} /\ TestBytes % u = 0 /\ TestBytes \in Nat /\ u % Page = 0
      /\ Sector % u = 0 /\ Sector \in Nat \ {0}
  <2>1. Sector % Sector = 0 /\ Page % Page = 0
    BY Sizes
  <2> QED
    BY <2>1, Sizes
<1>2. n \in Nat \ {0} /\ n * u = TestBytes
  BY <1>1, Filling
<1> HIDE DEF n
<1>3. n * u <= TestBytes
  BY <1>1, <1>2
<1>4. Good(b) /\ b.op = "program" /\ Span(b) = TestBytes
  <2>1. Good(b) /\ b.op = "program" /\ Span(b) = n * u
    BY <1>1, <1>2, <1>3, GoodProgram
  <2> QED
    BY <1>2, <2>1
<1>5. b.seed = "image"
  BY DEF ProgramEach, Loop
<1> HIDE DEF b
<1>6. Span(b) <= Span(EraseRegion)
  BY <1>1, <1>4, ErasedRegion
<1>7. Item(s)
  BY <1>4, <1>6, ErasedRegion, GoodRead, ItemThree
<1>8. Len(s) = 3 /\ s[1] = EraseRegion /\ s[2] = b /\ s[3] = ReadBack /\ 1 .. 3 = {1, 2, 3}
  OBVIOUS
<1>9. Puts(b) /\ Puts(ReadBack)
  BY <1>4, <1>5, GoodRead DEF Puts
<1> HIDE DEF s
<1>10. Reads(s) /\ Ends(s)
  BY <1>4, <1>8, <1>9, ErasedRegion DEF Reads, Ends
<1> QED
  BY <1>7, <1>10 DEF Strategy, s, b, n

LEMMA Strategies == Strategy(image_strategies)
<1>1. Strategy(strategy_a) /\ Strategy(strategy_b) /\ Strategy(strategy_c)
  BY StrategyA, StrategyBC DEF strategy_b, strategy_c
<1>2. Strategy(strategy_a \o strategy_b)
  BY <1>1, ItemsJoin, ReadsJoin DEF Strategy
<1>3. Strategy((strategy_a \o strategy_b) \o strategy_c)
  BY <1>1, <1>2, ItemsJoin, ReadsJoin DEF Strategy
<1>4. TestBytes % Block = 0 /\ is_staging_range(TestOffset, TestBytes)
  BY Sizes DEF is_staging_range
<1> QED
  BY <1>3, <1>4 DEF image_strategies

LEMMA Suite == Strategy(full_suite)
<1>1. Item(<<ReadBack>>) /\ Len(<<ReadBack>>) = 1 /\ Ends(<<ReadBack>>)
  <2>1. Item(<<ReadBack>>)
    BY GoodRead, ItemOne
  <2>2. Len(<<ReadBack>>) = 1 /\ <<ReadBack>>[1] = ReadBack
    OBVIOUS
  <2> QED
    BY <2>1, <2>2, GoodRead DEF Ends, Puts
<1> DEFINE s2 == sector_erase \o block_erase
           s3 == s2 \o page_program
           s4 == s3 \o chunk_program
           s5 == s4 \o image_strategies
<1>2. Item(s2) /\ Reads(s2)
  BY Measurements, ItemsJoin, ReadsJoin
<1>3. Item(s3) /\ Reads(s3)
  BY <1>2, Measurements, ItemsJoin, ReadsJoin
<1>4. Item(s4) /\ Reads(s4)
  BY <1>3, Measurements, ItemsJoin, ReadsJoin
<1>5. Item(s5) /\ Reads(s5) /\ Ends(s5)
  BY <1>4, Strategies, ItemsJoin, ReadsJoin DEF Strategy
<1>6. Strategy(s5 \o <<ReadBack>>)
  BY <1>1, <1>5, ItemsJoin, ReadsJoin DEF Strategy
<1> QED
  BY <1>6 DEF full_suite

\* What a command does is an item, and the commands that write the image read back
\* nothing else.
LEMMA CommandItems ==
  /\ \A c \in Commands : Item(Loops[c])
  /\ \A c \in {"c5", "f"} : Reads(Loops[c])
<1>1. Commands = {"c1", "c2", "c3", "c4", "c5", "c6", "f"}
  BY DEF Commands, Loops
<1>2. /\ Loops["c1"] = sector_erase /\ Loops["c2"] = block_erase /\ Loops["c3"] = page_program
      /\ Loops["c4"] = chunk_program /\ Loops["c5"] = image_strategies
      /\ Loops["c6"] = <<ReadBack>> /\ Loops["f"] = full_suite
  BY DEF Loops
<1>3. Item(<<ReadBack>>)
  BY GoodRead, ItemOne
<1> QED
  BY <1>1, <1>2, <1>3, Measurements, Strategies, Suite DEF Strategy

-----------------------------------------------------------------------------
(* Where an item is, and the types.                                        *)

\* Nothing happens between two commands, and an item fails only by a fault.
PlaceInv ==
  /\ stage \in {"menu", "confirm", "run"} /\ cmd \in Commands
  /\ loop \in 1 .. Len(Loops[cmd]) /\ turn \in 0 .. Current.turns - 1
  /\ stage # "run" => loop = 1 /\ turn = 0
  /\ outcome \in {"none", "ok", "error"}
  /\ outcome # "none" => stage = "menu"

\* A turn of a loop, in numbers: it has its unit of the test region.
LEMMA Turn ==
  ASSUME PlaceInv
  PROVE  /\ Good(Current) /\ Current.unit \in Nat \ {0} /\ Current.turns \in Nat \ {0}
         /\ turn \in Nat /\ turn < Current.turns /\ Unit \in Nat
         /\ Unit * Current.unit \in Nat /\ Offset = TestOffset + Unit * Current.unit
         /\ Op \in {"erase", "program", "verify"}
         /\ Op = "verify" <=> Current.op = "verify"
         /\ Op # "verify" =>
              /\ Unit < Units(Current) /\ Units(Current) \in Nat /\ Span(Current) \in Nat
              /\ Unit * Current.unit + Current.unit <= Span(Current)
              /\ Span(Current) <= TestBytes
<1> DEFINE l == Current
           n == Units(l)
<1>1. Item(Loops[cmd]) /\ loop \in 1 .. Len(Loops[cmd])
  BY CommandItems DEF PlaceInv
<1>2. Good(l)
  BY <1>1 DEF Item, Current
<1>3. /\ l.op \in {"erase", "program", "rewrite", "verify"} /\ l.unit \in Nat \ {0}
      /\ l.turns \in Nat \ {0}
  BY <1>2 DEF Good, LoopType
<1>4. turn \in Nat /\ turn < l.turns
  BY <1>3 DEF PlaceInv
<1>5. Unit \in Nat
  BY <1>4 DEF Unit
<1>6. Unit * l.unit \in Nat
  BY <1>3, <1>5
<1>7. Op \in {"erase", "program", "verify"} /\ (Op = "verify" <=> l.op = "verify")
  BY <1>3 DEF Op
<1>8. ASSUME Op # "verify"
      PROVE  /\ Unit < n /\ n \in Nat /\ Span(l) \in Nat
             /\ Unit * l.unit + l.unit <= Span(l) /\ Span(l) <= TestBytes
  <2>1. /\ n \in Nat /\ Span(l) \in Nat /\ Span(l) <= TestBytes
        /\ l.op = "rewrite" => l.turns = 2 * n
    BY <1>2, <1>7, <1>8 DEF Good
  <2>2. Unit < n
    BY <1>3, <1>4, <2>1 DEF Unit, Units
  <2> HIDE DEF n
  <2>3. (Unit + 1) * l.unit <= n * l.unit
    BY <1>3, <1>5, <2>1, <2>2
  <2>4. (Unit + 1) * l.unit = Unit * l.unit + l.unit /\ Span(l) = n * l.unit
    BY <1>3, <1>5, OneMore DEF Span, n
  <2> QED
    BY <2>1, <2>2, <2>3, <2>4
<1> QED
  BY <1>2, <1>3, <1>4, <1>5, <1>6, <1>7, <1>8 DEF Offset

\* The guard lets every operation of an item pass.
LEMMA Allowed ==
  ASSUME PlaceInv, Op \in {"erase", "program"}
  PROVE  /\ Permitted(Op, Offset, Current.unit)
         /\ Offset % Page = 0 /\ Current.unit % Page = 0
<1> DEFINE u == Current.unit
<1>1. /\ u \in Nat \ {0} /\ Unit \in Nat /\ Offset = TestOffset + Unit * u
      /\ Unit * u \in Nat /\ Unit * u + u <= TestBytes
      /\ u % Page = 0 /\ (Op = "erase" => u % Sector = 0)
  <2>1. Good(Current) /\ Current.op # "verify" /\ (Op = "erase" => Current.op # "program")
    BY Turn DEF Op
  <2>2. /\ u \in Nat \ {0} /\ Unit \in Nat /\ Offset = TestOffset + Unit * u
        /\ Unit * u \in Nat /\ Unit * u + u <= Span(Current) /\ Span(Current) <= TestBytes
        /\ Span(Current) \in Nat
    BY Turn
  <2>3. Unit * u + u <= TestBytes
    BY <2>2, Sizes
  <2> QED
    BY <2>1, <2>2, <2>3 DEF Good
<1> HIDE DEF u
<1>2. /\ TestOffset \in Int /\ Page \in Nat \ {0} /\ Sector \in Nat \ {0}
      /\ TestOffset % Page = 0 /\ TestOffset % Sector = 0
      /\ u \in Int /\ Unit \in Int
  BY <1>1, Sizes
<1>3. Offset % Page = 0
  BY <1>1, <1>2, Aligned
<1>4. Op = "erase" => Offset % Sector = 0
  <2> HAVE Op = "erase"
  <2>1. (TestOffset + Unit * u) % Sector = 0
    BY <1>1, <1>2, Aligned
  <2> QED
    BY <1>1, <2>1, Zenon
<1>5. is_staging_range(Offset, u)
  BY <1>1, Sizes DEF is_staging_range
<1> QED
  BY <1>1, <1>3, <1>4, <1>5 DEF Permitted, is_sector_aligned, is_page_aligned, u

\* The turns of a loop come one after another, and the loops of an item.
LEMMA Onward ==
  ASSUME PlaceInv, NextTurn
  PROVE  /\ cmd' = cmd
         /\ \/ /\ turn + 1 < Current.turns
               /\ stage' = "run" /\ loop' = loop /\ turn' = turn + 1
            \/ /\ turn + 1 = Current.turns /\ loop < Len(Loops[cmd])
               /\ stage' = "run" /\ loop' = loop + 1 /\ turn' = 0
            \/ /\ turn + 1 = Current.turns /\ loop = Len(Loops[cmd])
               /\ stage' = "menu" /\ loop' = 1 /\ turn' = 0
<1>1. turn \in Nat /\ turn < Current.turns /\ Current.turns \in Nat
  BY Turn
<1>2. loop \in Nat /\ loop <= Len(Loops[cmd]) /\ Len(Loops[cmd]) \in Nat
  <2>1. Item(Loops[cmd]) /\ loop \in 1 .. Len(Loops[cmd])
    BY CommandItems DEF PlaceInv
  <2> QED
    BY <2>1 DEF Item
<1> QED
  BY <1>1, <1>2 DEF NextTurn, GoTo

\* A place inside an item.
LEMMA Placed ==
  ASSUME NEW c \in Commands
  PROVE  /\ Len(Loops[c]) \in Nat /\ 1 \in 1 .. Len(Loops[c])
         /\ \A k \in 1 .. Len(Loops[c]) :
              Good(Loops[c][k]) /\ Loops[c][k].turns \in Nat /\ 0 \in 0 .. Loops[c][k].turns - 1
<1>1. Item(Loops[c])
  BY CommandItems
<1>2. Len(Loops[c]) \in Nat /\ 1 \in 1 .. Len(Loops[c])
  BY <1>1 DEF Item
<1>3. ASSUME NEW k \in 1 .. Len(Loops[c])
      PROVE  Good(Loops[c][k]) /\ Loops[c][k].turns \in Nat /\ 0 \in 0 .. Loops[c][k].turns - 1
  <2>1. Good(Loops[c][k])
    BY <1>1 DEF Item
  <2>2. Loops[c][k].turns \in Nat \ {0}
    BY <2>1 DEF Good, LoopType
  <2> QED
    BY <2>1, <2>2
<1> QED
  BY <1>2, <1>3

LEMMA PlaceGoes ==
  ASSUME PlaceInv, NextTurn, Finish, stage = "run"
  PROVE  PlaceInv'
<1>1. turn \in Nat /\ Current.turns \in Nat
  BY Turn
<1>2. Len(Loops[cmd]) \in Nat /\ loop \in 1 .. Len(Loops[cmd]) /\ cmd \in Commands
  BY Placed DEF PlaceInv
<1>3. cmd' = cmd /\ stage' \in {"run", "menu"}
  BY Onward
<1>4. /\ loop' \in 1 .. Len(Loops[cmd]) /\ turn' \in 0 .. Loops[cmd][loop'].turns - 1
      /\ stage' # "run" => loop' = 1 /\ turn' = 0
  <2>1. CASE turn + 1 < Current.turns /\ loop' = loop /\ turn' = turn + 1 /\ stage' = "run"
    BY <1>1, <1>2, <2>1 DEF Current
  <2>2. CASE loop < Len(Loops[cmd]) /\ loop' = loop + 1 /\ turn' = 0 /\ stage' = "run"
    <3>1. loop' \in 1 .. Len(Loops[cmd])
      BY <1>2, <2>2
    <3> QED
      BY <1>2, <2>2, <3>1, Placed
  <2>3. CASE loop' = 1 /\ turn' = 0
    BY <1>2, <2>3, Placed
  <2> QED
    BY <2>1, <2>2, <2>3, Onward
<1>5. outcome' \in {"none", "ok", "error"} /\ (outcome' # "none" => stage' = "menu")
  BY <1>3 DEF Finish, PlaceInv
<1> QED
  BY <1>2, <1>3, <1>4, <1>5 DEF PlaceInv, Current

LEMMA PlaceStep ==
  ASSUME PlaceInv, [Next]_vars
  PROVE  PlaceInv'
<1>1. CASE Flash
  <2>1. stage = "run" /\ ((NextTurn /\ Finish) \/ Fail)
    BY <1>1 DEF Flash
  <2>2. CASE Fail
    <3>1. stage' = "menu" /\ cmd' = cmd /\ loop' = 1 /\ turn' = 0 /\ outcome' = "error"
      BY <2>2 DEF Fail, GoTo
    <3> QED
      BY <3>1, Placed DEF PlaceInv, Current
  <2> QED
    BY <2>1, <2>2, PlaceGoes
<1>2. CASE Verify
  BY <1>2, PlaceGoes DEF Verify
<1>3. CASE \E c \in Commands : TypeKey(c)
  <2>1. PICK c \in Commands : TypeKey(c)
    BY <1>3
  <2>2. /\ stage' \in {"run", "confirm"} /\ cmd' = c /\ loop' = 1 /\ turn' = 0 /\ outcome' = "none"
    BY <2>1 DEF TypeKey, GoTo
  <2> QED
    BY <2>2, Placed DEF PlaceInv, Current
<1>4. CASE Confirm
  BY <1>4 DEF Confirm, PlaceInv, Current
<1>5. CASE PowerLoss
  <2>1. stage' = "menu" /\ cmd' = cmd /\ loop' = 1 /\ turn' = 0 /\ outcome' = "none"
    BY <1>5 DEF PowerLoss, GoTo
  <2> QED
    BY <2>1, Placed DEF PlaceInv, Current
<1>6. CASE UNCHANGED vars
  BY <1>6 DEF vars, at, PlaceInv, Current
<1> QED
  BY <1>1, <1>2, <1>3, <1>4, <1>5, <1>6 DEF Next

\* The other variables keep their types.
DataTyped ==
  /\ DOMAIN mem = Pages /\ verified \in Seq(BOOLEAN)
  /\ commands \in 0 .. MaxCommands /\ faults \in 0 .. MaxFaults
  /\ losses \in 0 .. MaxPowerLosses

LEMMA FlashDomain ==
  ASSUME NEW m, NEW op, NEW offset, NEW count, NEW data
  PROVE  /\ DOMAIN Executed(m, op, offset, count, data) = Pages
         /\ DOMAIN Interrupted(m, offset, count) = Pages
BY DEF Executed, Interrupted

LEMMA DataStep ==
  ASSUME PlaceInv, DataTyped, [Next]_vars
  PROVE  DataTyped'
<1>0. MaxCommands \in Nat /\ MaxFaults \in Nat /\ MaxPowerLosses \in Nat
  BY FlashBenchAssumption
<1>1. CASE Flash
  <2>1. mem' = mem \/ mem' = Executed(mem, Op, Offset, Current.unit, Data)
    BY <1>1 DEF Flash, Fail
  <2>2. DOMAIN mem' = Pages
    BY <2>1, FlashDomain DEF DataTyped
  <2>3. UNCHANGED <<verified, commands, losses>> /\ faults' \in 0 .. MaxFaults
    <3>1. /\ UNCHANGED <<verified, commands, losses>>
          /\ \/ faults' = faults
             \/ faults < MaxFaults /\ faults' = faults + 1
      BY <1>1 DEF Flash, Fail, bounds
    <3> QED
      BY <1>0, <3>1 DEF DataTyped
  <2> QED
    BY <2>2, <2>3 DEF DataTyped
<1>2. CASE Verify
  <2>1. PICK b \in BOOLEAN : verified' = Append(verified, b)
    <3>1. (\A p \in PagesIn(TestOffset, TestBytes) : mem[p] = ImagePage(p)) \in BOOLEAN
      OBVIOUS
    <3> QED
      BY <1>2, <3>1 DEF Verify
  <2>2. verified' \in Seq(BOOLEAN)
    BY <2>1 DEF DataTyped
  <2>3. UNCHANGED <<mem, commands, faults, losses>>
    BY <1>2 DEF Verify, bounds
  <2> QED
    BY <2>2, <2>3 DEF DataTyped
<1>3. CASE \E c \in Commands : TypeKey(c)
  BY <1>0, <1>3 DEF TypeKey, DataTyped
<1>4. CASE Confirm
  BY <1>4 DEF Confirm, DataTyped, bounds
<1>5. CASE PowerLoss
  <2>1. mem' = mem \/ mem' = Interrupted(mem, Offset, Current.unit)
    BY <1>5 DEF PowerLoss, CutOff
  <2>2. DOMAIN mem' = Pages
    BY <2>1, FlashDomain DEF DataTyped
  <2>3. verified' = <<>> /\ UNCHANGED <<commands, faults>> /\ losses' \in 0 .. MaxPowerLosses
    BY <1>0, <1>5 DEF PowerLoss, DataTyped
  <2> QED
    BY <2>2, <2>3 DEF DataTyped
<1>6. CASE UNCHANGED vars
  BY <1>6 DEF vars, bounds, DataTyped
<1> QED
  BY <1>1, <1>2, <1>3, <1>4, <1>5, <1>6 DEF Next

LEMMA PlaceInit == Init => PlaceInv
<1> SUFFICES ASSUME Init PROVE PlaceInv
  OBVIOUS
<1>1. cmd = "c6" /\ cmd \in Commands /\ loop = 1 /\ turn = 0 /\ stage = "menu" /\ outcome = "none"
  BY DEF Init, Commands, Loops
<1> QED
  BY <1>1, Placed DEF PlaceInv, Current

LEMMA DataInit == Init => DataTyped
BY FlashBenchAssumption DEF Init, DataTyped

\* TypeOK, of the menu of main_flash_bench.c: every turn of every item stays inside its
\* loop, and every loop inside its item.
THEOREM FlashBenchType == Spec => []TypeOK
<1>1. PlaceInv /\ DataTyped => TypeOK
  BY DEF PlaceInv, DataTyped, TypeOK
<1> QED
  BY <1>1, PlaceInit, DataInit, PlaceStep, DataStep, PTL DEF Spec

-----------------------------------------------------------------------------
(* What is written where.                                                  *)

\* An operation of an item touches the pages of its unit, in the test region.
LEMMA UnitInside ==
  ASSUME PlaceInv, Op \in {"erase", "program"}, NEW p \in Pages, Touches(Offset, Current.unit, p)
  PROVE  Touches(TestOffset, TestBytes, p)
<1> DEFINE b == p * Page
           x == Unit * Current.unit
<1>1. /\ Current.unit \in Nat /\ x \in Nat /\ Offset = TestOffset + x
      /\ x + Current.unit <= Span(Current) /\ Span(Current) \in Nat /\ Span(Current) <= TestBytes
  BY Turn
<1>2. b \in Int /\ TestOffset \in Nat /\ TestBytes \in Nat
  BY Sizes DEF Pages
<1>3. Offset <= b /\ b < Offset + Current.unit
  BY DEF Touches
<1> HIDE DEF b, x
<1>4. TestOffset <= b /\ b < TestOffset + TestBytes
  BY <1>1, <1>2, <1>3
<1> QED
  BY <1>4 DEF Touches, b

\* What an operation, or the part of it before the power goes, leaves alone.
LEMMA Untouched ==
  ASSUME NEW op, NEW offset, NEW count, NEW data, NEW p \in Pages, ~ Touches(offset, count, p)
  PROVE  /\ Executed(mem, op, offset, count, data)[p] = mem[p]
         /\ Interrupted(mem, offset, count)[p] = mem[p]
BY DEF Executed, Interrupted

LEMMA WritesInside ==
  ASSUME PlaceInv, [Next]_vars, NEW p \in Pages, ~ Touches(TestOffset, TestBytes, p)
  PROVE  mem'[p] = mem[p]
<1>1. CASE mem' = mem
  BY <1>1
<1>2. CASE /\ Op \in {"erase", "program"}
           /\ \/ mem' = Executed(mem, Op, Offset, Current.unit, Data)
              \/ mem' = Interrupted(mem, Offset, Current.unit)
  <2>1. ~ Touches(Offset, Current.unit, p)
    BY <1>2, UnitInside
  <2> QED
    BY <1>2, <2>1, Untouched
<1>3. CASE Flash
  BY <1>1, <1>2, <1>3 DEF Flash, Fail
<1>4. CASE PowerLoss
  <2>1. \/ mem' = mem
        \/ Op # "verify" /\ mem' = Interrupted(mem, Offset, Current.unit)
    BY <1>4 DEF PowerLoss, CutOff
  <2>2. Op \in {"erase", "program", "verify"}
    BY Turn
  <2> QED
    BY <1>1, <1>2, <2>1, <2>2
<1> QED
  BY <1>1, <1>3, <1>4 DEF Next, TypeKey, Confirm, Verify, vars

\* OnlyTestRegionChanges, of flash_bench.c: whatever is typed, fails or is cut off, no
\* item changes a page outside the test region.
THEOREM TestRegionOnly == Spec => OnlyTestRegionChanges
<1>1. PlaceInv /\ [Next]_vars =>
        [\A p \in Pages : mem'[p] # mem[p] => Touches(TestOffset, TestBytes, p)]_vars
  BY WritesInside
<1> QED
  BY <1>1, PlaceInit, PlaceStep, PTL DEF Spec, OnlyTestRegionChanges

-----------------------------------------------------------------------------
(* What is programmed is blank.                                            *)

AllBlank(o, n) == \A p \in Pages : Touches(o, n, p) => mem[p] = Blank

\* What the loop has erased, or has still to program, is blank.
BlankInv ==
  /\ Current.op = "erase" => AllBlank(TestOffset, turn * Current.unit)
  /\ Current.op = "program" =>
       AllBlank(TestOffset + turn * Current.unit, Span(Current) - turn * Current.unit)
  /\ Current.op = "rewrite" /\ turn % 2 = 1 => AllBlank(Offset, Current.unit)

\* Which page of its unit a page is.
LEMMA PageIndex ==
  ASSUME PlaceInv, Op \in {"erase", "program"}, NEW p \in Pages, Touches(Offset, Current.unit, p)
  PROVE  /\ p - Offset \div Page \in 0 .. Current.unit \div Page - 1
         /\ Offset = Page * (Offset \div Page) /\ Offset \div Page \in Nat
         /\ Current.unit = Page * (Current.unit \div Page)
<1> DEFINE x == Offset \div Page
           y == Current.unit \div Page
<1>1. Offset \in Nat /\ Current.unit \in Nat /\ Offset % Page = 0 /\ Current.unit % Page = 0
  <2>1. Offset \in Nat /\ Current.unit \in Nat
    BY Turn, Sizes
  <2> QED
    BY <2>1, Allowed
<1>2. Page \in Nat \ {0} /\ p \in Nat
  BY Sizes DEF Pages
<1>3. x \in Int /\ y \in Int /\ Offset = Page * x /\ Current.unit = Page * y
  <2>1. Offset \in Int /\ Current.unit \in Int
    BY <1>1
  <2> QED
    BY <1>1, <1>2, <2>1, Quotient
<1>4. x \in Nat
  BY <1>1, <1>2
<1> HIDE DEF x, y
<1>5. Page * x <= Page * p /\ Page * p < Page * (x + y)
  BY <1>2, <1>3 DEF Touches
<1>6. x <= p
  <2> SUFFICES ASSUME p <= x - 1 PROVE FALSE
    BY <1>2, <1>3
  <2>1. Page * p <= Page * (x - 1)
    BY <1>2, <1>3
  <2>2. Page * (x - 1) = Page * x - Page
    BY <1>2, <1>3
  <2> QED
    BY <1>2, <1>3, <1>5, <2>1, <2>2
<1>7. p < x + y
  <2> SUFFICES ASSUME p >= x + y PROVE FALSE
    BY <1>2, <1>3
  <2>1. Page * p >= Page * (x + y)
    BY <1>2, <1>3
  <2> QED
    BY <1>2, <1>3, <1>5, <2>1
<1>8. p - x \in 0 .. y - 1
  BY <1>2, <1>3, <1>6, <1>7
<1> QED
  BY <1>3, <1>4, <1>8 DEF x, y

\* The unit that is programmed is blank.
LEMMA ProgramsBlank ==
  ASSUME PlaceInv, BlankInv, Op = "program", NEW p \in Pages, Touches(Offset, Current.unit, p)
  PROVE  mem[p] = Blank
<1> DEFINE b == p * Page
           x == Unit * Current.unit
           n == Span(Current)
<1>1. /\ Current.unit \in Nat /\ x \in Nat /\ Offset = TestOffset + x
      /\ x + Current.unit <= n /\ n \in Nat
  BY Turn
<1>2. Good(Current) /\ turn \in Nat
  BY Turn
<1>3. CASE Current.op = "program"
  <2>1. Unit = turn
    BY <1>3 DEF Unit
  <2>2. AllBlank(TestOffset + x, n - x)
    BY <1>3, <2>1 DEF BlankInv
  <2>3. b \in Int /\ TestOffset \in Nat /\ Offset <= b /\ b < Offset + Current.unit
    BY Sizes DEF Pages, Touches
  <2> HIDE DEF b, x, n
  <2>4. TestOffset + x <= b /\ b < TestOffset + x + (n - x)
    BY <1>1, <2>3
  <2> QED
    BY <2>2, <2>4 DEF AllBlank, Touches, b
<1>4. CASE Current.op = "rewrite"
  <2>1. turn % 2 = 1
    BY <1>2, <1>4 DEF Op
  <2> QED
    BY <1>4, <2>1 DEF BlankInv, AllBlank
<1>5. Current.op = "program" \/ Current.op = "rewrite"
  <2>1. Current.op \in {"erase", "program", "rewrite", "verify"}
    BY <1>2 DEF Good, LoopType
  <2> QED
    BY <2>1 DEF Op
<1> QED
  BY <1>3, <1>4, <1>5

\* At its first turn a loop has erased nothing, and may have to program what the
\* loop before has erased.
LEMMA BlankFirst ==
  ASSUME PlaceInv', turn' = 0,
         (Current.op = "program")' =>
           \A p \in Pages : Touches(TestOffset, Span(Current)', p) => mem'[p] = Blank
  PROVE  BlankInv'
<1> DEFINE l == Current'
<1>1. Good(l) /\ l.unit \in Nat
  <2>1. Good(Current)' /\ (Current.unit \in Nat \ {0})'
    BY Turn, PTL
  <2> QED
    BY <2>1 DEF Good, LoopType
<1>2. turn' * l.unit = 0
  BY <1>1
<1>3. ASSUME NEW p \in Pages PROVE ~ Touches(TestOffset, 0, p)
  <2>1. p * Page \in Int /\ TestOffset \in Nat
    BY Sizes DEF Pages
  <2> QED
    BY <2>1 DEF Touches
<1>4. l.op = "program" => Span(l) \in Nat /\ TestOffset + 0 = TestOffset /\ Span(l) - 0 = Span(l)
  BY <1>1, Sizes DEF Good
<1>5. turn' % 2 # 1
  OBVIOUS
<1> QED
  BY <1>2, <1>3, <1>4, <1>5 DEF BlankInv, AllBlank

LEMMA BlankStart ==
  ASSUME PlaceInv', loop' = 1, turn' = 0
  PROVE  BlankInv'
<1>1. cmd' \in Commands
  BY DEF PlaceInv
<1>2. Item(Loops[cmd']) /\ 1 \in 1 .. Len(Loops[cmd'])
  BY <1>1, CommandItems, Placed
<1>3. Loops[cmd'][1].op # "program"
  BY <1>2 DEF Item
<1>4. ~ (Current.op = "program")'
  BY <1>3 DEF Current
<1> QED
  BY <1>4, BlankFirst

\* The next loop begins: it programs no more than this one has erased.
LEMMA BlankNext ==
  ASSUME PlaceInv, PlaceInv', cmd' = cmd, loop < Len(Loops[cmd]), loop' = loop + 1, turn' = 0,
         Current.op = "erase" =>
           \A p \in Pages : Touches(TestOffset, Span(Current), p) => mem'[p] = Blank
  PROVE  BlankInv'
<1> DEFINE l == Loops[cmd][loop + 1]
<1>1. Item(Loops[cmd]) /\ loop \in 1 .. Len(Loops[cmd]) /\ Len(Loops[cmd]) \in Nat
  BY CommandItems, Placed DEF PlaceInv
<1>2. loop + 1 \in 1 .. Len(Loops[cmd]) /\ (loop + 1) - 1 = loop
  BY <1>1
<1>3. Current' = l
  BY DEF Current
<1>4. l.op = "program" => Current.op = "erase" /\ Span(l) <= Span(Current)
  <2>1. l.op = "program" => Loops[cmd][(loop + 1) - 1].op = "erase" /\ Span(l) <= Span(Loops[cmd][(loop + 1) - 1])
    BY <1>1, <1>2 DEF Item
  <2> QED
    BY <1>2, <2>1 DEF Current
<1>5. Good(l) /\ Good(Current)
  BY <1>1, <1>2, Turn DEF Item
<1> HIDE DEF l
<1>6. ASSUME l.op = "program", NEW p \in Pages, Touches(TestOffset, Span(l), p)
      PROVE  mem'[p] = Blank
  <2> DEFINE b == p * Page
  <2>1. Span(l) \in Nat /\ Span(Current) \in Nat /\ Span(l) <= Span(Current)
    BY <1>4, <1>5, <1>6 DEF Good
  <2>2. b \in Int /\ TestOffset \in Nat /\ TestOffset <= b /\ b < TestOffset + Span(l)
    BY <1>6, Sizes DEF Pages, Touches
  <2> HIDE DEF b
  <2>3. b < TestOffset + Span(Current)
    BY <2>1, <2>2
  <2>4. Touches(TestOffset, Span(Current), p)
    BY <2>2, <2>3 DEF Touches, b
  <2> QED
    BY <1>4, <1>6, <2>4
<1> QED
  BY <1>3, <1>6, BlankFirst

\* A turn has erased or programmed its unit.
LEMMA BlankTurn ==
  ASSUME PlaceInv, PlaceInv', BlankInv, stage = "run", Op \in {"erase", "program"}, NextTurn,
         mem' = Executed(mem, Op, Offset, Current.unit, Data)
  PROVE  BlankInv'
<1> DEFINE l == Current
           u == Current.unit
<1>1. /\ Good(l) /\ u \in Nat \ {0} /\ turn \in Nat /\ l.turns \in Nat /\ Span(l) \in Nat
      /\ l.op \in {"erase", "program", "rewrite"} /\ Offset = TestOffset + Unit * u
      /\ TestOffset \in Nat
  <2>1. Good(l) /\ u \in Nat \ {0} /\ turn \in Nat /\ l.turns \in Nat /\ Span(l) \in Nat
        /\ Offset = TestOffset + Unit * u /\ l.op # "verify"
    BY Turn
  <2> QED
    BY <2>1, Sizes DEF Good, LoopType
<1>2. turn * u \in Nat /\ (turn + 1) * u = turn * u + u
  BY <1>1
<1>3. ASSUME l.op = "erase", NEW p \in Pages, Touches(TestOffset, (turn + 1) * u, p)
      PROVE  mem'[p] = Blank
  <2> DEFINE b == p * Page
             x == turn * u
  <2>0. Unit = turn /\ Op = "erase"
    BY <1>3 DEF Unit, Op
  <2>1. CASE Touches(Offset, u, p)
    BY <2>0, <2>1 DEF Executed
  <2>2. CASE ~ Touches(Offset, u, p)
    <3>1. mem'[p] = mem[p]
      BY <2>2, Untouched
    <3>2. Touches(TestOffset, x, p)
      <4>1. TestOffset <= b /\ b < TestOffset + (x + u)
        BY <1>2, <1>3 DEF Touches
      <4>2. ~ (TestOffset + x <= b /\ b < TestOffset + x + u)
        BY <1>1, <2>0, <2>2 DEF Touches
      <4>3. b \in Int
        BY Sizes DEF Pages
      <4> HIDE DEF b, x
      <4>4. b < TestOffset + x
        BY <1>1, <1>2, <4>1, <4>2, <4>3 DEF x
      <4> QED
        BY <4>1, <4>4 DEF Touches, b
    <3> QED
      BY <1>3, <3>1, <3>2 DEF BlankInv, AllBlank
  <2> QED
    BY <2>1, <2>2
<1>4. ASSUME l.op = "program", NEW p \in Pages,
             Touches(TestOffset + (turn + 1) * u, Span(l) - (turn + 1) * u, p)
      PROVE  mem'[p] = Blank
  <2> DEFINE b == p * Page
             x == turn * u
             n == Span(l)
  <2>0. Unit = turn
    BY <1>4 DEF Unit
  <2>1. b \in Int
    BY Sizes DEF Pages
  <2>2. TestOffset + (x + u) <= b /\ b < TestOffset + (x + u) + (n - (x + u))
    BY <1>2, <1>4 DEF Touches
  <2>3. Offset = TestOffset + x /\ x \in Nat /\ n \in Nat
    BY <1>1, <1>2, <2>0
  <2> HIDE DEF b, x, n
  <2>4. ~ (Offset <= b /\ b < Offset + u) /\ TestOffset + x <= b /\ b < TestOffset + x + (n - x)
    BY <1>1, <2>1, <2>2, <2>3
  <2>5. mem'[p] = mem[p]
    BY <2>4, Untouched DEF Touches, b
  <2>6. Touches(TestOffset + x, n - x, p)
    BY <2>4 DEF Touches, b
  <2> QED
    BY <1>4, <2>5, <2>6 DEF BlankInv, AllBlank, x, n
<1>5. CASE turn + 1 < l.turns /\ cmd' = cmd /\ loop' = loop /\ turn' = turn + 1
  <2>1. Current' = l
    BY <1>5 DEF Current
  <2>2. ASSUME l.op = "rewrite", (turn + 1) % 2 = 1, NEW p \in Pages, Touches(Offset', u, p)
        PROVE  mem'[p] = Blank
    <3>1. turn % 2 = 0 /\ (turn + 1) \div 2 = turn \div 2
      BY <1>1, <2>2
    <3>2. Op = "erase" /\ Unit' = Unit
      BY <1>5, <2>1, <2>2, <3>1 DEF Op, Unit
    <3>3. Offset' = Offset
      BY <2>1, <3>2 DEF Offset
    <3> QED
      BY <2>2, <3>2, <3>3 DEF Executed
  <2> QED
    BY <1>3, <1>4, <1>5, <2>1, <2>2 DEF BlankInv, AllBlank
<1>6. CASE /\ turn + 1 = l.turns /\ cmd' = cmd /\ loop < Len(Loops[cmd]) /\ loop' = loop + 1
           /\ turn' = 0
  <2>1. l.op = "erase" => Span(l) = (turn + 1) * u
    BY <1>6 DEF Span, Units
  <2> QED
    BY <1>3, <1>6, <2>1, BlankNext
<1>7. CASE loop' = 1 /\ turn' = 0
  BY <1>7, BlankStart
<1> QED
  BY <1>5, <1>6, <1>7, Onward

LEMMA BlankStep ==
  ASSUME PlaceInv, BlankInv, [Next]_vars
  PROVE  BlankInv'
<1>0. PlaceInv'
  BY PlaceStep
<1>1. CASE Flash
  <2>1. CASE Fail
    BY <1>0, <2>1, BlankStart DEF Fail, GoTo
  <2>2. CASE ~ Fail
    BY <1>0, <1>1, <2>2, BlankTurn DEF Flash
  <2> QED
    BY <2>1, <2>2
<1>2. CASE Verify
  <2>1. Current.op = "verify" /\ NextTurn
    BY <1>2, Turn DEF Verify
  <2>2. Current.turns = 1
    BY <2>1, Turn DEF Good, ReadBack, Loop
  <2>3. turn \in Nat /\ ~ (turn + 1 < Current.turns)
    BY <2>2, Turn
  <2>4. \/ cmd' = cmd /\ loop < Len(Loops[cmd]) /\ loop' = loop + 1 /\ turn' = 0
        \/ loop' = 1 /\ turn' = 0
    BY <2>1, <2>3, Onward
  <2> QED
    BY <1>0, <2>1, <2>4, BlankNext, BlankStart
<1>3. CASE (\E c \in Commands : TypeKey(c)) \/ PowerLoss
  BY <1>0, <1>3, BlankStart DEF TypeKey, PowerLoss, GoTo
<1>4. CASE Confirm \/ UNCHANGED vars
  <2>1. UNCHANGED <<mem, cmd, loop, turn>>
    BY <1>4 DEF Confirm, vars, at
  <2>2. UNCHANGED <<Current, Offset>>
    BY <2>1 DEF Current, Offset, Unit
  <2> QED
    BY <2>1, <2>2 DEF BlankInv, AllBlank, Span, Units
<1> QED
  BY <1>1, <1>2, <1>3, <1>4 DEF Next

\* ProgramsOnErased, of flash_bench.c: whenever an item is about to program, every
\* page it programs is blank, whatever commands, failures and power losses came
\* before, and even if the page holds the very data already.
THEOREM OnErased == Spec => []ProgramsOnErased
<1>1. Init => BlankInv
  <2> SUFFICES ASSUME Init PROVE BlankInv
    OBVIOUS
  <2>1. Current = ReadBack
    BY DEF Init, Current, Loops
  <2> QED
    BY <2>1, GoodRead DEF BlankInv
<1>2. PlaceInv /\ BlankInv /\ [Next]_vars => PlaceInv' /\ BlankInv'
  BY PlaceStep, BlankStep
<1>3. PlaceInv /\ BlankInv => ProgramsOnErased
  <2> SUFFICES ASSUME PlaceInv, BlankInv, Op = "program",
                      NEW p \in PagesIn(Offset, Current.unit)
               PROVE  mem[p] = Blank
    BY DEF ProgramsOnErased
  <2>1. p \in Pages /\ Touches(Offset, Current.unit, p)
    BY DEF PagesIn
  <2> QED
    BY <2>1, ProgramsBlank
<1> QED
  BY <1>1, <1>2, <1>3, PlaceInit, PTL DEF Spec

-----------------------------------------------------------------------------
(* The image.                                                              *)

\* Quotient and remainder of a number that is given by them.
LEMMA Divided ==
  ASSUME NEW s \in Nat \ {0}, NEW m \in Int, NEW r \in 0 .. s - 1
  PROVE  (s * m + r) \div s = m /\ (s * m + r) % s = r
<1> DEFINE x == s * m + r
           d == x \div s
           e == x % s
<1>1. x \in Int /\ d \in Int /\ e \in 0 .. s - 1 /\ x = s * d + e /\ s * m \in Int
  OBVIOUS
<1>2. s * m + r = s * d + e
  BY <1>1
<1> HIDE DEF x, d, e
<1>3. CASE m = d
  BY <1>1, <1>2, <1>3 DEF x, d, e
<1>4. CASE m > d
  <2>1. s * m >= s * (d + 1) /\ s * (d + 1) = s * d + s /\ s * d \in Int
    BY <1>1, <1>4
  <2> QED
    BY <1>1, <1>2, <2>1
<1>5. CASE m < d
  <2>1. s * d >= s * (m + 1) /\ s * (m + 1) = s * m + s /\ s * d \in Int
    BY <1>1, <1>5
  <2> QED
    BY <1>1, <1>2, <2>1
<1> QED
  BY <1>1, <1>3, <1>4, <1>5

\* Units that divide a sector lie in one.
LEMMA OneSector ==
  ASSUME NEW s \in Nat \ {0}, NEW u \in Nat \ {0}, s % u = 0, NEW n \in Nat,
         NEW x \in Nat, x = n * u
  PROVE  /\ x \div s \in Nat /\ x % s \in 0 .. s - 1
         /\ x = s * (x \div s) + (x % s)
         /\ (x % s) + u <= s
<1> DEFINE i == x \div s
           r == x % s
<1>1. x \in Int /\ u \in Int /\ s \in Int /\ n \in Int
  OBVIOUS
<1>2. i \in Int /\ r \in 0 .. s - 1 /\ x = s * i + r
  BY <1>1
<1>3. i >= 0
  BY <1>1
<1> HIDE DEF i, r
<1>4. x % u = 0
  <2>1. u % u = 0
    OBVIOUS
  <2>3. (n * u) % u = 0
    BY <1>1, <2>1, Scaled, Zenon
  <2> QED
    BY <2>3, Zenon
<1>5. (i * s) % u = 0 /\ i * s \in Int
  <2>1. (i * s) % u = 0
    BY <1>1, <1>2, Scaled, Zenon
  <2> QED
    BY <1>1, <1>2, <2>1
<1>6. (x - i * s) % u = 0
  BY <1>1, <1>4, <1>5, Aligned
<1>7. x - i * s = r
  BY <1>1, <1>2, <1>5
<1>8. (s - r) % u = 0
  <2>1. r % u = 0 /\ r \in Int
    BY <1>2, <1>6, <1>7
  <2> QED
    BY <1>1, <2>1, Aligned
<1>9. s - r >= u
  <2> DEFINE d == s - r
             k == d \div u
  <2>1. d \in Int /\ d > 0 /\ d % u = 0
    BY <1>2, <1>8
  <2> HIDE DEF d
  <2>2. k \in Int /\ d = u * k
    BY <2>1, Quotient
  <2> HIDE DEF k
  <2>3. k >= 1
    <3> SUFFICES ASSUME k <= 0 PROVE FALSE
      BY <2>2
    <3>1. u * k <= 0
      BY <2>2
    <3> QED
      BY <2>1, <2>2, <3>1
  <2>4. u * k >= u
    BY <2>2, <2>3
  <2> QED
    BY <2>2, <2>4 DEF d
<1>10. r + u <= s /\ i \in Nat
  BY <1>1, <1>2, <1>3, <1>9
<1>11. x \div s = i /\ x % s = r
  BY Zenon DEF i, r
<1> QED
  BY <1>2, <1>10, <1>11, Zenon

\* The loops that put the image into the test region.
Paints == Current.op \in {"program", "rewrite"} /\ Current.seed = "image"

AllImage(n) == \A p \in Pages : Touches(TestOffset, n, p) => mem[p] = ImagePage(p)

\* What has been programmed of the image is there, the buffer still holds the sector
\* it goes on with, and a read-back finds all of it.
ImageInv ==
  /\ stage = "run" /\ Current.op = "verify" /\ cmd \in {"c5", "f"} => AllImage(TestBytes)
  /\ Paints =>
       /\ AllImage(Unit * Current.unit)
       /\ Rel # 0 => buf = [seed |-> "image", index |-> (Unit * Current.unit) \div Sector]

\* What a painting loop is, in numbers.
LEMMA Painting ==
  ASSUME PlaceInv, Paints
  PROVE  /\ Current.fill = Sector /\ Sector % Current.unit = 0 /\ Op # "verify"
         /\ Current.op = "rewrite" => Current.unit = Sector
         /\ Rel = (Unit * Current.unit) % Sector
<1>1. Good(Current) /\ Current.op \in {"program", "rewrite"} /\ Current.seed = "image"
  BY Turn DEF Paints
<1>2. Current.fill = Sector /\ Sector % Current.unit = 0
  BY <1>1, Sizes DEF Good
<1>3. Op # "verify"
  BY <1>1, Turn
<1>4. Current.op = "rewrite" => Current.unit = Sector
  BY <1>1 DEF Good
<1> QED
  BY <1>2, <1>3, <1>4 DEF Rel

\* The pattern in the buffer is that of the sector the unit is in.
LEMMA Pattern ==
  ASSUME PlaceInv, ImageInv, Paints
  PROVE  Filled = [seed |-> "image", index |-> (Unit * Current.unit) \div Sector]
BY Painting DEF Filled, ImageInv, Paints

\* What is programmed in a page of the unit is what the image puts there.
LEMMA ImageData ==
  ASSUME PlaceInv, ImageInv, Paints, NEW p \in Pages, Touches(Offset, Current.unit, p)
  PROVE  Data[p - Offset \div Page] = ImagePage(p)
<1> DEFINE u == Current.unit
           x == Unit * u
           i == x \div Sector
           r == x % Sector
           T == TestOffset \div Page
           O == Offset \div Page
           U == u \div Page
           S == Sector \div Page
           R == r \div Page
           j == p - O
<1>1. /\ Page \in Nat \ {0} /\ Sector \in Nat \ {0} /\ TestOffset \in Nat
      /\ TestOffset % Page = 0 /\ Sector % Page = 0 /\ p \in Nat
  BY Sizes DEF Pages
<1>2. /\ u \in Nat \ {0} /\ Unit \in Nat /\ x \in Nat /\ Offset = TestOffset + x
      /\ Sector % u = 0 /\ Op \in {"erase", "program"}
  BY Turn, Painting
<1>3. /\ j \in 0 .. U - 1 /\ Offset = Page * O /\ O \in Nat /\ u = Page * U
  BY <1>2, PageIndex
<1>4. i \in Nat /\ r \in 0 .. Sector - 1 /\ x = Sector * i + r /\ r + u <= Sector
  <2>1. x = Unit * u
    OBVIOUS
  <2> HIDE DEF x, u, i, r
  <2>2. /\ x \div Sector \in Nat /\ x % Sector \in 0 .. Sector - 1
        /\ x = Sector * (x \div Sector) + (x % Sector)
        /\ (x % Sector) + u <= Sector
    BY <1>1, <1>2, <2>1, OneSector, Zenon
  <2>3. i = x \div Sector /\ r = x % Sector
    BY Zenon DEF i, r
  <2> QED
    BY <2>2, <2>3, Zenon
<1>5. T \in Int /\ TestOffset = Page * T /\ S \in Int /\ Sector = Page * S
  <2>1. TestOffset \in Int /\ Sector \in Int
    BY <1>1
  <2> QED
    BY <1>1, <2>1, Quotient
<1>6. U \in Int
  <2>1. u \in Int
    BY <1>2
  <2> QED
    BY <1>1, <2>1
<1> DEFINE y == O - T - S * i
<1>7. Data[j] = <<"image", i, R + j>>
  <2>1. Filled = [seed |-> "image", index |-> i] /\ Rel = r
    BY Pattern, Painting
  <2>2. Data[j] = <<Filled.seed, Filled.index, Rel \div Page + j>>
    BY <1>3 DEF Data
  <2> QED
    BY <2>1, <2>2
<1> HIDE DEF u, x, i, r, T, O, U, S
<1>8. y \in Int /\ r = Page * y
  <2>1. y \in Int
    BY <1>3, <1>4, <1>5
  <2>2. Page * y = Page * O - Page * T - Page * (S * i)
    BY <1>1, <1>3, <1>4, <1>5
  <2>3. Page * (S * i) = Sector * i
    BY <1>1, <1>4, <1>5
  <2>4. Page * O = Page * T + Sector * i + r
    BY <1>2, <1>3, <1>4, <1>5
  <2>5. Page * O \in Int /\ Page * T \in Int /\ Sector * i \in Int /\ r \in Int
    BY <1>1, <1>3, <1>4, <1>5
  <2> HIDE DEF y
  <2> QED
    BY <2>1, <2>2, <2>3, <2>4, <2>5
<1> HIDE DEF y
<1>9. R = y
  BY <1>1, <1>8, Multiple
<1>10. y >= 0
  <2> SUFFICES ASSUME y <= 0 - 1 PROVE FALSE
    BY <1>8
  <2>1. Page * y <= Page * (0 - 1)
    BY <1>1, <1>8
  <2>2. Page * (0 - 1) = 0 - Page
    BY <1>1
  <2> QED
    BY <1>1, <1>4, <1>8, <2>1, <2>2
<1>11. y + U <= S
  <2> SUFFICES ASSUME y + U >= S + 1 PROVE FALSE
    BY <1>5, <1>6, <1>8
  <2>1. Page * (y + U) >= Page * (S + 1)
    BY <1>1, <1>5, <1>6, <1>8
  <2>2. Page * (y + U) = r + u
    BY <1>1, <1>3, <1>6, <1>8
  <2>3. Page * (S + 1) = Sector + Page
    BY <1>1, <1>5
  <2> QED
    BY <1>1, <1>2, <1>4, <2>1, <2>2, <2>3
<1>12. j \in Int /\ j >= 0 /\ j < U /\ p = O + j
  BY <1>1, <1>3, <1>6
<1> HIDE DEF j
<1>13. y + j \in 0 .. S - 1 /\ S \in Nat \ {0}
  BY <1>5, <1>6, <1>8, <1>10, <1>11, <1>12
<1>14. p - T = S * i + (y + j)
  <2>1. S * i \in Int
    BY <1>4, <1>5
  <2>2. y = O - T - S * i
    BY DEF y
  <2> QED
    BY <1>3, <1>5, <1>8, <1>12, <2>1, <2>2
<1>15. (p - T) \div S = i /\ (p - T) % S = y + j
  <2>1. i \in Int
    BY <1>4
  <2>2. (S * i + (y + j)) \div S = i /\ (S * i + (y + j)) % S = y + j
    BY <1>13, <2>1, Divided, Zenon
  <2> QED
    BY <1>14, <2>2, Zenon
<1>16. ImagePage(p) = <<"image", i, y + j>>
  BY <1>15 DEF ImagePage, PagesPerSector, T, S
<1>17. Data[j] = <<"image", i, y + j>>
  BY <1>7, <1>9
<1> QED
  BY <1>16, <1>17 DEF j, O

\* A unit that is not the first of its sector goes on with the one before.
LEMMA SameSector ==
  ASSUME NEW s \in Nat \ {0}, NEW u \in Nat \ {0}, s % u = 0, NEW n \in Nat,
         NEW x \in Nat, x = n * u, (x + u) % s # 0
  PROVE  (x + u) \div s = x \div s
<1> DEFINE i == x \div s
           r == x % s
<1> HIDE DEF i, r
<1>1. i \in Nat /\ r \in 0 .. s - 1 /\ x = s * i + r /\ r + u <= s
  <2>1. /\ x \div s \in Nat /\ x % s \in 0 .. s - 1 /\ x = s * (x \div s) + (x % s)
        /\ (x % s) + u <= s
    BY OneSector, ZenonT(40)
  <2>2. i = x \div s /\ r = x % s
    BY Zenon DEF i, r
  <2> QED
    BY <2>1, <2>2, Zenon
<1>2. x + u = s * i + (r + u) /\ i \in Int /\ s * i \in Int
  BY <1>1
<1>3. r + u # s
  <2> SUFFICES ASSUME r + u = s PROVE FALSE
    OBVIOUS
  <2>1. s * i + (r + u) = s * (i + 1) /\ i + 1 \in Int
    BY <1>1
  <2>2. (s * (i + 1)) % s = 0
    BY <2>1, Multiple, Zenon
  <2>3. x + u = s * (i + 1)
    BY <1>2, <2>1, Zenon
  <2>4. (x + u) % s = 0
    BY <2>2, <2>3, Zenon
  <2> QED
    BY <2>4
<1>4. r + u \in 0 .. s - 1
  BY <1>1, <1>3
<1>5. (s * i + (r + u)) \div s = i
  BY <1>2, <1>4, Divided, Zenon
<1>6. (x + u) \div s = i
  BY <1>2, <1>5, Zenon
<1> QED
  BY <1>6, Zenon DEF i

\* At its first turn a loop has painted nothing.
LEMMA ImageFirst ==
  ASSUME PlaceInv', turn' = 0,
         (stage = "run" /\ Current.op = "verify" /\ cmd \in {"c5", "f"} => AllImage(TestBytes))'
  PROVE  ImageInv'
<1> DEFINE l == Current'
<1>1. l.unit \in Nat /\ l.fill \in Nat \ {0}
  <2>1. Good(Current)'
    BY Turn, PTL
  <2> QED
    BY <2>1 DEF Good, LoopType
<1>2. Unit' = 0
  BY DEF Unit
<1> HIDE DEF l
<1>3. Unit' * l.unit = 0 /\ 0 % l.fill = 0
  BY <1>1, <1>2
<1>4. ASSUME NEW p \in Pages PROVE ~ Touches(TestOffset, 0, p)
  <2>1. p * Page \in Int /\ TestOffset \in Nat
    BY Sizes DEF Pages
  <2> QED
    BY <2>1 DEF Touches
<1>5. AllImage(Unit * Current.unit)'
  <2>1. AllImage(0)'
    BY <1>4 DEF AllImage
  <2> QED
    BY <1>3, <2>1 DEF l, AllImage
<1>6. Rel' = 0
  BY <1>3 DEF l, Rel
<1> QED
  BY <1>5, <1>6 DEF ImageInv

LEMMA ImageStart ==
  ASSUME PlaceInv', loop' = 1, turn' = 0
  PROVE  ImageInv'
<1>1. cmd' \in Commands
  BY DEF PlaceInv
<1>2. ASSUME cmd' \in {"c5", "f"} PROVE Loops[cmd'][1].op # "verify"
  <2>1. 1 \in 1 .. Len(Loops[cmd'])
    BY <1>1, Placed
  <2>2. Reads(Loops[cmd'])
    BY <1>2, CommandItems
  <2> QED
    BY <2>1, <2>2 DEF Reads
<1>3. ~ (cmd \in {"c5", "f"} /\ Current.op = "verify")'
  BY <1>2 DEF Current
<1> QED
  BY <1>3, ImageFirst

\* The next loop begins: a read-back finds what the loop before has left.
LEMMA ImageNext ==
  ASSUME PlaceInv, PlaceInv', cmd' = cmd, loop < Len(Loops[cmd]), loop' = loop + 1, turn' = 0,
         cmd \in {"c5", "f"} /\ Puts(Current) => AllImage(TestBytes)'
  PROVE  ImageInv'
<1>1. loop \in 1 .. Len(Loops[cmd]) /\ Len(Loops[cmd]) \in Nat
  BY Placed DEF PlaceInv
<1>2. loop + 1 \in 1 .. Len(Loops[cmd]) /\ (loop + 1) - 1 = loop
  BY <1>1
<1>3. ASSUME cmd \in {"c5", "f"}, Loops[cmd][loop + 1].op = "verify" PROVE Puts(Current)
  <2>1. Reads(Loops[cmd])
    BY <1>3, CommandItems
  <2>2. Puts(Loops[cmd][(loop + 1) - 1])
    BY <1>2, <1>3, <2>1 DEF Reads
  <2> QED
    BY <1>2, <2>2 DEF Current
<1>4. (cmd \in {"c5", "f"} /\ Current.op = "verify" => AllImage(TestBytes))'
  BY <1>3 DEF Current
<1> QED
  BY <1>4, ImageFirst

\* A turn of a painting loop has put the image's pages into its unit.
LEMMA Painted ==
  ASSUME PlaceInv, BlankInv, ImageInv, Paints, Op = "program",
         mem' = Executed(mem, Op, Offset, Current.unit, Data),
         NEW p \in Pages, Touches(TestOffset, (Unit + 1) * Current.unit, p)
  PROVE  mem'[p] = ImagePage(p)
<1> DEFINE u == Current.unit
           x == Unit * u
           b == p * Page
<1>1. /\ u \in Nat /\ Unit \in Nat /\ x \in Nat /\ Offset = TestOffset + x
      /\ TestOffset \in Nat /\ b \in Int
  BY Turn, Sizes DEF Pages
<1>2. (Unit + 1) * u = x + u
  BY <1>1, OneMore
<1>3. CASE Touches(Offset, u, p)
  <2>1. mem[p] = Blank
    BY <1>3, ProgramsBlank
  <2>2. mem'[p] = OverWritten(mem[p], Data[p - Offset \div Page])
    BY <1>3 DEF Executed
  <2>3. mem'[p] = Data[p - Offset \div Page]
    BY <2>1, <2>2 DEF OverWritten
  <2> QED
    BY <1>3, <2>3, ImageData
<1>4. CASE ~ Touches(Offset, u, p)
  <2>1. mem'[p] = mem[p]
    BY <1>4, Untouched
  <2>2. TestOffset <= b /\ b < TestOffset + (x + u)
    BY <1>2 DEF Touches
  <2>3. ~ (Offset <= b /\ b < Offset + u)
    BY <1>4 DEF Touches
  <2> HIDE DEF x, b, u
  <2>4. TestOffset <= b /\ b < TestOffset + x
    BY <1>1, <2>2, <2>3
  <2>5. Touches(TestOffset, x, p)
    BY <2>4 DEF Touches, b
  <2> QED
    BY <2>1, <2>5 DEF ImageInv, AllImage, x, u
<1> QED
  BY <1>3, <1>4

\* The turns of a loop that writes the image.
LEMMA ImageTurn ==
  ASSUME PlaceInv, PlaceInv', BlankInv, ImageInv, stage = "run", Op \in {"erase", "program"},
         NextTurn, mem' = Executed(mem, Op, Offset, Current.unit, Data), buf' = Filled
  PROVE  ImageInv'
<1> DEFINE l == Current
           u == Current.unit
           Paint(n) == \A p \in Pages : Touches(TestOffset, n, p) => mem'[p] = ImagePage(p)
           Holds(n) == buf' = [seed |-> "image", index |-> n \div Sector]
<1>1. /\ Good(l) /\ u \in Nat \ {0} /\ turn \in Nat /\ l.turns \in Nat /\ Unit \in Nat
      /\ Op # "verify" /\ l.op \in {"erase", "program", "rewrite"}
      /\ Offset = TestOffset + Unit * u /\ TestOffset \in Nat /\ Unit * u \in Nat
  <2>1. Good(l) /\ u \in Nat \ {0} /\ turn \in Nat /\ l.turns \in Nat /\ Unit \in Nat
        /\ Offset = TestOffset + Unit * u /\ l.op # "verify" /\ Unit * u \in Nat
    BY Turn
  <2> QED
    BY <2>1, Sizes DEF Good, LoopType
<1>2. CASE turn + 1 < l.turns /\ cmd' = cmd /\ loop' = loop /\ turn' = turn + 1
  <2>1. Current' = l
    BY <1>2 DEF Current
  <2>2. ASSUME Paints PROVE Paint(Unit' * u) /\ (Rel' # 0 => Holds(Unit' * u))
    <3>1. l.fill = Sector /\ Sector % u = 0 /\ (l.op = "rewrite" => u = Sector) /\ Sector \in Nat \ {0}
      BY <2>2, Painting, Sizes
    <3>2. Rel' = (Unit' * u) % Sector
      BY <2>1, <3>1 DEF Rel
    <3>3. CASE Op = "program"
      <4>1. Unit' = Unit + 1
        <5>1. CASE l.op = "program"
          BY <1>2, <2>1, <5>1 DEF Unit
        <5>2. CASE l.op = "rewrite"
          <6>1. turn % 2 # 0
            BY <3>3, <5>2 DEF Op
          <6>2. (turn + 1) \div 2 = turn \div 2 + 1
            BY <1>1, <6>1
          <6> QED
            BY <1>2, <2>1, <5>2, <6>2 DEF Unit
        <5> QED
          BY <2>2, <5>1, <5>2 DEF Paints
      <4>2. Paint(Unit' * u)
        BY <2>2, <3>3, <4>1, Painted
      <4>3. ASSUME Rel' # 0 PROVE Holds(Unit' * u)
        <5>1. ((Unit + 1) * u) % Sector # 0
          BY <3>2, <4>1, <4>3
        <5>2. ((Unit + 1) * u) \div Sector = (Unit * u) \div Sector
          <6> DEFINE x == Unit * u
          <6>1. u \in Nat \ {0} /\ Unit \in Nat /\ Sector \in Nat \ {0} /\ Sector % u = 0 /\ x \in Nat
            BY <1>1, <3>1
          <6>2. (Unit + 1) * u = x + u
            BY <6>1, OneMore
          <6>3. x = Unit * u
            OBVIOUS
          <6> HIDE DEF u, x
          <6>4. (x + u) \div Sector = x \div Sector
            <7>1. (x + u) % Sector # 0
              BY <5>1, <6>2
            <7> QED
              BY <6>1, <6>3, <7>1, SameSector, ZenonT(40)
          <6> QED
            BY <6>2, <6>3, <6>4, Zenon
        <5>3. buf' = [seed |-> "image", index |-> (Unit * u) \div Sector]
          BY <2>2, Pattern
        <5> QED
          BY <4>1, <5>2, <5>3
      <4> QED
        BY <4>2, <4>3
    <3>4. CASE Op = "erase"
      <4>1. l.op = "rewrite" /\ turn % 2 = 0
        BY <2>2, <3>4 DEF Paints, Op
      <4>2. Unit' = Unit
        <5>1. (turn + 1) \div 2 = turn \div 2
          BY <1>1, <4>1
        <5> QED
          BY <1>2, <2>1, <4>1, <5>1 DEF Unit
      <4>3. ASSUME NEW p \in Pages, Touches(TestOffset, Unit * u, p) PROVE mem'[p] = ImagePage(p)
        <5> DEFINE b == p * Page
                   x == Unit * u
        <5>1. b \in Int /\ x \in Nat /\ Offset = TestOffset + x
          BY <1>1, Sizes DEF Pages
        <5>2. TestOffset <= b /\ b < TestOffset + x
          BY <4>3 DEF Touches
        <5> HIDE DEF b, x
        <5>3. ~ (Offset <= b)
          BY <1>1, <5>1, <5>2
        <5>4. ~ Touches(Offset, u, p)
          BY <5>3 DEF Touches, b
        <5>5. mem'[p] = mem[p]
          BY <5>4, Untouched
        <5> QED
          BY <2>2, <4>3, <5>5 DEF ImageInv, AllImage
      <4>4. Rel' = 0
        <5>1. Sector % Sector = 0 /\ Unit \in Int /\ Sector \in Int
          BY <1>1, <3>1
        <5>2. (Unit * Sector) % Sector = 0
          BY <3>1, <5>1, Scaled, Zenon
        <5> QED
          BY <3>1, <3>2, <4>1, <4>2, <5>2, Zenon
      <4> QED
        BY <4>2, <4>3, <4>4
    <3> QED
      BY <3>3, <3>4
  <2>3. Paints' = Paints
    BY <2>1 DEF Paints
  <2>4. ~ (Current.op = "verify")'
    BY <1>1, <2>1
  <2>5. (Unit * Current.unit)' = Unit' * u
    BY <2>1
  <2>6. Paints' => AllImage(Unit * Current.unit)'
    BY <2>2, <2>3, <2>5 DEF AllImage
  <2>7. Paints' /\ Rel' # 0 => Holds((Unit * Current.unit)')
    BY <2>2, <2>3, <2>5
  <2> QED
    BY <2>4, <2>6, <2>7 DEF ImageInv
<1>3. CASE /\ turn + 1 = l.turns /\ cmd' = cmd /\ loop < Len(Loops[cmd]) /\ loop' = loop + 1
           /\ turn' = 0
  <2>1. ASSUME Puts(l) PROVE AllImage(TestBytes)'
    <3>1. Paints /\ Span(l) = TestBytes
      BY <1>1, <2>1 DEF Puts, Paints
    <3>2. Op = "program" /\ Unit + 1 = Units(l)
      <4>1. CASE l.op = "program"
        BY <1>1, <1>3, <4>1 DEF Op, Unit, Units
      <4>2. CASE l.op = "rewrite"
        <5>1. l.turns = 2 * Units(l) /\ Units(l) \in Nat
          BY <1>1, <4>2 DEF Good
        <5> DEFINE m == Units(l)
        <5>2. turn + 1 = 2 * m /\ m \in Nat /\ turn \in Nat
          BY <1>1, <1>3, <5>1
        <5> HIDE DEF m
        <5>3. turn % 2 # 0 /\ turn \div 2 + 1 = m
          BY <5>2
        <5> QED
          BY <4>2, <5>3 DEF Op, Unit, m
      <4> QED
        BY <3>1, <4>1, <4>2 DEF Paints
    <3>3. (Unit + 1) * u = TestBytes
      BY <3>1, <3>2 DEF Span
    <3> QED
      BY <3>1, <3>2, <3>3, Painted DEF AllImage
  <2> QED
    BY <1>3, <2>1, ImageNext
<1>4. CASE loop' = 1 /\ turn' = 0
  BY <1>4, ImageStart
<1> QED
  BY <1>2, <1>3, <1>4, Onward

LEMMA ImageStep ==
  ASSUME PlaceInv, BlankInv, ImageInv, [Next]_vars
  PROVE  ImageInv'
<1>0. PlaceInv'
  BY PlaceStep
<1>1. CASE Flash
  <2>1. CASE Fail
    BY <1>0, <2>1, ImageStart DEF Fail, GoTo
  <2>2. CASE ~ Fail
    BY <1>0, <1>1, <2>2, ImageTurn DEF Flash
  <2> QED
    BY <2>1, <2>2
<1>2. CASE Verify
  <2>1. Current.op = "verify" /\ NextTurn /\ mem' = mem /\ stage = "run"
    BY <1>2, Turn DEF Verify
  <2>2. Current.turns = 1
    BY <2>1, Turn DEF Good, ReadBack, Loop
  <2>3. turn \in Nat /\ ~ (turn + 1 < Current.turns)
    BY <2>2, Turn
  <2>4. \/ cmd' = cmd /\ loop < Len(Loops[cmd]) /\ loop' = loop + 1 /\ turn' = 0
        \/ loop' = 1 /\ turn' = 0
    BY <2>1, <2>3, Onward
  <2>5. cmd \in {"c5", "f"} => AllImage(TestBytes)'
    BY <2>1 DEF ImageInv, AllImage
  <2> QED
    BY <1>0, <2>4, <2>5, ImageNext, ImageStart
<1>3. CASE (\E c \in Commands : TypeKey(c)) \/ PowerLoss
  BY <1>0, <1>3, ImageStart DEF TypeKey, PowerLoss, GoTo
<1>4. CASE Confirm
  <2>1. loop' = 1 /\ turn' = 0
    BY <1>4 DEF Confirm, PlaceInv
  <2> QED
    BY <1>0, <2>1, ImageStart
<1>5. CASE UNCHANGED vars
  <2>1. UNCHANGED <<mem, buf, stage, cmd, loop, turn>>
    BY <1>5 DEF vars, at
  <2>2. UNCHANGED <<Current, Unit, Rel>>
    BY <2>1 DEF Current, Unit, Rel
  <2> QED
    BY <2>1, <2>2 DEF ImageInv, AllImage, Paints
<1> QED
  BY <1>1, <1>2, <1>3, <1>4, <1>5 DEF Next

-----------------------------------------------------------------------------
(* What the read-backs say.                                                *)

ReadsOf(c, n) == {k \in 1 .. n : Loops[c][k].op = "verify"}

\* So many read-backs as there have been, and all of a strategy's found the image; only
\* a fault makes a command fail.
ReadInv ==
  /\ cmd \in {"c5", "f"} => \A k \in DOMAIN verified : verified[k] = TRUE
  /\ stage = "confirm" => verified = <<>>
  /\ stage = "run" => Len(verified) = Cardinality(ReadsOf(cmd, loop - 1))
  /\ outcome = "ok" => Len(verified) = Cardinality(ReadsOf(cmd, Len(Loops[cmd])))
  /\ outcome = "error" => faults > 0

LEMMA FiniteReads ==
  ASSUME NEW c, NEW n \in Int
  PROVE  IsFiniteSet(ReadsOf(c, n)) /\ Cardinality(ReadsOf(c, n)) \in Nat
<1>1. IsFiniteSet(1 .. n) /\ ReadsOf(c, n) \in SUBSET (1 .. n)
  BY FS_Interval DEF ReadsOf
<1>2. IsFiniteSet(ReadsOf(c, n))
  BY <1>1, FS_Subset, Zenon
<1> QED
  BY <1>2, FS_CardinalityType

\* A loop more is a read-back more, if it is one.
LEMMA OneRead ==
  ASSUME NEW c, NEW n \in Nat \ {0}
  PROVE  Cardinality(ReadsOf(c, n)) = Cardinality(ReadsOf(c, n - 1))
                                        + (IF Loops[c][n].op = "verify" THEN 1 ELSE 0)
<1>1. 1 .. n = (1 .. n - 1) \cup {n} /\ n - 1 \in Int /\ ~ (n \in 1 .. n - 1)
  OBVIOUS
<1>2. IsFiniteSet(ReadsOf(c, n - 1)) /\ Cardinality(ReadsOf(c, n - 1)) \in Nat
  BY <1>1, FiniteReads
<1>3. CASE Loops[c][n].op = "verify"
  <2>1. ReadsOf(c, n) = ReadsOf(c, n - 1) \cup {n} /\ ~ (n \in ReadsOf(c, n - 1))
    BY <1>1, <1>3 DEF ReadsOf
  <2>2. Cardinality(ReadsOf(c, n - 1) \cup {n}) = Cardinality(ReadsOf(c, n - 1)) + 1
    BY <1>2, <2>1, FS_AddElement
  <2> QED
    BY <1>3, <2>1, <2>2
<1>4. CASE Loops[c][n].op # "verify"
  <2>1. ReadsOf(c, n) = ReadsOf(c, n - 1)
    BY <1>1, <1>4 DEF ReadsOf
  <2> QED
    BY <1>2, <1>4, <2>1
<1> QED
  BY <1>3, <1>4

LEMMA NoRead == \A c : Cardinality(ReadsOf(c, 1 - 1)) = 0
<1> TAKE c
<1>1. ReadsOf(c, 1 - 1) = {}
  BY DEF ReadsOf
<1> QED
  BY <1>1, FS_EmptySet

\* The last turn of a loop, or a turn that is not, with what it read back.
LEMMA ReadOn ==
  ASSUME PlaceInv, ReadInv, stage = "run", NextTurn, Finish, UNCHANGED faults,
         cmd \in {"c5", "f"} => \A k \in DOMAIN verified' : verified'[k] = TRUE,
         Len(verified) \in Nat,
         Current.op = "verify" => Len(verified') = Len(verified) + 1 /\ turn + 1 = Current.turns,
         Current.op # "verify" => Len(verified') = Len(verified)
  PROVE  ReadInv'
<1>1. /\ loop \in 1 .. Len(Loops[cmd]) /\ Len(Loops[cmd]) \in Nat /\ loop \in Nat \ {0}
      /\ cmd' = cmd /\ turn \in Nat /\ Current.turns \in Nat
  <2>1. loop \in 1 .. Len(Loops[cmd]) /\ Len(Loops[cmd]) \in Nat
    BY Placed DEF PlaceInv
  <2>2. cmd' = cmd /\ turn \in Nat /\ Current.turns \in Nat
    BY Turn, Onward
  <2> QED
    BY <2>1, <2>2
<1> DEFINE R(n) == Cardinality(ReadsOf(cmd, n))
<1>2. R(loop - 1) \in Nat /\ Len(verified) = R(loop - 1)
  <2>1. loop - 1 \in Int
    BY <1>1
  <2> QED
    BY <2>1, FiniteReads DEF ReadInv
<1>3. R(loop) = R(loop - 1) + (IF Current.op = "verify" THEN 1 ELSE 0)
  BY <1>1, OneRead DEF Current
<1>4. turn + 1 = Current.turns => Len(verified') = R(loop)
  BY <1>2, <1>3
<1>5. turn + 1 < Current.turns => Len(verified') = R(loop - 1)
  BY <1>1, <1>2
<1>6. outcome = "none" /\ stage' \in {"run", "menu"}
  BY Onward DEF PlaceInv
<1>7. outcome' = IF stage' = "menu" THEN "ok" ELSE "none"
  BY <1>6 DEF Finish
<1>8. stage' = "run" => Len(verified') = R(loop' - 1)
  <2> HAVE stage' = "run"
  <2>1. CASE turn + 1 < Current.turns /\ loop' = loop
    BY <1>5, <2>1
  <2>2. CASE turn + 1 = Current.turns /\ loop' = loop + 1
    <3>1. loop' - 1 = loop
      BY <1>1, <2>2
    <3> QED
      BY <1>4, <2>2, <3>1
  <2> QED
    BY <2>1, <2>2, Onward
<1>9. stage' = "menu" => Len(verified') = R(Len(Loops[cmd]))
  BY <1>4, Onward
<1> QED
  BY <1>1, <1>6, <1>7, <1>8, <1>9 DEF ReadInv

LEMMA ReadStep ==
  ASSUME PlaceInv, BlankInv, ImageInv, DataTyped, ReadInv, [Next]_vars
  PROVE  ReadInv'
<1>0. verified \in Seq(BOOLEAN) /\ Len(verified) \in Nat /\ faults \in Nat
  BY FlashBenchAssumption DEF DataTyped
<1>1. CASE Flash
  <2>1. CASE Fail
    <3>1. Permitted(Op, Offset, Current.unit)
      BY <1>1, Allowed DEF Flash
    <3>2. CASE faults' = faults + 1
      BY <1>0, <2>1, <3>2 DEF Fail, GoTo, ReadInv
    <3>3. CASE ~ (faults' = faults + 1)
      <4>1. NextTurn /\ Finish /\ UNCHANGED <<verified, faults>> /\ stage = "run"
        BY <1>1, <3>1, <3>3 DEF Flash, bounds
      <4>2. Current.op # "verify"
        BY <1>1, Turn DEF Flash
      <4>3. cmd \in {"c5", "f"} => \A k \in DOMAIN verified' : verified'[k] = TRUE
        BY <4>1 DEF ReadInv
      <4> QED
        BY <1>0, <4>1, <4>2, <4>3, ReadOn
    <3> QED
      BY <3>2, <3>3
  <2>2. CASE ~ Fail
    <3>1. NextTurn /\ Finish /\ UNCHANGED <<verified, faults>> /\ stage = "run"
      BY <1>1, <2>2 DEF Flash, bounds
    <3>2. Current.op # "verify"
      BY <1>1, Turn DEF Flash
    <3>3. cmd \in {"c5", "f"} => \A k \in DOMAIN verified' : verified'[k] = TRUE
      BY <3>1 DEF ReadInv
    <3> QED
      BY <1>0, <3>1, <3>2, <3>3, ReadOn
  <2> QED
    BY <2>1, <2>2
<1>2. CASE Verify
  <2> DEFINE b == \A p \in PagesIn(TestOffset, TestBytes) : mem[p] = ImagePage(p)
  <2>1. stage = "run" /\ NextTurn /\ Finish /\ verified' = Append(verified, b) /\ UNCHANGED faults
    BY <1>2 DEF Verify, bounds
  <2>2. Current.op = "verify"
    BY <1>2, Turn DEF Verify
  <2>3. turn + 1 = Current.turns
    <3>1. Current.turns = 1
      BY <2>2, Turn DEF Good, ReadBack, Loop
    <3> QED
      BY <3>1, Turn
  <2>4. b \in BOOLEAN
    OBVIOUS
  <2>5. cmd \in {"c5", "f"} => b = TRUE
    <3>1. cmd \in {"c5", "f"} => b
      BY <2>1, <2>2 DEF ImageInv, AllImage, PagesIn
    <3> QED
      BY <2>4, <3>1
  <2> HIDE DEF b
  <2>6. /\ Len(verified') = Len(verified) + 1 /\ DOMAIN verified' = 1 .. Len(verified) + 1
        /\ \A k \in 1 .. Len(verified) + 1 :
             verified'[k] = IF k = Len(verified) + 1 THEN b ELSE verified[k]
    BY <1>0, <2>1, <2>4
  <2>7. DOMAIN verified = 1 .. Len(verified)
    BY <1>0
  <2>8. cmd \in {"c5", "f"} => \A k \in DOMAIN verified' : verified'[k] = TRUE
    <3> SUFFICES ASSUME cmd \in {"c5", "f"}, NEW k \in DOMAIN verified' PROVE verified'[k] = TRUE
      OBVIOUS
    <3>1. CASE k = Len(verified) + 1
      BY <2>5, <2>6, <3>1
    <3>2. CASE k # Len(verified) + 1
      <4>1. k \in DOMAIN verified
        BY <1>0, <2>6, <2>7, <3>2
      <4> QED
        BY <2>6, <3>2, <4>1 DEF ReadInv
    <3> QED
      BY <3>1, <3>2
  <2> QED
    BY <1>0, <2>1, <2>2, <2>3, <2>6, <2>8, ReadOn
<1>3. CASE \E c \in Commands : TypeKey(c)
  <2>1. PICK c \in Commands : TypeKey(c)
    BY <1>3
  <2>2. verified' = <<>> /\ outcome' = "none" /\ loop' = 1
    BY <2>1 DEF TypeKey, GoTo
  <2>3. Cardinality(ReadsOf(cmd', loop' - 1)) = 0
    BY <2>2, NoRead
  <2>4. Len(verified') = 0 /\ DOMAIN verified' = {}
    BY <2>2
  <2> QED
    BY <2>2, <2>3, <2>4 DEF ReadInv
<1>4. CASE Confirm
  <2>1. /\ verified = <<>> /\ outcome = "none" /\ loop = 1
        /\ UNCHANGED <<cmd, loop, verified, outcome, faults>>
        /\ stage' \in {"run", "menu"}
    BY <1>4 DEF Confirm, bounds, ReadInv, PlaceInv
  <2>2. Cardinality(ReadsOf(cmd', loop' - 1)) = 0
    BY <2>1, NoRead
  <2>3. Len(verified') = 0
    BY <2>1
  <2> QED
    BY <2>1, <2>2, <2>3 DEF ReadInv
<1>5. CASE PowerLoss
  <2>1. verified' = <<>> /\ outcome' = "none" /\ stage' = "menu"
    BY <1>5 DEF PowerLoss, GoTo
  <2> QED
    BY <2>1 DEF ReadInv
<1>6. CASE UNCHANGED vars
  BY <1>6 DEF vars, at, bounds, ReadInv
<1> QED
  BY <1>1, <1>2, <1>3, <1>4, <1>5, <1>6 DEF Next

\* StrategiesVerify, of flash_bench.c: a command no operation of which failed ends well,
\* after every read-back of its items, and a strategy's read-back finds the image.
THEOREM Verifies == Spec => []StrategiesVerify
<1>1. Init => ImageInv /\ BlankInv /\ ReadInv
  <2> SUFFICES ASSUME Init PROVE ImageInv /\ BlankInv /\ ReadInv
    OBVIOUS
  <2>1. Current = ReadBack /\ stage = "menu" /\ cmd = "c6" /\ outcome = "none"
    BY DEF Init, Current, Loops
  <2> QED
    BY <2>1, GoodRead DEF BlankInv, ImageInv, Paints, ReadInv
<1>2. PlaceInv /\ ReadInv => StrategiesVerify
  <2> SUFFICES ASSUME PlaceInv, ReadInv PROVE StrategiesVerify
    OBVIOUS
  <2>1. Item(Loops[cmd]) /\ Loops[cmd] \in Seq(LoopType)
    BY CommandItems DEF PlaceInv, Item
  <2>2. DOMAIN Loops[cmd] = 1 .. Len(Loops[cmd])
    BY <2>1
  <2>3. \A k \in 1 .. Len(Loops[cmd]) : Loops[cmd][k].op = "verify" <=> Loops[cmd][k] = ReadBack
    BY <2>1, GoodRead DEF Item, Good
  <2>4. {k \in DOMAIN Loops[cmd] : Loops[cmd][k] = ReadBack} = ReadsOf(cmd, Len(Loops[cmd]))
    BY <2>2, <2>3 DEF ReadsOf
  <2> QED
    BY <2>4 DEF ReadInv, StrategiesVerify
<1>3. /\ PlaceInv /\ BlankInv /\ ImageInv /\ DataTyped /\ ReadInv /\ [Next]_vars
         => PlaceInv' /\ BlankInv' /\ ImageInv' /\ DataTyped' /\ ReadInv'
  BY PlaceStep, BlankStep, ImageStep, DataStep, ReadStep
<1> QED
  BY <1>1, <1>2, <1>3, PlaceInit, DataInit, PTL DEF Spec

=============================================================================
