---------------------------- MODULE ScreenProofs ----------------------------
(***************************************************************************)
(* Proofs about the way of the picture, for every value of the constants:  *)
(*                                                                         *)
(*   - the pixels keep their colours and places on their way through the   *)
(*     planes (Planar);                                                    *)
(*   - the units of the bitstream are found again as they were put in      *)
(*     (AnnexB);                                                           *)
(*   - the window crops nothing and sends the pointer to what is under it  *)
(*     (Picture);                                                          *)
(*   - and so the viewer's screen shows the host's (Screen).               *)
(***************************************************************************)
EXTENDS Screen, SequenceFacts

-----------------------------------------------------------------------------
(* The pixels and the planes                                               *)

\* The weighted sum of the channels, in 16 bits of fraction, is that of the standard to
\* 0.51 code values, and grey keeps its value.
LEMMA BrightnessIsClose ==
    ASSUME NEW rgb, rgb[1] \in 0..255, rgb[2] \in 0..255, rgb[3] \in 0..255,
           setting.matrix \in {"Bt709", "Bt601"}
    PROVE  LET y == Brightness(Coefficients(setting.matrix), rgb)
           IN  /\ y \in 0..255
               /\ Weighted(rgb) \in Int
               /\ 10000 * y - Weighted(rgb) <= 5100 /\ Weighted(rgb) - 10000 * y <= 5100
               /\ (rgb[1] = rgb[2] /\ rgb[2] = rgb[3]) => y = rgb[1]
<1>0. PICK r \in 0..255, g \in 0..255, b \in 0..255 : rgb[1] = r /\ rgb[2] = g /\ rgb[3] = b
  OBVIOUS
<1>1. CASE setting.matrix = "Bt709"
  <2> DEFINE y == (13933 * r + 46871 * g + 4732 * b + 32768) \div 65536
             w == 2126 * r + 7152 * g + 722 * b
  <2>1. Brightness(Coefficients(setting.matrix), rgb) = y /\ Weighted(rgb) = w
    BY <1>0, <1>1 DEF Brightness, Coefficients, Rounded, Weighted, Weights
  <2>2. y \in 0..255 /\ w \in Int /\ 10000 * y - w <= 5100 /\ w - 10000 * y <= 5100
    OBVIOUS
  <2>3. (r = g /\ g = b) => y = r
    OBVIOUS
  <2> QED BY <1>0, <2>1, <2>2, <2>3
<1>2. CASE setting.matrix = "Bt601"
  <2> DEFINE y == (19595 * r + 38470 * g + 7471 * b + 32768) \div 65536
             w == 2990 * r + 5870 * g + 1140 * b
  <2>1. Brightness(Coefficients(setting.matrix), rgb) = y /\ Weighted(rgb) = w
    BY <1>0, <1>2 DEF Brightness, Coefficients, Rounded, Weighted, Weights
  <2>2. y \in 0..255 /\ w \in Int /\ 10000 * y - w <= 5100 /\ w - 10000 * y <= 5100
    OBVIOUS
  <2>3. (r = g /\ g = b) => y = r
    OBVIOUS
  <2> QED BY <1>0, <2>1, <2>2, <2>3
<1> QED BY <1>1, <1>2

\* So is the luma, in either range.
LEMMA LumaIsClose ==
    ASSUME NEW rgb \in Colour, setting \in Settings
    PROVE  LumaIsTrue(Luma(Coefficients(setting.matrix), setting.range, rgb), rgb)
<1> DEFINE y == Brightness(Coefficients(setting.matrix), rgb)
           w == Weighted(rgb)
<1>1. setting.matrix \in {"Bt709", "Bt601"} /\ setting.range \in {"Full", "Limited"}
  BY PlanarAssumption
<1>2. rgb[1] \in 0..255 /\ rgb[2] \in 0..255 /\ rgb[3] \in 0..255
  BY DEF Colour
<1>3. y \in 0..255 /\ w \in Int /\ 10000 * y - w <= 5100 /\ w - 10000 * y <= 5100
  BY <1>1, <1>2, BrightnessIsClose
<1> HIDE DEF y, w
<1>4. CASE setting.range = "Full"
  <2>1. Luma(Coefficients(setting.matrix), setting.range, rgb) = Clamped(y, 0, 255)
    BY <1>4 DEF Luma, y
  <2>2. LumaIsTrue(y, rgb)
    BY <1>3, <1>4 DEF LumaIsTrue, CloseTo, w
  <2>3. Clamped(y, 0, 255) = y
    BY <1>3 DEF Clamped
  <2> QED BY <2>1, <2>2, <2>3
<1>5. CASE setting.range = "Limited"
  <2> DEFINE v == 16 + (y * 219 + 127) \div 255
  <2>1. Luma(Coefficients(setting.matrix), setting.range, rgb) = Clamped(v, 16, 235)
    BY <1>5 DEF Luma, y
  <2>2. v \in 16..235 /\ (v - 16) * 2550000 - 219 * w <= 2550000 /\ 219 * w - (v - 16) * 2550000 <= 2550000
    BY <1>3
  <2> HIDE DEF v
  <2>3. LumaIsTrue(v, rgb)
    BY <1>5, <2>2 DEF LumaIsTrue, CloseTo, w
  <2>4. Clamped(v, 16, 235) = v
    BY <2>2 DEF Clamped
  <2> QED BY <2>1, <2>3, <2>4
<1> QED BY <1>1, <1>4, <1>5

\* den is twice what the other two channels weigh, factor 65536 * 10000 / den.
Factors(den, factor) ==
    <<den, factor>> \in {<<18556, 35318>>, <<15748, 41615>>, <<17720, 36985>>, <<14020, 46743>>}

\* num, which is four times the exact difference, is near that of a and y.
RoundedFrom(num, den, a, y) ==
    /\ a \in 0..255 /\ y \in 0..255
    /\ num \in Int /\ num <= 510 * den /\ -(510 * den) <= num
    /\ num - 40000 * (a - y) <= 2 * den + 20400
    /\ 40000 * (a - y) - num <= 2 * den + 20400

\* The difference of a and y is right, in either range.
IsDifference(num, den, factor, a, y) ==
    /\ Difference("Full", factor, a, y) \in 0..255
    /\ CloseTo(Difference("Full", factor, a, y) - 128, num, 4 * den, 2)
    /\ Difference("Limited", factor, a, y) \in 16..240
    /\ CloseTo(Difference("Limited", factor, a, y) - 128, 56 * num, 255 * den, 3)
    /\ a = y => Difference("Full", factor, a, y) = 128 /\ Difference("Limited", factor, a, y) = 128

\* Difference, from a channel a and a brightness y that are those of the block up to rounding.
LEMMA DifferenceIsClose ==
    ASSUME NEW den, NEW factor, Factors(den, factor),
           NEW a, NEW y, NEW num, RoundedFrom(num, den, a, y)
    PROVE  IsDifference(num, den, factor, a, y)
<1> DEFINE d == Rounded(factor * (a - y))
           t == Truncated(d * 224 + 127, 255)
<1>0. /\ den \in {18556, 15748, 17720, 14020} /\ factor \in {35318, 41615, 36985, 46743}
      /\ (den = 18556 => factor = 35318) /\ (den = 15748 => factor = 41615)
      /\ (den = 17720 => factor = 36985) /\ (den = 14020 => factor = 46743)
  BY DEF Factors
<1> USE <1>0 DEF RoundedFrom
<1>1. d \in -255..255 /\ 4 * den * d - num <= 6 * den /\ num - 4 * den * d <= 6 * den
  <2> DEFINE x == (factor * (a - y) + 32768) \div 65536
  <2>0. x = Rounded(factor * (a - y))
    BY DEF Rounded
  <2> SUFFICES x \in -255..255 /\ 4 * den * x - num <= 6 * den /\ num - 4 * den * x <= 6 * den
    BY <2>0
  <2>1. CASE den = 18556
    <3> DEFINE e == (35318 * (a - y) + 32768) \div 65536
    <3>0. num - 40000 * (a - y) <= 57512 /\ 40000 * (a - y) - num <= 57512
      BY <2>1
    <3>1. e \in -255..255 /\ 74224 * e - num <= 111336 /\ num - 74224 * e <= 111336
      BY <3>0
    <3>2. x = e
      BY <2>1
    <3> HIDE DEF x, e
    <3> QED BY <2>1, <3>1, <3>2
  <2>2. CASE den = 15748
    <3> DEFINE e == (41615 * (a - y) + 32768) \div 65536
    <3>0. num - 40000 * (a - y) <= 51896 /\ 40000 * (a - y) - num <= 51896
      BY <2>2
    <3>1. e \in -255..255 /\ 62992 * e - num <= 94488 /\ num - 62992 * e <= 94488
      BY <3>0
    <3>2. x = e
      BY <2>2
    <3> HIDE DEF x, e
    <3> QED BY <2>2, <3>1, <3>2
  <2>3. CASE den = 17720
    <3> DEFINE e == (36985 * (a - y) + 32768) \div 65536
    <3>0. num - 40000 * (a - y) <= 55840 /\ 40000 * (a - y) - num <= 55840
      BY <2>3
    <3>1. e \in -255..255 /\ 70880 * e - num <= 106320 /\ num - 70880 * e <= 106320
      BY <3>0
    <3>2. x = e
      BY <2>3
    <3> HIDE DEF x, e
    <3> QED BY <2>3, <3>1, <3>2
  <2>4. CASE den = 14020
    <3> DEFINE e == (46743 * (a - y) + 32768) \div 65536
    <3>0. num - 40000 * (a - y) <= 48440 /\ 40000 * (a - y) - num <= 48440
      BY <2>4
    <3>1. e \in -255..255 /\ 56080 * e - num <= 84120 /\ num - 56080 * e <= 84120
      BY <3>0
    <3>2. x = e
      BY <2>4
    <3> HIDE DEF x, e
    <3> QED BY <2>4, <3>1, <3>2
  <2> QED BY <2>1, <2>2, <2>3, <2>4
<1>2. d \in -129..129
  <2> HIDE DEF d
  <2>1. den * (4 * d) <= den * 516 /\ den * (-516) <= den * (4 * d)
    BY <1>1
  <2> QED BY <1>1, <2>1
<1>3. a = y => d = 0
  BY DEF Rounded
<1>4. Difference("Full", factor, a, y) = Clamped(d + 128, 0, 255)
      /\ Difference("Limited", factor, a, y) = Clamped(128 + t, 16, 240)
  BY DEF Difference
<1> HIDE DEF d
<1>5. t \in Int /\ 255 * t - 224 * d <= 382 /\ 224 * d - 255 * t <= 128
  BY <1>1 DEF Truncated
<1>6. d = 0 => t = 0
  BY DEF Truncated
<1> HIDE DEF t
<1>7. Clamped(d + 128, 0, 255) \in 0..255 /\ CloseTo(Clamped(d + 128, 0, 255) - 128, num, 4 * den, 2)
  BY <1>1, <1>2 DEF Clamped, CloseTo
<1>8. Clamped(128 + t, 16, 240) \in 16..240 /\ CloseTo(Clamped(128 + t, 16, 240) - 128, 56 * num, 255 * den, 3)
  BY <1>1, <1>2, <1>5 DEF Clamped, CloseTo
<1>9. a = y => Clamped(d + 128, 0, 255) = 128 /\ Clamped(128 + t, 16, 240) = 128
  BY <1>3, <1>6 DEF Clamped
<1> QED BY <1>4, <1>7, <1>8, <1>9 DEF IsDifference

\* a is v / 4, and y is w / 10000, up to rounding.
IsAverage(a, v) == a \in 0..255 /\ 4 * a - v <= 2 /\ v - 4 * a <= 2
IsBrightness(y, w) == 10000 * y - w <= 5100 /\ w - 10000 * y <= 5100

\* The average of four pixels, rounded.
LEMMA AverageIsClose ==
    ASSUME NEW v, v \in 0..1020, NEW a, a = (v + 2) \div 4
    PROVE  IsAverage(a, v)
  BY DEF IsAverage

\* The three channels (r first) of a block, their averages, and the weights.
IsBlock(r, g, b, p, q, s) ==
    /\ r \in 0..1020 /\ g \in 0..1020 /\ b \in 0..1020
    /\ IsAverage(p, r) /\ IsAverage(q, g) /\ IsAverage(s, b)
AreWeights(u, v, w) == u \in Nat /\ v \in Nat /\ w \in Nat /\ u + v + w = 10000

\* What rounding does to a difference of one channel (r) and the brightness.
LEMMA RoundingOfDifference ==
    ASSUME NEW r, NEW g, NEW b, NEW p, NEW q, NEW s, IsBlock(r, g, b, p, q, s),
           NEW u, NEW v, NEW w, AreWeights(u, v, w),
           NEW y, y \in 0..255, IsBrightness(y, u * p + v * q + w * s)
    PROVE  RoundedFrom(10000 * r - (u * r + v * g + w * b), 2 * (10000 - u), p, y)
<1> USE DEF IsBlock, AreWeights
<1> USE DEF IsAverage, IsBrightness
<1> DEFINE num == 10000 * r - (u * r + v * g + w * b)
           x == v * r - v * g
           z == w * r - w * b
<1>1. num = x + z
  <2>1. (u + v + w) * r = 10000 * r
    OBVIOUS
  <2> QED BY <2>1
<1>2. x \in Int /\ z \in Int
  OBVIOUS
<1>3. x <= 1020 * v /\ -(1020 * v) <= x /\ z <= 1020 * w /\ -(1020 * w) <= z
  <2>1. v * (r - g) <= v * 1020 /\ v * (-1020) <= v * (r - g)
    OBVIOUS
  <2>2. w * (r - b) <= w * 1020 /\ w * (-1020) <= w * (r - b)
    OBVIOUS
  <2> QED BY <2>1, <2>2
<1>4. /\ x - 4 * (v * p - v * q) <= 4 * v /\ 4 * (v * p - v * q) - x <= 4 * v
      /\ z - 4 * (w * p - w * s) <= 4 * w /\ 4 * (w * p - w * s) - z <= 4 * w
  <2>1. /\ v * ((r - 4 * p) - (g - 4 * q)) <= v * 4
        /\ v * (-4) <= v * ((r - 4 * p) - (g - 4 * q))
    OBVIOUS
  <2>2. /\ w * ((r - 4 * p) - (b - 4 * s)) <= w * 4
        /\ w * (-4) <= w * ((r - 4 * p) - (b - 4 * s))
    OBVIOUS
  <2> QED BY <2>1, <2>2
<1>5. 10000 * p - (u * p + v * q + w * s) = (v * p - v * q) + (w * p - w * s)
  <2>1. (u + v + w) * p = 10000 * p
    OBVIOUS
  <2> QED BY <2>1
<1> DEFINE k == u * p + v * q + w * s
           e == v * p - v * q
           f == w * p - w * s
           m == e + f
<1>6. k \in Int /\ e \in Int /\ f \in Int /\ m \in Int /\ 10000 * p - k = m
  BY <1>5
<1>7. x + z - 4 * m <= 4 * (v + w) /\ 4 * m - (x + z) <= 4 * (v + w)
  <2>1. x - 4 * e <= 4 * v /\ 4 * e - x <= 4 * v /\ z - 4 * f <= 4 * w /\ 4 * f - z <= 4 * w
    BY <1>4
  <2> HIDE DEF x, z, e, f
  <2> QED BY <1>2, <1>6, <2>1
<1>8. num \in Int
  OBVIOUS
<1> HIDE DEF x, z, num, k, m
<1>9. num <= 1020 * (v + w) /\ -(1020 * (v + w)) <= num
  BY <1>1, <1>2, <1>3
<1>10. num - 4 * m <= 4 * (v + w) /\ 4 * m - num <= 4 * (v + w)
  BY <1>1, <1>2, <1>6, <1>7
<1>11. 10000 * y - k <= 5100 /\ k - 10000 * y <= 5100
  BY DEF k
<1>12. v + w = 10000 - u
  OBVIOUS
<1>13. /\ num <= 510 * (2 * (10000 - u)) /\ -(510 * (2 * (10000 - u))) <= num
       /\ num - 40000 * (p - y) <= 2 * (2 * (10000 - u)) + 20400
       /\ 40000 * (p - y) - num <= 2 * (2 * (10000 - u)) + 20400
  BY <1>6, <1>8, <1>9, <1>10, <1>11, <1>12
<1> QED BY <1>8, <1>13 DEF num, RoundedFrom

\* The weights and factors of a matrix, and what they weigh.
LEMMA WeightsOf ==
    ASSUME setting.matrix \in {"Bt709", "Bt601"}
    PROVE  LET w == Weights(setting.matrix)
               c == Coefficients(setting.matrix)
           IN  /\ w[1] \in Nat /\ w[2] \in Nat /\ w[3] \in Nat /\ w[1] + w[2] + w[3] = 10000
               /\ Factors(2 * (10000 - w[3]), c.cb) /\ Factors(2 * (10000 - w[1]), c.cr)
  BY DEF Weights, Coefficients, Factors

\* The order in which the channels are added up is of no account.
LEMMA EitherOrder ==
    ASSUME NEW r, NEW g, NEW b, NEW p, NEW q, NEW s, IsBlock(r, g, b, p, q, s),
           NEW u, NEW v, NEW w, AreWeights(u, v, w)
    PROVE  u * r + v * g + w * b = w * b + v * g + u * r
<1> DEFINE x == u * r  y == v * g  z == w * b
<1>1. x \in Int /\ y \in Int /\ z \in Int
  BY DEF AreWeights, IsBlock
<1> HIDE DEF x, y, z
<1>2. x + y + z = z + y + x
  BY <1>1
<1> QED BY <1>2 DEF x, y, z

\* One of the two differences.
LEMMA ChannelIsClose ==
    ASSUME setting.range \in {"Full", "Limited"}, NEW k \in {1, 3}, NEW sum, NEW F, NEW a, NEW y,
           IsDifference(10000 * sum[k] - Weighted(sum), 2 * (10000 - Weights(setting.matrix)[k]), F, a, y)
    PROVE  /\ DifferenceIsTrue(Difference(setting.range, F, a, y), k, sum)
           /\ a = y => Difference(setting.range, F, a, y) = 128
<1>1. CASE setting.range = "Full"
  BY <1>1 DEF DifferenceIsTrue, IsDifference
<1>2. CASE setting.range = "Limited"
  BY <1>2 DEF DifferenceIsTrue, IsDifference
<1> QED BY <1>1, <1>2

\* The chroma of a block, from its four pixels added up, with the average as the code
\* rounds it.
LEMMA ChromaIsClose ==
    ASSUME setting \in Settings,
           NEW sum, sum[1] \in 0..1020, sum[2] \in 0..1020, sum[3] \in 0..1020,
           NEW a, a[1] = (sum[1] + 2) \div 4, a[2] = (sum[2] + 2) \div 4, a[3] = (sum[3] + 2) \div 4
    PROVE  LET ch == Chroma(Coefficients(setting.matrix), setting.range, a)
           IN  /\ DifferenceIsTrue(ch.cb, 3, sum)
               /\ DifferenceIsTrue(ch.cr, 1, sum)
               /\ (sum[1] = sum[2] /\ sum[2] = sum[3]) => ch.cb = 128 /\ ch.cr = 128
<1> DEFINE c == Coefficients(setting.matrix)
           y == Brightness(c, a)
           w == Weights(setting.matrix)
           u1 == w[1]  u2 == w[2]  u3 == w[3]
           r == sum[1]  g == sum[2]  b == sum[3]
           p == a[1]  q == a[2]  s == a[3]
<1>1. setting.matrix \in {"Bt709", "Bt601"} /\ setting.range \in {"Full", "Limited"}
  BY PlanarAssumption
<1>2. /\ IsAverage(p, r) /\ IsAverage(q, g) /\ IsAverage(s, b)
      /\ p \in 0..255 /\ q \in 0..255 /\ s \in 0..255
  <2>1. IsAverage(p, r) /\ IsAverage(q, g) /\ IsAverage(s, b)
    BY AverageIsClose
  <2> HIDE DEF p, q, s, r, g, b
  <2> QED BY <2>1 DEF IsAverage
<1>3. /\ y \in 0..255 /\ Weighted(a) \in Int
      /\ 10000 * y - Weighted(a) <= 5100 /\ Weighted(a) - 10000 * y <= 5100
      /\ (p = q /\ q = s) => y = p
  BY <1>1, <1>2, BrightnessIsClose
<1>4. /\ u1 \in Nat /\ u2 \in Nat /\ u3 \in Nat /\ u1 + u2 + u3 = 10000
      /\ Factors(2 * (10000 - u3), c.cb) /\ Factors(2 * (10000 - u1), c.cr)
  BY <1>1, WeightsOf
<1>5. Weighted(a) = u1 * p + u2 * q + u3 * s /\ Weighted(sum) = u1 * r + u2 * g + u3 * b
  BY DEF Weighted
<1>6. /\ Chroma(c, setting.range, a).cb = Difference(setting.range, c.cb, s, y)
      /\ Chroma(c, setting.range, a).cr = Difference(setting.range, c.cr, p, y)
  BY DEF Chroma
<1>7. (r = g /\ g = b) => p = y /\ s = y
  BY <1>3
<1>8. r \in 0..1020 /\ g \in 0..1020 /\ b \in 0..1020
  OBVIOUS
<1> HIDE DEF y, w, u1, u2, u3, r, g, b, p, q, s, c
<1>9. /\ DifferenceIsTrue(Difference(setting.range, c.cb, s, y), 3, sum)
      /\ s = y => Difference(setting.range, c.cb, s, y) = 128
  <2> DEFINE N == 10000 * b - (u3 * b + u2 * g + u1 * r)
             D == 2 * (10000 - u3)
  <2>1. IsBrightness(y, u3 * s + u2 * q + u1 * p) /\ AreWeights(u3, u2, u1) /\ IsBlock(b, g, r, s, q, p)
    BY <1>2, <1>3, <1>4, <1>5, <1>8 DEF IsBrightness, AreWeights, IsBlock
  <2>2. RoundedFrom(N, D, s, y)
    BY <1>3, <2>1, RoundingOfDifference
  <2>3. N = 10000 * sum[3] - Weighted(sum)
    <3>1. u3 * b + u2 * g + u1 * r = u1 * r + u2 * g + u3 * b
      BY <2>1, EitherOrder
    <3> QED BY <1>5, <3>1 DEF b
  <2>4. D = 2 * (10000 - Weights(setting.matrix)[3])
    BY DEF u3, w
  <2>5. Factors(D, c.cb)
    BY <1>4
  <2> HIDE DEF N, D
  <2>6. IsDifference(N, D, c.cb, s, y)
    BY <2>2, <2>5, DifferenceIsClose
  <2> QED BY <1>1, <2>3, <2>4, <2>6, ChannelIsClose
<1>10. /\ DifferenceIsTrue(Difference(setting.range, c.cr, p, y), 1, sum)
       /\ p = y => Difference(setting.range, c.cr, p, y) = 128
  <2> DEFINE N == 10000 * r - (u1 * r + u2 * g + u3 * b)
             D == 2 * (10000 - u1)
  <2>1. IsBrightness(y, u1 * p + u2 * q + u3 * s) /\ AreWeights(u1, u2, u3) /\ IsBlock(r, g, b, p, q, s)
    BY <1>2, <1>3, <1>4, <1>5, <1>8 DEF IsBrightness, AreWeights, IsBlock
  <2>2. RoundedFrom(N, D, p, y)
    BY <1>3, <2>1, RoundingOfDifference
  <2>3. N = 10000 * sum[1] - Weighted(sum)
    BY <1>5 DEF r
  <2>4. D = 2 * (10000 - Weights(setting.matrix)[1])
    BY DEF u1, w
  <2>5. Factors(D, c.cr)
    BY <1>4
  <2> HIDE DEF N, D
  <2>6. IsDifference(N, D, c.cr, p, y)
    BY <2>2, <2>5, DifferenceIsClose
  <2> QED BY <1>1, <2>3, <2>4, <2>6, ChannelIsClose
<1> QED BY <1>6, <1>7, <1>9, <1>10 DEF c, r, g, b

\* Place x of row y, in rows of w, and the row and place of a number.
LEMMA PlaceInRow ==
    ASSUME NEW w, w \in Nat \ {0}, NEW x, x \in Nat, x < w, NEW y, y \in Nat
    PROVE  /\ y * w + x \in Nat
           /\ (y * w + x) \div w = y
           /\ (y * w + x) % w = x
  OBVIOUS

\* It is within the rows there are.
LEMMA PlaceIsInside ==
    ASSUME NEW w, w \in Nat \ {0}, NEW x, x \in Nat, x < w, NEW y, y \in Nat, NEW h, h \in Nat, y < h
    PROVE  /\ y * w + x < h * w /\ y * w + w <= h * w
<1>1. (y + 1) * w <= h * w
  OBVIOUS
<1> QED BY <1>1

\* Every number below the size is a place in a row.
LEMMA PlaceOfNumber ==
    ASSUME NEW w, w \in Nat \ {0}, NEW h, h \in Nat, NEW i, i \in Nat, i < h * w
    PROVE  /\ i \div w \in 0..(h - 1)
           /\ i % w \in 0..(w - 1)
           /\ i = (i \div w) * w + (i % w)
<1>1. i \div w \in Nat /\ i % w \in Nat /\ i % w < w /\ i = (i \div w) * w + (i % w)
  OBVIOUS
<1>2. i \div w < h
  <2> DEFINE q == i \div w
  <2>1. q * w < h * w
    BY <1>1
  <2> HIDE DEF q
  <2>2. q < h
    BY <1>1, <2>1 DEF q
  <2> QED BY <2>2 DEF q
<1> QED BY <1>1, <1>2

\* What validate lets through.
Fits ==
    /\ Width \in Nat \ {0} /\ Height \in Nat \ {0}
    /\ source.stride \in Nat /\ 4 * Width <= source.stride
    /\ \A x \in 0..(Width - 1), y \in 0..(Height - 1) : source.pixels[<<x, y>>] \in Colour

\* A pixel is read from where it is.
LEMMA PixelIsRead ==
    ASSUME Fits, NEW x, x \in 0..(Width - 1), NEW y, y \in 0..(Height - 1)
    PROVE  PixelAt(Offset(x, y)) = source.pixels[<<x, y>>]
<1> DEFINE s == source.stride
           p == source.pixels[<<x, y>>]
<1>1. ASSUME NEW j, j \in {0, 1, 2}
      PROVE  Byte(Offset(x, y) + j) = p[3 - j]
  <2>1. /\ s \in Nat \ {0} /\ y \in Nat /\ 4 * x + j \in Nat /\ 4 * x + j < s /\ 4 * x + j < 4 * Width
        /\ y < Height /\ x \in Nat
    BY <1>1 DEF Fits
  <2>2. (y * s + (4 * x + j)) \div s = y /\ (y * s + (4 * x + j)) % s = 4 * x + j
    BY <2>1, PlaceInRow
  <2>3. Offset(x, y) + j = y * s + (4 * x + j)
    <3>1. y * s \in Nat
      BY <2>1
    <3> QED BY <1>1, <2>1, <3>1 DEF Offset
  <2>4. (4 * x + j) % 4 = j /\ (4 * x + j) \div 4 = x
    BY <1>1, <2>1
  <2>5. (Offset(x, y) + j) % s = 4 * x + j /\ (Offset(x, y) + j) \div s = y
    BY <2>2, <2>3
  <2> QED BY <1>1, <2>1, <2>4, <2>5 DEF Byte
<1>2. Offset(x, y) + 0 = Offset(x, y)
  <2>1. x \in Nat /\ y \in Nat /\ s \in Nat
    BY DEF Fits
  <2> QED BY <2>1 DEF Offset
<1>3. PixelAt(Offset(x, y)) = <<p[1], p[2], p[3]>>
  <2>1. Byte(Offset(x, y) + 2) = p[3 - 2] /\ Byte(Offset(x, y) + 1) = p[3 - 1] /\ Byte(Offset(x, y) + 0) = p[3 - 0]
    BY <1>1
  <2> QED BY <1>2, <2>1 DEF PixelAt
<1>4. p \in [1..3 -> 0..255]
  BY DEF Fits, Colour
<1> QED BY <1>3, <1>4

\* The average that is made of a block, for either way of choosing its pixels.
LEMMA SampleIsAverage ==
    ASSUME Fits, setting \in Settings, NEW cx, cx \in 0..(HalfOf(Width) - 1), NEW cy, cy \in 0..(HalfOf(Height) - 1),
           NEW k, k \in 1..3
    PROVE  /\ BlockSum(cx, cy)[k] \in 0..1020
           /\ Sample(2 * cx, 2 * cy)[k] = (BlockSum(cx, cy)[k] + 2) \div 4
<1> DEFINE x0 == 2 * cx
           y0 == 2 * cy
           x1 == IF x0 + 1 < Width THEN x0 + 1 ELSE Width - 1
           y1 == IF y0 + 1 < Height THEN y0 + 1 ELSE Height - 1
           p(x, y) == source.pixels[<<x, y>>][k]
<1>1. /\ x0 \in 0..(Width - 1) /\ y0 \in 0..(Height - 1)
      /\ x1 \in 0..(Width - 1) /\ y1 \in 0..(Height - 1)
      /\ x1 = (IF x0 + 1 >= Width THEN x0 ELSE x0 + 1)
      /\ y1 = (IF y0 + 1 >= Height THEN y0 ELSE y0 + 1)
      /\ x0 + 0 = x0 /\ y0 + 0 = y0 /\ ~(x0 >= Width) /\ ~(y0 >= Height)
  BY DEF HalfOf, Fits
<1>2. \A x \in 0..(Width - 1), y \in 0..(Height - 1) :
         p(x, y) \in 0..255 /\ PixelAt(Offset(x, y)) = source.pixels[<<x, y>>]
  <2> SUFFICES ASSUME NEW x, x \in 0..(Width - 1), NEW y, y \in 0..(Height - 1)
               PROVE  p(x, y) \in 0..255 /\ PixelAt(Offset(x, y)) = source.pixels[<<x, y>>]
    OBVIOUS
  <2>1. source.pixels[<<x, y>>] \in [1..3 -> 0..255]
    BY DEF Fits, Colour
  <2>2. p(x, y) \in 0..255
    BY <2>1
  <2>3. PixelAt(Offset(x, y)) = source.pixels[<<x, y>>]
    BY PixelIsRead
  <2> QED BY <2>2, <2>3
<1>3. CASE setting.chroma = "Nearest"
  <2>1. BlockSum(cx, cy)[k] = p(x0, y0) + p(x0, y0) + p(x0, y0) + p(x0, y0)
    BY <1>3 DEF BlockSum
  <2>2. Sample(2 * cx, 2 * cy)[k] = p(x0, y0)
    BY <1>1, <1>2, <1>3 DEF Sample
  <2>3. p(x0, y0) \in 0..255
    BY <1>1, <1>2
  <2> HIDE DEF p
  <2> QED BY <2>1, <2>2, <2>3
<1>4. CASE setting.chroma # "Nearest"
  <2>1. BlockSum(cx, cy)[k] = p(x0, y0) + p(x1, y0) + p(x0, y1) + p(x1, y1)
    <3> HIDE DEF x1, y1
    <3> QED BY <1>1, <1>4 DEF BlockSum
  <2>2. Sample(2 * cx, 2 * cy)[k] = (p(x0, y0) + p(x1, y0) + p(x0, y1) + p(x1, y1) + 2) \div 4
    <3>1. Block(x0, y0) = <<PixelAt(Offset(x0, y0)), PixelAt(Offset(x1, y0)),
                            PixelAt(Offset(x0, y1)), PixelAt(Offset(x1, y1))>>
      BY DEF Block
    <3>2. AverageBlock(x0, y0)[k] = (Block(x0, y0)[1][k] + Block(x0, y0)[2][k]
                                       + Block(x0, y0)[3][k] + Block(x0, y0)[4][k] + 2) \div 4
      BY DEF AverageBlock
    <3>3. Sample(x0, y0)[k] = AverageBlock(x0, y0)[k]
      BY <1>4 DEF Sample
    <3> HIDE DEF x0, y0, x1, y1
    <3>4. /\ Block(x0, y0)[1][k] = p(x0, y0) /\ Block(x0, y0)[2][k] = p(x1, y0)
          /\ Block(x0, y0)[3][k] = p(x0, y1) /\ Block(x0, y0)[4][k] = p(x1, y1)
      BY <1>1, <1>2, <3>1
    <3>5. Sample(x0, y0)[k] = (p(x0, y0) + p(x1, y0) + p(x0, y1) + p(x1, y1) + 2) \div 4
      BY <3>2, <3>3, <3>4
    <3> QED BY <3>5 DEF x0, y0
  <2>3. /\ p(x0, y0) \in 0..255 /\ p(x1, y0) \in 0..255
        /\ p(x0, y1) \in 0..255 /\ p(x1, y1) \in 0..255
    <3> HIDE DEF x0, y0, x1, y1
    <3> QED BY <1>1, <1>2
  <2>4. BlockSum(cx, cy)[k] \in 0..1020
    <3> DEFINE a == p(x0, y0)  b == p(x1, y0)  c == p(x0, y1)  d == p(x1, y1)
    <3>1. a \in 0..255 /\ b \in 0..255 /\ c \in 0..255 /\ d \in 0..255
      BY <2>3
    <3>2. BlockSum(cx, cy)[k] = a + b + c + d
      BY <2>1
    <3> HIDE DEF a, b, c, d
    <3> QED BY <3>1, <3>2
  <2> HIDE DEF p, x0, y0, x1, y1
  <2> QED BY <2>1, <2>2, <2>4
<1> QED BY <1>3, <1>4

\* What bgra_to_planar makes of a pixel and of a block.
Luminance(x, y) == Luma(Coefficients(setting.matrix), setting.range, source.pixels[<<x, y>>])
Chrominance(cx, cy) == Chroma(Coefficients(setting.matrix), setting.range, Sample(2 * cx, 2 * cy))

\* The rows of either plane that are written.
LumaDone(rows) ==
    \A x \in 0..(Width - 1), y \in 0..(rows - 1) : planes[y * Width + x] = Luminance(x, y)
ChromaDone(rows) ==
    \A cx \in 0..(HalfOf(Width) - 1), cy \in 0..(rows - 1) :
        /\ planes[CbIndex(cx, cy)] = Chrominance(cx, cy).cb
        /\ planes[CrIndex(cx, cy)] = Chrominance(cx, cy).cr

\* The planes of the colour differences are not empty.
LEMMA HalfOfSide ==
    ASSUME NEW n, n \in Nat \ {0}
    PROVE  HalfOf(n) \in Nat \ {0}
  BY DEF HalfOf

\* A sample's number in its plane.
Number(cx, cy) == cy * HalfOf(Width) + cx

\* The number says which sample it is, and gives the place of its bytes in either format.
LEMMA NumbersAreDistinct ==
    ASSUME Fits, NEW cx, cx \in 0..(HalfOf(Width) - 1), NEW cy, cy \in 0..(HalfOf(Height) - 1)
    PROVE  /\ Number(cx, cy) \in 0..(ChromaSize - 1) /\ ChromaSize \in Nat /\ LumaSize \in Nat
           /\ Number(cx, cy) \div HalfOf(Width) = cy
           /\ Number(cx, cy) % HalfOf(Width) = cx
           /\ CbIndex(cx, cy) = LumaSize + (IF setting.format = "Nv12" THEN 2 * Number(cx, cy) ELSE Number(cx, cy))
           /\ CrIndex(cx, cy) = LumaSize + (IF setting.format = "Nv12" THEN 2 * Number(cx, cy) + 1
                                            ELSE Number(cx, cy) + ChromaSize)
<1> DEFINE w == HalfOf(Width)
           h == HalfOf(Height)
           n == cy * w + cx
<1>1. w \in Nat \ {0} /\ h \in Nat \ {0} /\ ChromaSize = h * w
  <2>1. w \in Nat \ {0} /\ h \in Nat \ {0}
    BY HalfOfSide DEF Fits
  <2> HIDE DEF w, h
  <2> QED BY <2>1 DEF ChromaSize, w, h
<1>2. LumaSize \in Nat /\ h * w \in Nat
  <2>1. LumaSize \in Nat
    BY DEF LumaSize, Fits
  <2> HIDE DEF w, h
  <2> QED BY <1>1, <2>1
<1> HIDE DEF w, h
<1>3. cx \in Nat /\ cx < w /\ cy \in Nat /\ cy < h
  BY <1>1 DEF w, h
<1>4. n \in Nat /\ n \div w = cy /\ n % w = cx /\ n < h * w
  BY <1>1, <1>3, PlaceInRow, PlaceIsInside
<1>5. Number(cx, cy) = n
  BY DEF Number, w
<1>6. CbIndex(cx, cy) = LumaSize + (IF setting.format = "Nv12" THEN 2 * n ELSE n)
  BY DEF CbIndex, w
<1> HIDE DEF n
<1>7. CrIndex(cx, cy) = LumaSize + (IF setting.format = "Nv12" THEN 2 * n + 1 ELSE n + ChromaSize)
  BY <1>1, <1>2, <1>4, <1>6 DEF CrIndex
<1> QED BY <1>1, <1>2, <1>4, <1>5, <1>6, <1>7 DEF w

\* No two samples share a byte, nor with the luma plane.
LEMMA IndicesAreDistinct ==
    ASSUME Fits,
           NEW cx, cx \in 0..(HalfOf(Width) - 1), NEW cy, cy \in 0..(HalfOf(Height) - 1),
           NEW dx, dx \in 0..(HalfOf(Width) - 1), NEW dy, dy \in 0..(HalfOf(Height) - 1)
    PROVE  /\ CbIndex(cx, cy) = CbIndex(dx, dy) => cx = dx /\ cy = dy
           /\ CrIndex(cx, cy) = CrIndex(dx, dy) => cx = dx /\ cy = dy
           /\ CbIndex(cx, cy) # CrIndex(dx, dy)
           /\ CbIndex(cx, cy) \in LumaSize..(LumaSize + 2 * ChromaSize - 1)
           /\ CrIndex(cx, cy) \in LumaSize..(LumaSize + 2 * ChromaSize - 1)
<1> DEFINE n == Number(cx, cy)
           m == Number(dx, dy)
<1>1. /\ n \in 0..(ChromaSize - 1) /\ m \in 0..(ChromaSize - 1) /\ ChromaSize \in Nat /\ LumaSize \in Nat
      /\ CbIndex(cx, cy) = LumaSize + (IF setting.format = "Nv12" THEN 2 * n ELSE n)
      /\ CbIndex(dx, dy) = LumaSize + (IF setting.format = "Nv12" THEN 2 * m ELSE m)
      /\ CrIndex(cx, cy) = LumaSize + (IF setting.format = "Nv12" THEN 2 * n + 1 ELSE n + ChromaSize)
      /\ CrIndex(dx, dy) = LumaSize + (IF setting.format = "Nv12" THEN 2 * m + 1 ELSE m + ChromaSize)
  BY NumbersAreDistinct
<1>2. n = m => cx = dx /\ cy = dy
  BY NumbersAreDistinct
<1> HIDE DEF n, m
<1>3. CASE setting.format = "Nv12"
  BY <1>1, <1>2, <1>3
<1>4. CASE setting.format # "Nv12"
  BY <1>1, <1>2, <1>4
<1> QED BY <1>3, <1>4

\* Every byte behind the luma plane is of some sample.
LEMMA EveryByteHasASample ==
    ASSUME Fits, NEW i, i \in LumaSize..(LumaSize + 2 * ChromaSize - 1)
    PROVE  \E cx \in 0..(HalfOf(Width) - 1), cy \in 0..(HalfOf(Height) - 1) :
              i = CbIndex(cx, cy) \/ i = CrIndex(cx, cy)
<1> DEFINE w == HalfOf(Width)
           h == HalfOf(Height)
           nv12 == setting.format = "Nv12"
           j == i - LumaSize
           n == IF nv12 THEN j \div 2 ELSE IF j < ChromaSize THEN j ELSE j - ChromaSize
<1>1. w \in Nat \ {0} /\ h \in Nat \ {0} /\ ChromaSize = h * w /\ LumaSize \in Nat
  <2>1. w \in Nat \ {0} /\ h \in Nat \ {0}
    BY HalfOfSide DEF Fits
  <2>2. LumaSize \in Nat
    BY DEF LumaSize, Fits
  <2> HIDE DEF w, h
  <2> QED BY <2>1, <2>2 DEF ChromaSize, w, h
<1> HIDE DEF w, h
<1>2. ChromaSize \in Nat
  BY <1>1
<1>3. j \in 0..(2 * ChromaSize - 1) /\ i = LumaSize + j
  BY <1>1, <1>2
<1> HIDE DEF j
<1>4. n \in Nat /\ n < ChromaSize
  BY <1>2, <1>3
<1>5. nv12 => j = 2 * n \/ j = 2 * n + 1
  BY <1>2, <1>3
<1>6. ~nv12 => j = n \/ j = n + ChromaSize
  BY <1>2, <1>3
<1> HIDE DEF n
<1> DEFINE cx == n % w
           cy == n \div w
<1>7. cx \in 0..(w - 1) /\ cy \in 0..(h - 1) /\ n = cy * w + cx
  BY <1>1, <1>4, PlaceOfNumber
<1> HIDE DEF cx, cy
<1>8. cx \in 0..(HalfOf(Width) - 1) /\ cy \in 0..(HalfOf(Height) - 1) /\ Number(cx, cy) = n
  BY <1>7 DEF Number, w, h
<1>9. /\ CbIndex(cx, cy) = LumaSize + (IF nv12 THEN 2 * n ELSE n)
      /\ CrIndex(cx, cy) = LumaSize + (IF nv12 THEN 2 * n + 1 ELSE n + ChromaSize)
  BY <1>8, NumbersAreDistinct
<1>10. i = CbIndex(cx, cy) \/ i = CrIndex(cx, cy)
  BY <1>3, <1>5, <1>6, <1>9
<1> QED BY <1>8, <1>10

\* The samples are the colours of the standard.
LEMMA SamplesAreTrue ==
    ASSUME Fits, setting \in Settings, NEW cx, cx \in 0..(HalfOf(Width) - 1), NEW cy, cy \in 0..(HalfOf(Height) - 1)
    PROVE  LET ch == Chrominance(cx, cy)
               sum == BlockSum(cx, cy)
           IN  /\ DifferenceIsTrue(ch.cb, 3, sum)
               /\ DifferenceIsTrue(ch.cr, 1, sum)
               /\ (sum[1] = sum[2] /\ sum[2] = sum[3]) => ch.cb = 128 /\ ch.cr = 128
<1> DEFINE sum == BlockSum(cx, cy)
           a == Sample(2 * cx, 2 * cy)
<1>1. \A k \in 1..3 : sum[k] \in 0..1020 /\ a[k] = (sum[k] + 2) \div 4
  BY SampleIsAverage
<1>2. Chrominance(cx, cy) = Chroma(Coefficients(setting.matrix), setting.range, a)
  BY DEF Chrominance
<1> HIDE DEF sum, a
<1>3. /\ sum[1] \in 0..1020 /\ sum[2] \in 0..1020 /\ sum[3] \in 0..1020
      /\ a[1] = (sum[1] + 2) \div 4 /\ a[2] = (sum[2] + 2) \div 4 /\ a[3] = (sum[3] + 2) \div 4
  BY <1>1
<1> QED BY <1>2, <1>3, ChromaIsClose DEF sum

\* The sizes of the planes.
LEMMA SizesAreNumbers ==
    ASSUME Fits
    PROVE  LumaSize \in Nat /\ ChromaSize \in Nat /\ HalfOf(Width) \in Nat \ {0} /\ HalfOf(Height) \in Nat \ {0}
<1>1. HalfOf(Width) \in Nat \ {0} /\ HalfOf(Height) \in Nat \ {0}
  BY HalfOfSide DEF Fits
<1> QED BY <1>1 DEF LumaSize, ChromaSize, Fits

\* What they are is a byte.
LEMMA SamplesAreWritten ==
    ASSUME Fits, setting \in Settings, NEW cx, cx \in 0..(HalfOf(Width) - 1), NEW cy, cy \in 0..(HalfOf(Height) - 1)
    PROVE  Chrominance(cx, cy).cb # Unwritten /\ Chrominance(cx, cy).cr # Unwritten
<1>1. DifferenceIsTrue(Chrominance(cx, cy).cb, 3, BlockSum(cx, cy))
      /\ DifferenceIsTrue(Chrominance(cx, cy).cr, 1, BlockSum(cx, cy))
  BY SamplesAreTrue
<1>2. Chrominance(cx, cy).cb \in Int /\ Chrominance(cx, cy).cr \in Int
  BY <1>1 DEF DifferenceIsTrue
<1> QED BY <1>2, PlanarAssumption

\* The luma is that of the standard, and a byte.
LEMMA LumaIsWritten ==
    ASSUME Fits, setting \in Settings, NEW x, x \in 0..(Width - 1), NEW y, y \in 0..(Height - 1)
    PROVE  LumaIsTrue(Luminance(x, y), source.pixels[<<x, y>>]) /\ Luminance(x, y) # Unwritten
<1>1. LumaIsTrue(Luminance(x, y), source.pixels[<<x, y>>])
  <2>1. source.pixels[<<x, y>>] \in Colour
    BY DEF Fits
  <2> QED BY <2>1, LumaIsClose DEF Luminance
<1>2. Luminance(x, y) \in Int
  BY <1>1 DEF LumaIsTrue
<1> QED BY <1>1, <1>2, PlanarAssumption

\* A step that leaves the source and the setting alone.
LEMMA SameSource ==
    ASSUME UNCHANGED <<source, setting>>
    PROVE  /\ Width' = Width /\ Height' = Height /\ LumaSize' = LumaSize /\ ChromaSize' = ChromaSize
           /\ Fits' = Fits /\ Need' = Need
           /\ \A x, y : Luminance(x, y)' = Luminance(x, y)
           /\ \A cx, cy : /\ Chrominance(cx, cy)' = Chrominance(cx, cy)
                          /\ CbIndex(cx, cy)' = CbIndex(cx, cy) /\ CrIndex(cx, cy)' = CrIndex(cx, cy)
<1>1. Width' = Width /\ Height' = Height /\ LumaSize' = LumaSize /\ ChromaSize' = ChromaSize /\ Need' = Need
  BY DEF Width, Height, LumaSize, ChromaSize, Need
<1>2. Fits' = Fits
  BY <1>1 DEF Fits
<1>3. \A x, y : Luminance(x, y)' = Luminance(x, y)
  BY DEF Luminance
<1>4. \A i : Byte(i)' = Byte(i)
  BY <1>1 DEF Byte
<1>5. \A x, y : Offset(x, y)' = Offset(x, y)
  BY DEF Offset
<1>6. \A i : PixelAt(i)' = PixelAt(i)
  BY <1>4 DEF PixelAt
<1>7. \A x, y : Sample(x, y)' = Sample(x, y)
  <2>1. \A x, y : PixelAt(Offset(x, y))' = PixelAt(Offset(x, y))
    BY <1>4, <1>5 DEF PixelAt
  <2>2. \A x, y : Block(x, y)' = Block(x, y)
    BY <1>1, <2>1 DEF Block
  <2>3. \A x, y : AverageBlock(x, y)' = AverageBlock(x, y)
    BY <2>2 DEF AverageBlock
  <2> QED BY <2>1, <2>3 DEF Sample
<1>8. \A cx, cy : Chrominance(cx, cy)' = Chrominance(cx, cy)
  BY <1>7 DEF Chrominance
<1>9. \A cx, cy : CbIndex(cx, cy)' = CbIndex(cx, cy)
  BY <1>1 DEF CbIndex
<1>10. \A cx, cy : CrIndex(cx, cy)' = CrIndex(cx, cy)
  BY <1>1, <1>9 DEF CrIndex
<1> QED BY <1>1, <1>2, <1>3, <1>8, <1>9, <1>10

\* The conversion has begun; and the buffers that copy_planes fills.
Written == stage \in {"luma", "chroma", "converted", "copied"}
Copied(more) ==
    <<CopiedPlane(0, LumaStride + more, Height, LumaStride),
      CopiedPlane(LumaSize, ChromaStride + more, HalfOf(Height), ChromaStride)>>

\* The inductive invariant: the rows that are done hold what their pixels give, and the
\* copy holds what the planes hold.
PlanarInv ==
    /\ source \in Sources /\ setting \in Settings
    /\ stage # "panicked"
    /\ stage = "new" => row = 0
    /\ Written => /\ Fits /\ source.length \in Nat /\ Need <= source.length
                  /\ DOMAIN planes = 0..(LumaSize + 2 * ChromaSize - 1)
    /\ stage = "luma" => row \in 0..(Height - 1) /\ LumaDone(row)
    /\ stage = "chroma" => row \in 0..(HalfOf(Height) - 1) /\ LumaDone(Height) /\ ChromaDone(row)
    /\ stage \in {"converted", "copied"} => LumaDone(Height) /\ ChromaDone(HalfOf(Height))
    /\ stage = "copied" =>
         /\ setting.format = "Nv12"
         /\ \E more \in Nat : pixelBuffer = Copied(more)
    /\ stage = "shown" =>
         \A x \in 0..(Width - 1), y \in 0..(Height - 1) : planes[y * Width + x] = source.pixels[<<x, y>>]

\* It holds at the start.
LEMMA PlanarInitially == PlanarInit => PlanarInv
  BY DEF PlanarInit, PlanarInv, Written

\* validate lets only frames through of which every pixel is inside the buffer.
LEMMA ValidateKeeps == ASSUME PlanarInv, Validate PROVE PlanarInv'
<1>1. UNCHANGED <<source, setting, row, pixelBuffer>> /\ row = 0
  BY DEF PlanarInv, Validate
<1>2. stage' \in {"BadDimensions", "BadStride", "SourceTooSmall", "luma"}
  BY DEF Validate
<1>3. CASE stage' = "luma"
  <2>1. /\ Width # 0 /\ Height # 0 /\ ~(source.stride < Width * 4) /\ ~(source.length < Need)
        /\ planes' = Blank(LumaSize + 2 * ChromaSize)
    BY <1>3 DEF Validate
  <2>2. /\ Width \in Nat /\ Height \in Nat /\ source.stride \in Nat /\ source.length \in Nat
        /\ \A x \in 0..(Width - 1), y \in 0..(Height - 1) : source.pixels[<<x, y>>] \in Colour
    BY PlanarAssumption DEF PlanarInv, Width, Height
  <2>3. Fits
    BY <2>1, <2>2 DEF Fits
  <2>4. Need \in Int
    <3>1. source.stride * (Height - 1) \in Int
      BY <2>2
    <3> QED BY <2>2, <3>1 DEF Need
  <2>5. Fits' /\ Need' <= source.length' /\ source.length' \in Nat
    BY <1>1, <2>1, <2>2, <2>3, <2>4, SameSource
  <2>6. DOMAIN planes' = 0..(LumaSize + 2 * ChromaSize - 1)'
    <3> DEFINE n == LumaSize + 2 * ChromaSize
    <3>0. planes' = Blank(n)
      BY <2>1
    <3> HIDE DEF n
    <3>3. DOMAIN planes' = 0..(n - 1)
      BY <3>0 DEF Blank
    <3>1. DOMAIN planes' = 0..(LumaSize + 2 * ChromaSize - 1)
      BY <2>3, <3>3, SizesAreNumbers DEF n
    <3>2. LumaSize' = LumaSize /\ ChromaSize' = ChromaSize
      BY <1>1, SameSource
    <3> QED BY <3>1, <3>2
  <2>7. row' \in 0..(Height - 1)' /\ LumaDone(row)'
    <3>1. row' = 0 /\ Height' \in Nat \ {0}
      BY <1>1, <2>3, SameSource DEF Fits
    <3>2. \A y \in 0..(row' - 1) : FALSE
      BY <3>1
    <3>3. row' \in 0..(Height' - 1)
      <4>1. Height \in Nat \ {0} /\ Height' = Height
        BY <1>1, <2>3, SameSource DEF Fits
      <4>2. 0 \in 0..(Height - 1)
        BY <4>1
      <4> QED BY <3>1, <4>1, <4>2
    <3>4. LumaDone(row)'
      BY <3>2 DEF LumaDone
    <3> QED BY <3>3, <3>4
  <2> QED BY <1>1, <1>3, <2>5, <2>6, <2>7 DEF PlanarInv, Written
<1>4. CASE stage' # "luma"
  BY <1>1, <1>2, <1>4 DEF PlanarInv, Written
<1> QED BY <1>3, <1>4

\* A row of luma that can be read.
LEMMA LumaFits ==
    ASSUME PlanarInv, stage = "luma"
    PROVE  ~Panics(Offset(Width - 1, row) + 3)
<1> DEFINE s == source.stride
           w == Width
           h == Height
<1>1. /\ w \in Nat \ {0} /\ h \in Nat \ {0} /\ s \in Nat /\ row \in Nat /\ row <= h - 1
      /\ source.length \in Nat /\ s * (h - 1) + w * 4 <= source.length
  BY DEF PlanarInv, Written, Fits, Need
<1>2. Offset(Width - 1, row) + 3 = row * s + (w - 1) * 4 + 3
  BY DEF Offset
<1> HIDE DEF s, w, h
<1>3. row * s <= (h - 1) * s
  BY <1>1
<1>4. row * s + (w - 1) * 4 + 3 < source.length
  BY <1>1, <1>3
<1>5. row * s + (w - 1) * 4 + 3 \in Int
  BY <1>1
<1> QED BY <1>1, <1>2, <1>4, <1>5 DEF Panics

\* One row of luma.
LEMMA LumaRowKeeps == ASSUME PlanarInv, LumaRow PROVE PlanarInv'
<1>1. UNCHANGED <<source, setting, pixelBuffer>> /\ stage = "luma"
  BY DEF LumaRow
<1>2. /\ NextRow(Height, "chroma")
      /\ planes' = [i \in DOMAIN planes |->
                      IF i \in (row * Width)..((row + 1) * Width - 1)
                        THEN Luma(Coefficients(setting.matrix), setting.range,
                                  PixelAt(Offset(i - row * Width, row)))
                        ELSE planes[i]]
  BY <1>1, LumaFits DEF LumaRow
<1>3. /\ Fits /\ Need <= source.length /\ source.length \in Nat
      /\ DOMAIN planes = 0..(LumaSize + 2 * ChromaSize - 1)
      /\ row \in 0..(Height - 1) /\ LumaDone(row)
  BY <1>1 DEF PlanarInv, Written
<1>4. /\ Fits' /\ Need' <= source.length' /\ source.length' \in Nat
      /\ DOMAIN planes' = 0..(LumaSize + 2 * ChromaSize - 1)'
  BY <1>1, <1>2, <1>3, SameSource
<1>5. \A x \in 0..(Width - 1), y \in 0..row : planes'[y * Width + x] = Luminance(x, y)
  <2> SUFFICES ASSUME NEW x \in 0..(Width - 1), NEW y \in 0..row
               PROVE  planes'[y * Width + x] = Luminance(x, y)
    OBVIOUS
  <2>1. /\ Width \in Nat \ {0} /\ Height \in Nat \ {0} /\ x \in Nat /\ x < Width /\ y \in Nat /\ y < Height
        /\ row \in Nat /\ row < Height /\ LumaSize = Height * Width
    BY <1>3 DEF Fits, LumaSize
  <2> DEFINE i == y * Width + x
  <2>2. i \in Nat /\ i < Height * Width
    BY <2>1, PlaceInRow, PlaceIsInside
  <2>3. i \in DOMAIN planes
    <3>1. ChromaSize \in Nat
      <4>1. HalfOf(Width) \in Nat \ {0} /\ HalfOf(Height) \in Nat \ {0}
        BY <2>1, HalfOfSide
      <4> QED BY <4>1 DEF ChromaSize
    <3> HIDE DEF i
    <3> QED BY <1>3, <2>1, <2>2, <3>1
  <2>4. CASE y = row
    <3>1. i \in (row * Width)..((row + 1) * Width - 1) /\ i - row * Width = x
      <4>1. row * Width \in Int /\ (row + 1) * Width = row * Width + Width
        BY <2>1
      <4> QED BY <2>1, <2>4, <4>1
    <3>2. PixelAt(Offset(x, y)) = source.pixels[<<x, y>>]
      <4>1. x \in 0..(Width - 1) /\ y \in 0..(Height - 1)
        BY <2>1
      <4> QED BY <1>3, <4>1, PixelIsRead
    <3> HIDE DEF i
    <3> QED BY <1>2, <2>3, <2>4, <3>1, <3>2 DEF Luminance, i
  <2>5. CASE y # row
    <3>1. y < row
      BY <2>5, <2>1
    <3>2. i < row * Width
      BY <2>1, <3>1, PlaceIsInside
    <3>3. ~(i \in (row * Width)..((row + 1) * Width - 1))
      <4>1. row * Width \in Int
        BY <2>1
      <4> HIDE DEF i
      <4> QED BY <2>2, <3>2, <4>1
    <3>4. planes[i] = Luminance(x, y)
      BY <1>3, <3>1 DEF LumaDone
    <3> HIDE DEF i
    <3> QED BY <1>2, <2>3, <3>3, <3>4 DEF i
  <2> QED BY <2>4, <2>5
<1>6. CASE row + 1 < Height
  <2>1. stage' = "luma" /\ row' = row + 1
    BY <1>1, <1>2, <1>6 DEF NextRow
  <2>2. row' \in 0..(Height - 1)' /\ LumaDone(row)'
    <3>1. row' \in 0..(Height - 1)'
      BY <1>1, <1>3, <1>6, <2>1, SameSource DEF Fits
    <3>2. 0..(row' - 1) = 0..row
      BY <1>3, <2>1
    <3> QED BY <1>1, <1>5, <3>1, <3>2, SameSource DEF LumaDone
  <2> QED BY <1>1, <1>4, <2>1, <2>2 DEF PlanarInv, Written
<1>7. CASE ~(row + 1 < Height)
  <2>1. stage' = "chroma" /\ row' = 0 /\ row + 1 = Height
    BY <1>1, <1>2, <1>3, <1>7 DEF NextRow, Fits
  <2>2. LumaDone(Height)'
    <3>1. 0..(Height' - 1) = 0..row
      BY <1>1, <1>3, <2>1, SameSource
    <3> QED BY <1>1, <1>5, <3>1, SameSource DEF LumaDone
  <2>3. row' \in 0..(HalfOf(Height) - 1)' /\ ChromaDone(row)'
    <3>1. HalfOf(Height) \in Nat \ {0}
      BY <1>3, HalfOfSide DEF Fits
    <3>2. HalfOf(Height)' = HalfOf(Height)
      BY <1>1, SameSource DEF HalfOf
    <3>3. 0..(row' - 1) = {}
      BY <2>1
    <3> QED BY <2>1, <3>1, <3>2, <3>3 DEF ChromaDone
  <2> QED BY <1>1, <1>4, <2>1, <2>2, <2>3 DEF PlanarInv, Written
<1> QED BY <1>6, <1>7

\* One row of chroma: what it writes, and that it writes nothing else.
LEMMA ChromaRowWrites ==
    ASSUME PlanarInv, ChromaRow
    PROVE  /\ DOMAIN planes' = DOMAIN planes
           /\ \A i \in 0..(LumaSize - 1) : i \in DOMAIN planes => planes'[i] = planes[i]
           /\ \A cx \in 0..(HalfOf(Width) - 1), cy \in 0..row :
                 /\ planes'[CbIndex(cx, cy)] = Chrominance(cx, cy).cb
                 /\ planes'[CrIndex(cx, cy)] = Chrominance(cx, cy).cr
<1> DEFINE columns == 0..(HalfOf(Width) - 1)
           made(cx) == Chroma(Coefficients(setting.matrix), setting.range, Sample(2 * cx, 2 * row))
           cbs == [i \in {CbIndex(cx, row) : cx \in columns} |->
                     made(CHOOSE cx \in columns : CbIndex(cx, row) = i).cb]
           crs == [i \in {CrIndex(cx, row) : cx \in columns} |->
                     made(CHOOSE cx \in columns : CrIndex(cx, row) = i).cr]
<1>1. planes' = [i \in DOMAIN planes |->
                   IF i \in DOMAIN cbs THEN cbs[i]
                   ELSE IF i \in DOMAIN crs THEN crs[i] ELSE planes[i]]
  BY DEF ChromaRow
<1>2. /\ Fits /\ row \in 0..(HalfOf(Height) - 1) /\ ChromaDone(row)
      /\ DOMAIN planes = 0..(LumaSize + 2 * ChromaSize - 1)
  BY DEF ChromaRow, PlanarInv, Written
<1>3. /\ DOMAIN cbs = {CbIndex(cx, row) : cx \in columns}
      /\ DOMAIN crs = {CrIndex(cx, row) : cx \in columns}
  OBVIOUS
<1>4. ASSUME NEW cx \in columns
      PROVE  /\ cbs[CbIndex(cx, row)] = Chrominance(cx, row).cb
             /\ crs[CrIndex(cx, row)] = Chrominance(cx, row).cr
  <2>1. (CHOOSE c \in columns : CbIndex(c, row) = CbIndex(cx, row)) = cx
    <3>1. \A c \in columns : CbIndex(c, row) = CbIndex(cx, row) => c = cx
      BY <1>2, IndicesAreDistinct
    <3> QED BY <3>1
  <2>2. (CHOOSE c \in columns : CrIndex(c, row) = CrIndex(cx, row)) = cx
    <3>1. \A c \in columns : CrIndex(c, row) = CrIndex(cx, row) => c = cx
      BY <1>2, IndicesAreDistinct
    <3> QED BY <3>1
  <2>3. made(cx) = Chrominance(cx, row)
    BY DEF Chrominance
  <2>4. cbs[CbIndex(cx, row)] = made(CHOOSE c \in columns : CbIndex(c, row) = CbIndex(cx, row)).cb
    OBVIOUS
  <2>5. crs[CrIndex(cx, row)] = made(CHOOSE c \in columns : CrIndex(c, row) = CrIndex(cx, row)).cr
    OBVIOUS
  <2> HIDE DEF made, cbs, crs
  <2> QED BY <2>1, <2>2, <2>3, <2>4, <2>5
<1> HIDE DEF cbs, crs, made
<1>5. LumaSize \in Nat /\ ChromaSize \in Nat /\ HalfOf(Height) \in Nat \ {0}
  BY <1>2, SizesAreNumbers
<1>6. ASSUME NEW i \in 0..(LumaSize - 1), i \in DOMAIN planes
      PROVE  planes'[i] = planes[i]
  <2>1. i \notin DOMAIN cbs /\ i \notin DOMAIN crs
    <3>1. \A cx \in columns : CbIndex(cx, row) >= LumaSize /\ CrIndex(cx, row) >= LumaSize
      <4> SUFFICES ASSUME NEW cx \in columns PROVE CbIndex(cx, row) >= LumaSize /\ CrIndex(cx, row) >= LumaSize
        OBVIOUS
      <4>1. /\ CbIndex(cx, row) \in LumaSize..(LumaSize + 2 * ChromaSize - 1)
            /\ CrIndex(cx, row) \in LumaSize..(LumaSize + 2 * ChromaSize - 1)
        BY <1>2, IndicesAreDistinct
      <4> QED BY <1>5, <4>1
    <3> QED BY <1>3, <1>5, <3>1
  <2> QED BY <1>1, <1>6, <2>1
<1>7. ASSUME NEW cx \in columns, NEW cy \in 0..row
      PROVE  /\ planes'[CbIndex(cx, cy)] = Chrominance(cx, cy).cb
             /\ planes'[CrIndex(cx, cy)] = Chrominance(cx, cy).cr
  <2>0. cy \in 0..(HalfOf(Height) - 1) /\ (cy = row \/ cy \in 0..(row - 1))
    BY <1>2, <1>5
  <2>1. CbIndex(cx, cy) \in DOMAIN planes /\ CrIndex(cx, cy) \in DOMAIN planes
    <3>1. /\ CbIndex(cx, cy) \in LumaSize..(LumaSize + 2 * ChromaSize - 1)
          /\ CrIndex(cx, cy) \in LumaSize..(LumaSize + 2 * ChromaSize - 1)
      BY <1>2, <2>0, IndicesAreDistinct
    <3> QED BY <1>2, <1>5, <3>1
  <2>2. CrIndex(cx, cy) \notin DOMAIN cbs
    <3>1. \A c \in columns : CbIndex(c, row) # CrIndex(cx, cy)
      BY <1>2, <2>0, IndicesAreDistinct
    <3> QED BY <1>3, <3>1
  <2>3. CASE cy = row
    <3>1. CbIndex(cx, cy) \in DOMAIN cbs /\ CrIndex(cx, cy) \in DOMAIN crs
      BY <1>3, <2>3
    <3> QED BY <1>1, <1>4, <2>1, <2>2, <2>3, <3>1
  <2>4. CASE cy # row
    <3>1. CbIndex(cx, cy) \notin DOMAIN cbs
      <4>1. \A c \in columns : CbIndex(c, row) # CbIndex(cx, cy)
        BY <1>2, <2>0, <2>4, IndicesAreDistinct
      <4> QED BY <1>3, <4>1
    <3>2. CbIndex(cx, cy) \notin DOMAIN crs
      <4>1. \A c \in columns : CrIndex(c, row) # CbIndex(cx, cy)
        BY <1>2, <2>0, IndicesAreDistinct
      <4> QED BY <1>3, <4>1
    <3>3. CrIndex(cx, cy) \notin DOMAIN crs
      <4>1. \A c \in columns : CrIndex(c, row) # CrIndex(cx, cy)
        BY <1>2, <2>0, <2>4, IndicesAreDistinct
      <4> QED BY <1>3, <4>1
    <3>4. planes[CbIndex(cx, cy)] = Chrominance(cx, cy).cb /\ planes[CrIndex(cx, cy)] = Chrominance(cx, cy).cr
      BY <1>2, <2>0, <2>4 DEF ChromaDone
    <3> QED BY <1>1, <2>1, <2>2, <3>1, <3>2, <3>3, <3>4
  <2> QED BY <2>3, <2>4
<1> QED BY <1>1, <1>6, <1>7

\* A row of chroma keeps the rest.
LEMMA ChromaRowKeeps == ASSUME PlanarInv, ChromaRow PROVE PlanarInv'
<1>1. UNCHANGED <<source, setting, pixelBuffer>> /\ stage = "chroma" /\ NextRow(HalfOf(Height), "converted")
  BY DEF ChromaRow
<1>2. /\ Fits /\ Need <= source.length /\ source.length \in Nat
      /\ DOMAIN planes = 0..(LumaSize + 2 * ChromaSize - 1)
      /\ row \in 0..(HalfOf(Height) - 1) /\ LumaDone(Height)
  BY <1>1 DEF PlanarInv, Written
<1>3. /\ DOMAIN planes' = DOMAIN planes
      /\ \A i \in 0..(LumaSize - 1) : i \in DOMAIN planes => planes'[i] = planes[i]
      /\ \A cx \in 0..(HalfOf(Width) - 1), cy \in 0..row :
                 /\ planes'[CbIndex(cx, cy)] = Chrominance(cx, cy).cb
                 /\ planes'[CrIndex(cx, cy)] = Chrominance(cx, cy).cr
  BY ChromaRowWrites
<1>4. /\ Fits' /\ Need' <= source.length' /\ source.length' \in Nat
      /\ DOMAIN planes' = 0..(LumaSize + 2 * ChromaSize - 1)'
  BY <1>1, <1>2, <1>3, SameSource
<1>5. LumaDone(Height)'
  <2> SUFFICES ASSUME NEW x \in 0..(Width - 1), NEW y \in 0..(Height - 1)
               PROVE  planes'[y * Width + x] = Luminance(x, y)
    BY <1>1, SameSource DEF LumaDone
  <2> DEFINE i == y * Width + x
  <2>1. /\ Width \in Nat \ {0} /\ Height \in Nat \ {0} /\ x \in Nat /\ x < Width /\ y \in Nat /\ y < Height
        /\ LumaSize = Height * Width
    BY <1>2 DEF Fits, LumaSize
  <2>2. i \in Nat /\ i < Height * Width
    BY <2>1, PlaceInRow, PlaceIsInside
  <2>3. LumaSize \in Nat /\ ChromaSize \in Nat
    BY <1>2, SizesAreNumbers
  <2>4. planes[i] = Luminance(x, y)
    BY <1>2 DEF LumaDone
  <2> HIDE DEF i
  <2>5. i \in 0..(LumaSize - 1) /\ i \in DOMAIN planes
    BY <1>2, <2>1, <2>2, <2>3
  <2> QED BY <1>3, <2>4, <2>5 DEF i
<1>6. HalfOf(Width)' = HalfOf(Width) /\ HalfOf(Height)' = HalfOf(Height)
  BY <1>1, SameSource DEF HalfOf
<1>7. HalfOf(Height) \in Nat \ {0}
  BY <1>2, HalfOfSide DEF Fits
<1>8. CASE row + 1 < HalfOf(Height)
  <2>1. stage' = "chroma" /\ row' = row + 1
    BY <1>1, <1>8 DEF NextRow
  <2>2. row' \in 0..(HalfOf(Height) - 1)' /\ ChromaDone(row)'
    <3>1. row' \in 0..(HalfOf(Height) - 1)'
      BY <1>2, <1>6, <1>7, <1>8, <2>1
    <3>2. 0..(row' - 1) = 0..row
      BY <1>2, <2>1
    <3>3. ChromaDone(row)'
      <4> SUFFICES ASSUME NEW cx \in 0..(HalfOf(Width) - 1), NEW cy \in 0..row
                   PROVE  /\ planes'[CbIndex(cx, cy)'] = Chrominance(cx, cy)'.cb
                          /\ planes'[CrIndex(cx, cy)'] = Chrominance(cx, cy)'.cr
        BY <1>6, <3>2 DEF ChromaDone
      <4> QED BY <1>1, <1>3, SameSource
    <3> QED BY <3>1, <3>3
  <2> QED BY <1>1, <1>4, <1>5, <2>1, <2>2 DEF PlanarInv, Written
<1>9. CASE ~(row + 1 < HalfOf(Height))
  <2>1. stage' = "converted" /\ row + 1 = HalfOf(Height)
    BY <1>1, <1>2, <1>7, <1>9 DEF NextRow
  <2>2. ChromaDone(HalfOf(Height))'
    <3>1. 0..(HalfOf(Height)' - 1) = 0..row
      BY <1>2, <1>6, <2>1
    <3> SUFFICES ASSUME NEW cx \in 0..(HalfOf(Width) - 1), NEW cy \in 0..row
                 PROVE  /\ planes'[CbIndex(cx, cy)'] = Chrominance(cx, cy)'.cb
                        /\ planes'[CrIndex(cx, cy)'] = Chrominance(cx, cy)'.cr
      BY <1>6, <3>1 DEF ChromaDone
    <3> QED BY <1>1, <1>3, SameSource
  <2> QED BY <1>1, <1>4, <1>5, <2>1, <2>2 DEF PlanarInv, Written
<1> QED BY <1>8, <1>9

\* A plane that is copied with another stride is read as it was.
ReadAsBefore(first, stride, rows, bytes, x, y) ==
    CopiedPlane(first, stride, rows, bytes).bytes[y * stride + x] = planes[first + y * bytes + x]

\* It is so for every byte of a row.
LEMMA CopyIsRead ==
    ASSUME NEW first, NEW stride, stride \in Nat, NEW rows, rows \in Nat, NEW bytes, bytes \in Nat \ {0},
           bytes <= stride, NEW x, x \in Nat, x < bytes, NEW y, y \in Nat, y < rows
    PROVE  ReadAsBefore(first, stride, rows, bytes, x, y)
<1> DEFINE i == y * stride + x
<1>1. stride \in Nat \ {0} /\ x < stride
  OBVIOUS
<1>2. i \in Nat /\ i \div stride = y /\ i % stride = x /\ i < rows * stride
  BY <1>1, PlaceInRow, PlaceIsInside
<1>3. rows * stride \in Nat
  OBVIOUS
<1> HIDE DEF i
<1>4. i \in 0..(rows * stride - 1)
  BY <1>2, <1>3
<1>5. CopiedPlane(first, stride, rows, bytes).bytes[i] = planes[first + y * bytes + x]
  BY <1>2, <1>4 DEF CopiedPlane
<1> QED BY <1>5 DEF i, ReadAsBefore

\* copy_planes keeps the invariant.
LEMMA CopyPlanesKeeps == ASSUME PlanarInv, CopyPlanes PROVE PlanarInv'
<1>1. UNCHANGED <<source, setting, row, planes>> /\ stage = "converted"
  BY DEF CopyPlanes
<1>2. \/ stage' \in {"BadConfig", "StrideTooSmall"}
      \/ stage' = "copied" /\ setting.format = "Nv12" /\ \E more \in Nat : pixelBuffer' = Copied(more)
  BY PlanarAssumption DEF CopyPlanes, Copied
<1>3. CASE stage' \in {"BadConfig", "StrideTooSmall"}
  BY <1>1, <1>3 DEF PlanarInv, Written
<1>4. CASE stage' = "copied" /\ setting.format = "Nv12" /\ \E more \in Nat : pixelBuffer' = Copied(more)
  <2>1. Copied(0)' = Copied(0) /\ \A more : Copied(more)' = Copied(more)
    BY <1>1, SameSource DEF Copied, CopiedPlane, LumaStride, ChromaStride, HalfOf
  <2>2. /\ Fits' /\ source.length' \in Nat /\ Need' <= source.length'
        /\ DOMAIN planes' = 0..(LumaSize + 2 * ChromaSize - 1)'
    BY <1>1, SameSource DEF PlanarInv, Written
  <2>3. LumaDone(Height)' /\ ChromaDone(HalfOf(Height))'
    <3>1. LumaDone(Height) /\ ChromaDone(HalfOf(Height))
      BY <1>1 DEF PlanarInv
    <3>2. LumaDone(Height)'
      BY <1>1, <3>1, SameSource DEF LumaDone
    <3>3. HalfOf(Width)' = HalfOf(Width) /\ HalfOf(Height)' = HalfOf(Height)
      BY <1>1, SameSource DEF HalfOf
    <3>4. ChromaDone(HalfOf(Height))'
      BY <1>1, <3>1, <3>3, SameSource DEF ChromaDone
    <3> QED BY <3>2, <3>4
  <2>4. \E more \in Nat : pixelBuffer' = Copied(more)'
    BY <1>4, <2>1
  <2> QED BY <1>1, <1>4, <2>2, <2>3, <2>4 DEF PlanarInv, Written
<1> QED BY <1>2, <1>3, <1>4

\* Framebuffer::from_decoded takes every pixel from its place.
LEMMA FromDecodedKeeps == ASSUME PlanarInv, FromDecoded PROVE PlanarInv'
<1>1. UNCHANGED <<source, setting, row, pixelBuffer>> /\ stage' = "shown"
  BY DEF FromDecoded
<1>2. Fits
  BY PlanarAssumption DEF FromDecoded, PlanarInv, Fits, Width, Height
<1>3. ASSUME NEW x \in 0..(Width - 1), NEW y \in 0..(Height - 1)
      PROVE  planes'[y * Width + x] = source.pixels[<<x, y>>]
  <2> DEFINE i == y * Width + x
  <2>1. /\ Width \in Nat \ {0} /\ Height \in Nat \ {0} /\ x \in Nat /\ x < Width /\ y \in Nat /\ y < Height
        /\ LumaSize = Height * Width
    BY <1>2 DEF Fits, LumaSize
  <2>2. i \in Nat /\ i < Height * Width /\ i \div Width = y /\ i % Width = x
    BY <2>1, PlaceInRow, PlaceIsInside
  <2>3. LumaSize \in Nat
    BY <1>2, SizesAreNumbers
  <2> HIDE DEF i
  <2>4. i \in 0..(LumaSize - 1)
    BY <2>1, <2>2, <2>3
  <2>5. planes'[i] = PixelAt(Offset(i % Width, i \div Width))
    BY <2>4 DEF FromDecoded
  <2>6. PixelAt(Offset(x, y)) = source.pixels[<<x, y>>]
    BY <1>2, PixelIsRead
  <2> QED BY <2>2, <2>5, <2>6 DEF i
<1>4. \A x \in 0..(Width' - 1), y \in 0..(Height' - 1) : planes'[y * Width' + x] = source'.pixels[<<x, y>>]
  BY <1>1, <1>3, SameSource
<1> QED BY <1>1, <1>4 DEF PlanarInv, Written

\* Every step keeps it.
LEMMA PlanarStep == PlanarInv /\ [PlanarNext]_planarVars => PlanarInv'
<1> SUFFICES ASSUME PlanarInv, [PlanarNext]_planarVars PROVE PlanarInv'
  OBVIOUS
<1>1. CASE UNCHANGED planarVars
  <2>1. UNCHANGED <<source, setting>> /\ stage' = stage /\ row' = row /\ planes' = planes /\ pixelBuffer' = pixelBuffer
    BY <1>1 DEF planarVars
  <2>2. HalfOf(Width)' = HalfOf(Width) /\ HalfOf(Height)' = HalfOf(Height)
    BY <2>1, SameSource DEF HalfOf
  <2>3. \A n : LumaDone(n)' = LumaDone(n)
    BY <2>1, SameSource DEF LumaDone
  <2>4. \A n : ChromaDone(n)' = ChromaDone(n)
    BY <2>1, <2>2, SameSource DEF ChromaDone
  <2>5. \A more : Copied(more)' = Copied(more)
    BY <2>1, <2>2, SameSource DEF Copied, CopiedPlane, LumaStride, ChromaStride
  <2>6. /\ LumaDone(row)' = LumaDone(row) /\ LumaDone(Height)' = LumaDone(Height)
        /\ ChromaDone(row)' = ChromaDone(row) /\ ChromaDone(HalfOf(Height))' = ChromaDone(HalfOf(Height))
    BY <2>1, <2>2, SameSource DEF LumaDone, ChromaDone
  <2>7. Written' = Written
    BY <2>1 DEF Written
  <2> QED BY <2>1, <2>2, <2>5, <2>6, <2>7, SameSource DEF PlanarInv
<1> QED BY <1>1, ValidateKeeps, LumaRowKeeps, ChromaRowKeeps, CopyPlanesKeeps, FromDecodedKeeps DEF PlanarNext

\* What a reader finds, in the frame and in the copy.
LEMMA PlanesAreRead ==
    ASSUME PlanarInv, stage \in {"converted", "copied"}
    PROVE  /\ \A x \in 0..(Width - 1), y \in 0..(Height - 1) : LumaRead(x, y) = Luminance(x, y)
           /\ \A cx \in 0..(HalfOf(Width) - 1), cy \in 0..(HalfOf(Height) - 1) :
                 ChromaRead(cx, cy) = <<Chrominance(cx, cy).cb, Chrominance(cx, cy).cr>>
<1>1. Fits /\ LumaDone(Height) /\ ChromaDone(HalfOf(Height)) /\ setting \in Settings
  BY DEF PlanarInv, Written
<1>2. /\ LumaSize \in Nat /\ ChromaSize \in Nat /\ HalfOf(Width) \in Nat \ {0} /\ HalfOf(Height) \in Nat \ {0}
      /\ Width \in Nat \ {0} /\ Height \in Nat \ {0}
  BY <1>1, SizesAreNumbers DEF Fits
<1>3. CASE stage = "copied"
  <2>1. PICK more \in Nat : pixelBuffer = Copied(more)
    BY <1>3 DEF PlanarInv
  <2>2. setting.format = "Nv12" /\ ChromaStride = 2 * HalfOf(Width) /\ LumaStride = Width
    BY <1>2, <1>3 DEF PlanarInv, ChromaStride, LumaStride
  <2>3. /\ pixelBuffer[1] = CopiedPlane(0, Width + more, Height, Width)
        /\ pixelBuffer[2] = CopiedPlane(LumaSize, 2 * HalfOf(Width) + more, HalfOf(Height), 2 * HalfOf(Width))
    BY <2>1, <2>2 DEF Copied
  <2>4. pixelBuffer[1].stride = Width + more /\ pixelBuffer[2].stride = 2 * HalfOf(Width) + more
    BY <2>3 DEF CopiedPlane
  <2>5. ASSUME NEW x \in 0..(Width - 1), NEW y \in 0..(Height - 1)
        PROVE  LumaRead(x, y) = Luminance(x, y)
    <3>1. x \in Nat /\ x < Width /\ y \in Nat /\ y < Height /\ Width + more \in Nat /\ Width <= Width + more
      BY <1>2
    <3>2. pixelBuffer[1].bytes[y * (Width + more) + x] = planes[0 + y * Width + x]
      <4>1. ReadAsBefore(0, Width + more, Height, Width, x, y)
        BY <1>2, <3>1, CopyIsRead
      <4> QED BY <2>3, <4>1 DEF ReadAsBefore
    <3>3. 0 + y * Width + x = y * Width + x
      <4>1. y * Width \in Nat
        BY <1>2, <3>1
      <4> QED BY <3>1, <4>1
    <3>4. planes[y * Width + x] = Luminance(x, y)
      BY <1>1 DEF LumaDone
    <3> QED BY <1>3, <2>4, <3>2, <3>3, <3>4 DEF LumaRead
  <2>6. ASSUME NEW cx \in 0..(HalfOf(Width) - 1), NEW cy \in 0..(HalfOf(Height) - 1)
        PROVE  ChromaRead(cx, cy) = <<Chrominance(cx, cy).cb, Chrominance(cx, cy).cr>>
    <3> DEFINE w == 2 * HalfOf(Width)
               s == w + more
    <3>1. /\ cx \in Nat /\ 2 * cx \in Nat /\ 2 * cx + 1 \in Nat /\ 2 * cx < w /\ 2 * cx + 1 < w
          /\ cy \in Nat /\ cy < HalfOf(Height) /\ w \in Nat \ {0} /\ s \in Nat /\ w <= s
      BY <1>2
    <3> HIDE DEF w, s
    <3>2. pixelBuffer[2] = CopiedPlane(LumaSize, s, HalfOf(Height), w) /\ pixelBuffer[2].stride = s
      BY <2>3, <2>4 DEF w, s
    <3>3. pixelBuffer[2].bytes[cy * s + 2 * cx] = planes[LumaSize + cy * w + 2 * cx]
      <4>1. ReadAsBefore(LumaSize, s, HalfOf(Height), w, 2 * cx, cy)
        BY <1>2, <3>1, CopyIsRead
      <4> QED BY <3>2, <4>1 DEF ReadAsBefore
    <3>4. pixelBuffer[2].bytes[cy * s + (2 * cx + 1)] = planes[LumaSize + cy * w + (2 * cx + 1)]
      <4>1. ReadAsBefore(LumaSize, s, HalfOf(Height), w, 2 * cx + 1, cy)
        BY <1>2, <3>1, CopyIsRead
      <4> QED BY <3>2, <4>1 DEF ReadAsBefore
    <3>5. (cy * s + 2 * cx) + 1 = cy * s + (2 * cx + 1)
      <4>1. cy * s \in Nat
        BY <3>1
      <4> QED BY <3>1, <4>1
    <3>6. LumaSize + cy * w + 2 * cx = CbIndex(cx, cy) /\ LumaSize + cy * w + (2 * cx + 1) = CrIndex(cx, cy)
      <4> DEFINE h == HalfOf(Width)
      <4>1. CbIndex(cx, cy) = LumaSize + 2 * Number(cx, cy) /\ CrIndex(cx, cy) = LumaSize + (2 * Number(cx, cy) + 1)
        BY <1>1, <2>2, NumbersAreDistinct
      <4>2. Number(cx, cy) = cy * h + cx
        BY DEF Number
      <4>3. w = 2 * h /\ h \in Nat
        BY <1>2 DEF w
      <4> HIDE DEF h
      <4>4. cy * w = 2 * (cy * h) /\ cy * h \in Nat
        BY <3>1, <4>3
      <4> QED BY <1>2, <3>1, <4>1, <4>2, <4>4
    <3>7. /\ planes[CbIndex(cx, cy)] = Chrominance(cx, cy).cb
          /\ planes[CrIndex(cx, cy)] = Chrominance(cx, cy).cr
      BY <1>1 DEF ChromaDone
    <3>8. ChromaRead(cx, cy) = <<pixelBuffer[2].bytes[cy * s + 2 * cx], pixelBuffer[2].bytes[(cy * s + 2 * cx) + 1]>>
      BY <1>3, <3>2 DEF ChromaRead
    <3> QED BY <3>3, <3>4, <3>5, <3>6, <3>7, <3>8
  <2> QED BY <2>5, <2>6
<1>4. CASE stage = "converted"
  <2>1. \A x \in 0..(Width - 1), y \in 0..(Height - 1) : LumaRead(x, y) = Luminance(x, y)
    BY <1>1, <1>4 DEF LumaRead, LumaDone, LumaStride
  <2>2. ASSUME NEW cx \in 0..(HalfOf(Width) - 1), NEW cy \in 0..(HalfOf(Height) - 1)
        PROVE  ChromaRead(cx, cy) = <<Chrominance(cx, cy).cb, Chrominance(cx, cy).cr>>
    <3> DEFINE h == HalfOf(Width)
               n == Number(cx, cy)
               at == LumaSize + cy * ChromaStride
    <3>1. /\ planes[CbIndex(cx, cy)] = Chrominance(cx, cy).cb
          /\ planes[CrIndex(cx, cy)] = Chrominance(cx, cy).cr
      BY <1>1 DEF ChromaDone
    <3>2. /\ n \in Nat
          /\ CbIndex(cx, cy) = LumaSize + (IF setting.format = "Nv12" THEN 2 * n ELSE n)
          /\ CrIndex(cx, cy) = LumaSize + (IF setting.format = "Nv12" THEN 2 * n + 1 ELSE n + ChromaSize)
      BY <1>1, NumbersAreDistinct
    <3>3. n = cy * h + cx /\ cx \in Nat /\ cy \in Nat /\ h \in Nat
      BY <1>2 DEF Number
    <3> HIDE DEF n
    <3>4. CASE setting.format = "Nv12"
      <4>1. ChromaStride = 2 * h
        BY <1>2, <3>4 DEF ChromaStride
      <4> HIDE DEF h
      <4>2. cy * ChromaStride = 2 * (cy * h) /\ cy * h \in Nat
        BY <3>3, <4>1
      <4>3. at + 2 * cx = CbIndex(cx, cy) /\ at + 2 * cx + 1 = CrIndex(cx, cy)
        BY <1>2, <3>2, <3>3, <3>4, <4>2
      <4>4. ChromaRead(cx, cy) = <<planes[at + 2 * cx], planes[at + 2 * cx + 1]>>
        BY <1>4, <3>4 DEF ChromaRead
      <4> QED BY <3>1, <4>3, <4>4
    <3>5. CASE setting.format # "Nv12"
      <4>1. ChromaStride = h
        BY <1>2, <3>5 DEF ChromaStride
      <4> HIDE DEF h
      <4>2. cy * ChromaStride = cy * h /\ cy * h \in Nat
        BY <3>3, <4>1
      <4>3. at + cx = CbIndex(cx, cy) /\ at + cx + ChromaSize = CrIndex(cx, cy)
        BY <1>2, <3>2, <3>3, <3>5, <4>2
      <4>4. ChromaRead(cx, cy) = <<planes[at + cx], planes[at + cx + ChromaSize]>>
        BY <1>4, <3>5 DEF ChromaRead
      <4> QED BY <3>1, <4>3, <4>4
    <3> QED BY <3>4, <3>5
  <2> QED BY <2>1, <2>2
<1> QED BY <1>3, <1>4

\* No byte of the buffer is left unwritten.
LEMMA EveryByteIsWritten ==
    ASSUME PlanarInv, stage \in {"converted", "copied"}, NEW i \in DOMAIN planes
    PROVE  planes[i] # Unwritten
<1>1. /\ Fits /\ LumaDone(Height) /\ ChromaDone(HalfOf(Height)) /\ setting \in Settings
      /\ i \in 0..(LumaSize + 2 * ChromaSize - 1)
  BY DEF PlanarInv, Written
<1>2. /\ LumaSize \in Nat /\ ChromaSize \in Nat /\ Width \in Nat \ {0} /\ Height \in Nat \ {0}
      /\ LumaSize = Height * Width
  BY <1>1, SizesAreNumbers DEF Fits, LumaSize
<1>3. CASE i < LumaSize
  <2>1. i \in Nat /\ i < Height * Width
    BY <1>1, <1>2, <1>3
  <2>2. /\ i \div Width \in 0..(Height - 1) /\ i % Width \in 0..(Width - 1)
        /\ i = (i \div Width) * Width + (i % Width)
    BY <1>2, <2>1, PlaceOfNumber
  <2>3. planes[i] = Luminance(i % Width, i \div Width)
    BY <1>1, <2>2 DEF LumaDone
  <2> QED BY <1>1, <2>2, <2>3, LumaIsWritten
<1>4. CASE ~(i < LumaSize)
  <2>1. i \in LumaSize..(LumaSize + 2 * ChromaSize - 1)
    BY <1>1, <1>2, <1>4
  <2>2. PICK cx \in 0..(HalfOf(Width) - 1), cy \in 0..(HalfOf(Height) - 1) : i = CbIndex(cx, cy) \/ i = CrIndex(cx, cy)
    BY <1>1, <2>1, EveryByteHasASample
  <2>3. planes[i] = Chrominance(cx, cy).cb \/ planes[i] = Chrominance(cx, cy).cr
    BY <1>1, <2>2 DEF ChromaDone
  <2>4. Chrominance(cx, cy).cb # Unwritten /\ Chrominance(cx, cy).cr # Unwritten
    BY <1>1, SamplesAreWritten
  <2> QED BY <2>3, <2>4
<1> QED BY <1>3, <1>4

\* The invariant implies what the run checks.
LEMMA PlanesAreRight == PlanarInv => PlanesAreTrue
<1> SUFFICES ASSUME PlanarInv PROVE PlanesAreTrue
  OBVIOUS
<1>1. CASE stage \in {"converted", "copied"}
  <2>1. Fits /\ setting \in Settings
    BY <1>1 DEF PlanarInv, Written
  <2>2. \A i \in DOMAIN planes : planes[i] # Unwritten
    BY <1>1, EveryByteIsWritten
  <2>3. ASSUME NEW x \in 0..(Width - 1), NEW y \in 0..(Height - 1)
        PROVE  LumaIsTrue(LumaRead(x, y), source.pixels[<<x, y>>])
    <3>1. LumaRead(x, y) = Luminance(x, y)
      BY <1>1, PlanesAreRead
    <3> QED BY <2>1, <3>1, LumaIsWritten
  <2>4. ASSUME NEW cx \in 0..(HalfOf(Width) - 1), NEW cy \in 0..(HalfOf(Height) - 1)
        PROVE  LET sum == BlockSum(cx, cy)
               IN  /\ DifferenceIsTrue(ChromaRead(cx, cy)[1], 3, sum)
                   /\ DifferenceIsTrue(ChromaRead(cx, cy)[2], 1, sum)
                   /\ (sum[1] = sum[2] /\ sum[2] = sum[3]) => ChromaRead(cx, cy) = <<128, 128>>
    <3>1. ChromaRead(cx, cy) = <<Chrominance(cx, cy).cb, Chrominance(cx, cy).cr>>
      BY <1>1, PlanesAreRead
    <3> QED BY <2>1, <3>1, SamplesAreTrue
  <2> QED BY <1>1, <2>2, <2>3, <2>4 DEF PlanesAreTrue
<1>2. CASE stage \notin {"converted", "copied"}
  BY <1>2 DEF PlanarInv, PlanesAreTrue
<1> QED BY <1>1, <1>2

\* The planes hold the colours of the standard in the places their readers look
\* (PlanesAreTrue), for every size, stride, alignment, matrix, range and format
\* (bgra_to_planar, copy_planes, from_decoded).
THEOREM PlanesStayTrue == PlanarSpec => []PlanesAreTrue
  BY PlanarInitially, PlanarStep, PlanesAreRight, PTL DEF PlanarSpec

-----------------------------------------------------------------------------
(* The bitstream                                                           *)

\* data is parts, one after the other; part k ends at ends[k].
LaidOut(data, parts, ends) ==
    /\ data \in Seq(Nat) /\ Len(parts) \in Nat
    /\ ends \in [0..Len(parts) -> Nat] /\ ends[0] = 0 /\ Len(data) = ends[Len(parts)]
    /\ \A k \in 1..Len(parts) :
         /\ parts[k] \in Seq(Nat) /\ ends[k] = ends[k - 1] + Len(parts[k]) /\ ends[k] <= Len(data)
         /\ \A j \in 1..Len(parts[k]) : data[ends[k - 1] + j] = parts[k][j]

\* The function that FlattenSeq defines by recursion.
LEMMA FlatteningExists ==
    ASSUME NEW ss \in Seq(Seq(Nat)), Len(ss) > 0
    PROVE  \E g : /\ g = [i \in 1..Len(ss) |-> IF i = 1 THEN ss[i] ELSE g[i - 1] \o ss[i]]
                  /\ g \in [1..Len(ss) -> Seq(Nat)]
<1> DEFINE n == Len(ss)
           Good(g, m) == /\ g \in [1..m -> Seq(Nat)]
                         /\ \A i \in 1..m : g[i] = IF i = 1 THEN ss[i] ELSE g[i - 1] \o ss[i]
           K == {m \in Nat : m + 1 <= n => \E g : Good(g, m + 1)}
<1>1. n \in Nat /\ n >= 1 /\ \A i \in 1..n : ss[i] \in Seq(Nat)
  BY LenProperties, ElementOfSeq
<1>2. 0 \in K
  <2> DEFINE g1 == [i \in 1..1 |-> ss[1]]
  <2>1. g1 \in [1..1 -> Seq(Nat)] /\ \A i \in 1..1 : i = 1 /\ g1[i] = ss[i]
    BY <1>1
  <2>2. Good(g1, 1)
    BY <2>1
  <2>3. 0 + 1 = 1
    OBVIOUS
  <2> HIDE DEF Good, g1
  <2> QED BY <2>2, <2>3
<1>3. ASSUME NEW m \in K \cap Nat PROVE m + 1 \in K
  <2> SUFFICES ASSUME m + 2 <= n PROVE \E g : Good(g, m + 2)
    <3>1. (m + 1) + 1 = m + 2 /\ m + 1 \in Nat
      OBVIOUS
    <3> HIDE DEF Good
    <3> QED BY <3>1
  <2>1. PICK g : Good(g, m + 1)
    <3>1. m + 1 <= n
      BY <1>1
    <3> HIDE DEF Good
    <3> QED BY <3>1
  <2> DEFINE last == g[m + 1] \o ss[m + 2]
             h == [i \in 1..(m + 2) |-> IF i = m + 2 THEN last ELSE g[i]]
  <2>2. last \in Seq(Nat)
    <3>1. g[m + 1] \in Seq(Nat) /\ ss[m + 2] \in Seq(Nat)
      BY <1>1, <2>1
    <3> QED BY <3>1, ConcatProperties
  <2>3. h \in [1..(m + 2) -> Seq(Nat)]
    <3> HIDE DEF last
    <3> QED BY <2>1, <2>2
  <2>4. ASSUME NEW i \in 1..(m + 2) PROVE h[i] = IF i = 1 THEN ss[i] ELSE h[i - 1] \o ss[i]
    <3>1. CASE i = m + 2
      <4>0. i # 1 /\ i - 1 = m + 1 /\ m + 1 \in 1..(m + 2) /\ m + 1 # m + 2
        BY <3>1
      <4>1. h[i] = last
        BY <3>1
      <4>2. h[m + 1] = g[m + 1]
        BY <4>0
      <4> QED BY <3>1, <4>0, <4>1, <4>2
    <3>2. CASE i # m + 2
      <4>1. i \in 1..(m + 1) /\ h[i] = g[i]
        BY <3>2
      <4>2. i # 1 => h[i - 1] = g[i - 1]
        <5>1. i # 1 => i - 1 \in 1..(m + 2) /\ i - 1 # m + 2
          BY <4>1
        <5> QED BY <5>1
      <4>3. g[i] = IF i = 1 THEN ss[i] ELSE g[i - 1] \o ss[i]
        BY <2>1, <4>1
      <4> HIDE DEF h
      <4> QED BY <4>1, <4>2, <4>3
    <3> QED BY <3>1, <3>2
  <2> HIDE DEF h
  <2>5. Good(h, m + 2)
    BY <2>3, <2>4
  <2> HIDE DEF Good
  <2> QED BY <2>5
<1>4. Nat \subseteq K
  <2> HIDE DEF K
  <2> QED BY <1>2, <1>3, InductionOverNat
<1>5. PICK g : Good(g, n)
  <2> HIDE DEF Good
  <2>1. n - 1 \in Nat /\ (n - 1) + 1 = n /\ (n - 1) + 1 <= n
    BY <1>1
  <2>2. n - 1 \in K
    BY <1>4, <2>1
  <2> QED BY <2>1, <2>2
<1>6. g = [i \in 1..n |-> IF i = 1 THEN ss[i] ELSE g[i - 1] \o ss[i]] /\ g \in [1..n -> Seq(Nat)]
  BY <1>5
<1> QED BY <1>6

\* FlattenSeq is the last of its values.
LEMMA FlatteningIs ==
    ASSUME NEW ss \in Seq(Seq(Nat)), Len(ss) > 0
    PROVE  \E g \in [1..Len(ss) -> Seq(Nat)] :
              /\ \A i \in 1..Len(ss) : g[i] = IF i = 1 THEN ss[i] ELSE g[i - 1] \o ss[i]
              /\ FlattenSeq(ss) = g[Len(ss)]
<1> DEFINE n == Len(ss)
           f == CHOOSE g : g = [i \in 1..n |-> IF i = 1 THEN ss[i] ELSE g[i - 1] \o ss[i]]
           K == {m \in Nat : m + 1 <= n => f[m + 1] \in Seq(Nat)}
<1>1. FlattenSeq(ss) = f[n]
  BY DEF FlattenSeq
<1>2. \E g : g = [i \in 1..n |-> IF i = 1 THEN ss[i] ELSE g[i - 1] \o ss[i]]
  BY FlatteningExists
<1>3. f = [i \in 1..n |-> IF i = 1 THEN ss[i] ELSE f[i - 1] \o ss[i]]
  BY <1>2
<1> HIDE DEF f
<1>4. n \in Nat /\ n >= 1 /\ \A i \in 1..n : ss[i] \in Seq(Nat)
  BY LenProperties, ElementOfSeq
<1>5. \A i \in 1..n : f[i] = IF i = 1 THEN ss[i] ELSE f[i - 1] \o ss[i]
  BY <1>3
<1>6. 0 \in K
  BY <1>4, <1>5
<1>7. ASSUME NEW m \in K \cap Nat PROVE m + 1 \in K
  <2> SUFFICES ASSUME m + 2 <= n PROVE f[m + 2] \in Seq(Nat)
    <3>1. (m + 1) + 1 = m + 2 /\ m + 1 \in Nat
      OBVIOUS
    <3> QED BY <3>1
  <2>1. m + 2 \in 1..n /\ m + 2 # 1 /\ (m + 2) - 1 = m + 1 /\ m + 1 <= n
    BY <1>4
  <2>2. f[m + 1] \in Seq(Nat) /\ ss[m + 2] \in Seq(Nat)
    BY <1>4, <2>1
  <2>3. f[m + 2] = f[m + 1] \o ss[m + 2]
    BY <1>5, <2>1
  <2> QED BY <2>2, <2>3, ConcatProperties
<1>8. Nat \subseteq K
  <2> HIDE DEF K
  <2> QED BY <1>6, <1>7, InductionOverNat
<1>9. \A i \in 1..n : f[i] \in Seq(Nat)
  <2> TAKE i \in 1..n
  <2>1. i - 1 \in Nat /\ (i - 1) + 1 = i /\ i <= n
    BY <1>4
  <2> QED BY <1>8, <2>1
<1>10. f \in [1..n -> Seq(Nat)]
  BY <1>3, <1>9
<1> QED BY <1>1, <1>5, <1>10

\* So what it makes of sequences is these, one after the other.
LEMMA FlattenOf ==
    ASSUME NEW ss \in Seq(Seq(Nat))
    PROVE  \E ends : LaidOut(FlattenSeq(ss), ss, ends)
<1> DEFINE n == Len(ss)
<1>1. n \in Nat /\ \A i \in 1..n : ss[i] \in Seq(Nat) /\ Len(ss[i]) \in Nat
  BY LenProperties, ElementOfSeq
<1>2. CASE n = 0
  <2>1. ss = <<>>
    BY <1>2, EmptySeq
  <2>2. FlattenSeq(ss) = ss
    BY <1>2 DEF FlattenSeq
  <2>3. LaidOut(ss, ss, [k \in 0..0 |-> 0])
    BY <1>2, <2>1, EmptySeq DEF LaidOut
  <2> QED BY <2>2, <2>3
<1>3. CASE n > 0
  <2>1. PICK g \in [1..n -> Seq(Nat)] :
           /\ \A i \in 1..n : g[i] = IF i = 1 THEN ss[i] ELSE g[i - 1] \o ss[i]
           /\ FlattenSeq(ss) = g[n]
    BY <1>3, FlatteningIs
  <2> DEFINE ends == [k \in 0..n |-> IF k = 0 THEN 0 ELSE Len(g[k])]
  <2>2. ends \in [0..n -> Nat] /\ ends[0] = 0 /\ \A k \in 1..n : ends[k] = Len(g[k])
    <3>1. \A k \in 1..n : g[k] \in Seq(Nat) /\ Len(g[k]) \in Nat
      BY LenProperties
    <3>2. \A k \in 0..n : k = 0 \/ k \in 1..n
      BY <1>1
    <3>3. \A k \in 1..n : k \in 0..n /\ k # 0
      BY <1>1
    <3>4. 0 \in 0..n
      BY <1>1
    <3> QED BY <3>1, <3>2, <3>3, <3>4
  <2> HIDE DEF ends
  <2>3. ASSUME NEW k \in 1..n
        PROVE  /\ ends[k] = ends[k - 1] + Len(ss[k]) /\ ends[k - 1] \in Nat /\ ends[k] \in Nat
               /\ \A j \in 1..Len(ss[k]) : g[k][ends[k - 1] + j] = ss[k][j]
               /\ \A j \in 1..ends[k - 1] : g[k][j] = g[k - 1][j]
    <3>1. ends[k - 1] \in Nat /\ ends[k] \in Nat
      <4>1. k - 1 \in 0..n /\ k \in 0..n
        BY <1>1
      <4> QED BY <2>2, <4>1
    <3>2. CASE k = 1
      <4>0. k - 1 = 0
        BY <3>2
      <4>1. g[k] = ss[k] /\ ends[k - 1] = 0
        BY <2>1, <2>2, <3>2, <4>0
      <4>2. Len(ss[k]) \in Nat
        BY <1>1
      <4>3. \A j \in 1..Len(ss[k]) : 0 + j = j
        BY <4>2
      <4>4. ends[k] = 0 + Len(ss[k])
        BY <2>2, <4>1, <4>2
      <4> QED BY <3>1, <4>1, <4>3, <4>4
    <3>3. CASE k # 1
      <4>1. k - 1 \in 1..n
        BY <1>1, <3>3
      <4>2. g[k] = g[k - 1] \o ss[k] /\ g[k - 1] \in Seq(Nat) /\ ss[k] \in Seq(Nat)
        BY <1>1, <2>1, <3>3, <4>1
      <4>3. ends[k - 1] = Len(g[k - 1]) /\ ends[k] = Len(g[k])
        BY <2>2, <4>1
      <4>4. /\ Len(g[k - 1] \o ss[k]) = Len(g[k - 1]) + Len(ss[k])
            /\ \A j \in 1..Len(g[k - 1]) : (g[k - 1] \o ss[k])[j] = g[k - 1][j]
            /\ \A j \in 1..Len(ss[k]) : (g[k - 1] \o ss[k])[Len(g[k - 1]) + j] = ss[k][j]
        <5> DEFINE x == g[k - 1]  y == ss[k]
        <5>1. x \in Seq(Nat) /\ y \in Seq(Nat)
          BY <4>2
        <5> HIDE DEF x, y
        <5>2. /\ Len(x \o y) = Len(x) + Len(y)
              /\ \A j \in 1..Len(x) : (x \o y)[j] = x[j]
              /\ \A j \in 1..Len(y) : (x \o y)[Len(x) + j] = y[j]
          BY <5>1, JoinOf
        <5> QED BY <5>2 DEF x, y
      <4> QED BY <3>1, <4>2, <4>3, <4>4
    <3> QED BY <3>1, <3>2, <3>3
  <2> DEFINE Whole(m) == \A k \in 1..m : /\ ends[k] <= ends[m]
                                         /\ \A j \in 1..Len(ss[k]) : g[m][ends[k - 1] + j] = ss[k][j]
             K == {m \in Nat : m <= n => Whole(m)}
  <2>4. 0 \in K
    OBVIOUS
  <2>5. ASSUME NEW m \in K \cap Nat PROVE m + 1 \in K
    <3> SUFFICES ASSUME m + 1 <= n, NEW k \in 1..(m + 1)
                 PROVE  /\ ends[k] <= ends[m + 1]
                        /\ \A j \in 1..Len(ss[k]) : g[m + 1][ends[k - 1] + j] = ss[k][j]
      <4>1. m + 1 \in Nat
        OBVIOUS
      <4> QED BY <4>1
    <3>1. m + 1 \in 1..n /\ (m + 1) - 1 = m /\ m \in 0..n /\ k \in 1..n /\ k - 1 \in 0..n
      BY <1>1
    <3>2. /\ ends[m + 1] = ends[m] + Len(ss[m + 1]) /\ ends[m] \in Nat /\ ends[m + 1] \in Nat
          /\ \A j \in 1..Len(ss[m + 1]) : g[m + 1][ends[m] + j] = ss[m + 1][j]
          /\ \A j \in 1..ends[m] : g[m + 1][j] = g[m][j]
      <4> DEFINE q == m + 1
      <4>1. q \in 1..n /\ q - 1 = m
        BY <3>1
      <4> HIDE DEF q
      <4>2. /\ ends[q] = ends[q - 1] + Len(ss[q]) /\ ends[q - 1] \in Nat /\ ends[q] \in Nat
            /\ \A j \in 1..Len(ss[q]) : g[q][ends[q - 1] + j] = ss[q][j]
            /\ \A j \in 1..ends[q - 1] : g[q][j] = g[q - 1][j]
        BY <2>3, <4>1
      <4> QED BY <4>1, <4>2 DEF q
    <3>3. CASE k = m + 1
      <4>1. k - 1 = m
        BY <3>3
      <4>2. ends[k] <= ends[m + 1]
        <5> DEFINE e == ends[m + 1]
        <5>1. e \in Nat /\ ends[k] = e
          BY <3>2, <3>3
        <5> HIDE DEF e
        <5>2. ends[k] <= e
          BY <5>1
        <5> QED BY <5>2 DEF e
      <4> QED BY <3>2, <3>3, <4>1, <4>2
    <3>4. CASE k # m + 1
      <4>1. k \in 1..m /\ m <= n
        BY <3>1, <3>4
      <4>2. ends[k] <= ends[m] /\ \A j \in 1..Len(ss[k]) : g[m][ends[k - 1] + j] = ss[k][j]
        BY <4>1
      <4>3. Len(ss[m + 1]) \in Nat /\ Len(ss[k]) \in Nat
        BY <1>1, <3>1
      <4>4. ends[k] = ends[k - 1] + Len(ss[k]) /\ ends[k - 1] \in Nat /\ ends[k] \in Nat
        BY <2>3, <3>1
      <4>5. ends[k] <= ends[m + 1]
        BY <3>2, <4>2, <4>3, <4>4
      <4>6. \A j \in 1..Len(ss[k]) : ends[k - 1] + j \in 1..ends[m]
        <5> DEFINE a == ends[k - 1]  b == ends[m]  l == Len(ss[k])
        <5>1. a \in Nat /\ b \in Nat /\ l \in Nat /\ a + l <= b
          BY <3>2, <4>2, <4>3, <4>4
        <5> HIDE DEF a, b, l
        <5>2. \A j \in 1..l : a + j \in 1..b
          BY <5>1
        <5> QED BY <5>2 DEF a, b, l
      <4> QED BY <3>2, <4>2, <4>5, <4>6
    <3> QED BY <3>3, <3>4
  <2>6. Nat \subseteq K
    <3> HIDE DEF K
    <3> QED BY <2>4, <2>5, InductionOverNat
  <2>7. Whole(n)
    <3> HIDE DEF Whole
    <3> QED BY <1>1, <2>6
  <2>8. ends[n] = Len(g[n]) /\ g[n] \in Seq(Nat)
    BY <1>1, <1>3, <2>1, <2>2
  <2>9. LaidOut(g[n], ss, ends)
    BY <1>1, <2>2, <2>3, <2>7, <2>8 DEF LaidOut
  <2> QED BY <2>1, <2>9
<1> QED BY <1>1, <1>2, <1>3

\* The big-endian number at offset o.
SizeAt(avcc, o) == ((avcc[o + 1] * 256 + avcc[o + 2]) * 256 + avcc[o + 3]) * 256 + avcc[o + 4]

\* The recursion of AnnexBFrom, with g in the place of from.
FromBody(avcc, g, o) ==
    IF o = Len(avcc) THEN <<>>
    ELSE IF o + 4 > Len(avcc) THEN NotAvcc
    ELSE IF SizeAt(avcc, o) = 0 \/ o + 4 + SizeAt(avcc, o) > Len(avcc) THEN NotAvcc
    ELSE LET next == o + 4 + SizeAt(avcc, o)
         IN  IF g[next] = NotAvcc THEN NotAvcc
             ELSE START_CODE \o SubSeq(avcc, o + 5, next) \o g[next]

\* The length that is read is a number.
LEMMA SizeIsNatural ==
    ASSUME NEW avcc \in Seq(Nat), NEW o \in Nat, o + 4 <= Len(avcc)
    PROVE  SizeAt(avcc, o) \in Nat
<1>1. Len(avcc) \in Nat
  BY LenProperties
<1>2. o + 1 \in 1..Len(avcc) /\ o + 2 \in 1..Len(avcc) /\ o + 3 \in 1..Len(avcc) /\ o + 4 \in 1..Len(avcc)
  BY <1>1
<1>3. avcc[o + 1] \in Nat /\ avcc[o + 2] \in Nat /\ avcc[o + 3] \in Nat /\ avcc[o + 4] \in Nat
  BY <1>2, ElementOfSeq
<1> DEFINE a == avcc[o + 1]  b == avcc[o + 2]  c == avcc[o + 3]  d == avcc[o + 4]
<1>4. a \in Nat /\ b \in Nat /\ c \in Nat /\ d \in Nat
  BY <1>3
<1>5. SizeAt(avcc, o) = ((a * 256 + b) * 256 + c) * 256 + d
  BY DEF SizeAt
<1> HIDE DEF a, b, c, d
<1> QED BY <1>4, <1>5

\* It looks at later offsets only.
LEMMA FromLooksAhead ==
    ASSUME NEW avcc \in Seq(Nat), NEW o \in 0..Len(avcc), NEW g, NEW h,
           \A p \in (o + 1)..Len(avcc) : g[p] = h[p]
    PROVE  FromBody(avcc, g, o) = FromBody(avcc, h, o)
<1> DEFINE end == Len(avcc)
           size == SizeAt(avcc, o)
           next == o + 4 + size
<1>1. end \in Nat /\ o \in Nat
  BY LenProperties
<1>2. CASE o + 4 > end
  BY <1>1, <1>2 DEF FromBody
<1>3. CASE ~(o + 4 > end)
  <2>1. size \in Nat
    BY <1>1, <1>3, SizeIsNatural
  <2> HIDE DEF size
  <2>2. next > end \/ next \in (o + 1)..end
    BY <1>1, <2>1
  <2>3. CASE next > end
    BY <2>3 DEF FromBody, size
  <2>4. CASE next \in (o + 1)..end
    <3>1. g[next] = h[next]
      BY <2>4
    <3> QED BY <3>1 DEF FromBody, size
  <2> QED BY <2>2, <2>3, <2>4
<1> QED BY <1>2, <1>3

\* There is a function that satisfies the recursion of avcc_to_annex_b,
LEMMA FromExists ==
    ASSUME NEW avcc \in Seq(Nat)
    PROVE  \E g : g = [o \in 0..Len(avcc) |-> FromBody(avcc, g, o)]
<1> DEFINE end == Len(avcc)
           K == {m \in Nat : m <= end => \E g : g = [o \in (end - m)..end |-> FromBody(avcc, g, o)]}
<1>1. end \in Nat
  BY LenProperties
<1>2. 0 \in K
  <2> DEFINE g == [o \in (end - 0)..end |-> <<>>]
  <2>1. \A h, o : o \in (end - 0)..end => FromBody(avcc, h, o) = <<>>
    BY <1>1 DEF FromBody
  <2>2. g = [o \in (end - 0)..end |-> FromBody(avcc, g, o)]
    BY <2>1
  <2> HIDE DEF g
  <2> QED BY <2>2
<1>3. ASSUME NEW m \in K \cap Nat PROVE m + 1 \in K
  <2> SUFFICES ASSUME m + 1 <= end PROVE \E g : g = [o \in (end - (m + 1))..end |-> FromBody(avcc, g, o)]
    OBVIOUS
  <2>1. PICK g : g = [o \in (end - m)..end |-> FromBody(avcc, g, o)]
    <3>1. m <= end
      BY <1>1
    <3> QED BY <3>1
  <2> DEFINE first == end - (m + 1)
             D == first..end
             h == [o \in D |-> IF o = first THEN FromBody(avcc, g, first) ELSE g[o]]
  <2>2. first \in Nat /\ first < end /\ \A o \in D : o = first \/ o \in (end - m)..end
    BY <1>1
  <2>3. \A o \in (first + 1)..end : o \in D /\ o # first /\ o \in (end - m)..end /\ h[o] = g[o]
    <3>1. \A o \in (first + 1)..end : o \in D /\ o # first /\ o \in (end - m)..end
      BY <1>1, <2>2
    <3> HIDE DEF D, first
    <3> QED BY <3>1
  <2>4. ASSUME NEW o \in D PROVE h[o] = FromBody(avcc, h, o)
    <3>1. o \in 0..end /\ \A p \in (o + 1)..end : p \in (first + 1)..end
      BY <1>1, <2>2
    <3>2. \A p \in (o + 1)..end : g[p] = h[p]
      BY <2>3, <3>1
    <3> HIDE DEF h
    <3>3. FromBody(avcc, g, o) = FromBody(avcc, h, o)
      BY <3>1, <3>2, FromLooksAhead
    <3>4. h[o] = IF o = first THEN FromBody(avcc, g, first) ELSE g[o]
      BY DEF h
    <3>5. CASE o = first
      BY <3>3, <3>4, <3>5
    <3>6. CASE o # first
      <4>1. o \in (end - m)..end
        BY <2>2, <3>6
      <4>2. g[o] = FromBody(avcc, g, o)
        BY <2>1, <4>1
      <4> QED BY <3>3, <3>4, <3>6, <4>2
    <3> QED BY <3>5, <3>6
  <2>5. h = [o \in D |-> FromBody(avcc, h, o)]
    <3>1. h = [o \in D |-> h[o]]
      OBVIOUS
    <3> HIDE DEF h
    <3> QED BY <2>4, <3>1
  <2> HIDE DEF h
  <2> QED BY <2>5
<1>4. Nat \subseteq K
  <2> HIDE DEF K
  <2> QED BY <1>2, <1>3, InductionOverNat
<1>5. \E g : g = [o \in (end - end)..end |-> FromBody(avcc, g, o)]
  <2>1. end \in K /\ end <= end
    BY <1>1, <1>4
  <2> QED BY <2>1
<1>6. end - end = 0
  BY <1>1
<1> QED BY <1>5, <1>6

\* and AnnexBFrom is one.
LEMMA AnnexBFromIs ==
    ASSUME NEW avcc \in Seq(Nat), NEW o \in 0..Len(avcc)
    PROVE  AnnexBFrom(avcc)[o] = FromBody(avcc, AnnexBFrom(avcc), o)
<1> DEFINE f == CHOOSE g : g = [p \in 0..Len(avcc) |-> FromBody(avcc, g, p)]
<1>1. AnnexBFrom(avcc) = f
  BY DEF AnnexBFrom, FromBody, SizeAt
<1>2. f = [p \in 0..Len(avcc) |-> FromBody(avcc, f, p)]
  BY FromExists
<1> HIDE DEF f
<1> QED BY <1>1, <1>2

\* A part, and what is behind its first four bytes, in the whole.
LEMMA PartOf ==
    ASSUME NEW data, NEW parts, NEW ends, LaidOut(data, parts, ends), NEW k \in 1..Len(parts)
    PROVE  /\ ends[k - 1] \in Nat /\ ends[k] \in Nat /\ Len(parts[k]) \in Nat /\ Len(data) \in Nat
           /\ ends[k] = ends[k - 1] + Len(parts[k]) /\ ends[k] <= Len(data)
           /\ SubSeq(data, ends[k - 1] + 1, ends[k]) = parts[k]
<1> DEFINE a == ends[k - 1]
           b == ends[k]
           p == parts[k]
           s == SubSeq(data, a + 1, b)
<1>1. /\ data \in Seq(Nat) /\ p \in Seq(Nat) /\ b = a + Len(p) /\ b <= Len(data)
      /\ \A j \in 1..Len(p) : data[a + j] = p[j]
  BY DEF LaidOut
<1>2. a \in Nat /\ b \in Nat /\ Len(p) \in Nat /\ Len(data) \in Nat
  <2>1. k - 1 \in 0..Len(parts) /\ k \in 0..Len(parts)
    BY DEF LaidOut
  <2>2. a \in Nat /\ b \in Nat
    BY <2>1 DEF LaidOut
  <2> QED BY <1>1, <2>2, LenProperties
<1> HIDE DEF a, b, p
<1>3. \A i \in (a + 1)..b : data[i] \in Nat
  <2> TAKE i \in (a + 1)..b
  <2>1. i \in 1..Len(data)
    BY <1>1, <1>2
  <2> QED BY <1>1, <2>1, ElementOfSeq
<1>4. /\ s \in Seq(Nat) /\ Len(s) = (IF a + 1 <= b THEN b - (a + 1) + 1 ELSE 0)
      /\ \A i \in 1..(b - (a + 1) + 1) : s[i] = data[(a + 1) + i - 1]
  <2>1. a + 1 \in Int /\ b \in Int
    BY <1>2
  <2> QED BY <1>3, <2>1, SubSeqProperties
<1>5. Len(s) = Len(p) /\ b - (a + 1) + 1 = Len(p)
  BY <1>1, <1>2, <1>4
<1>6. \A i \in 1..Len(s) : s[i] = p[i]
  <2> TAKE i \in 1..Len(s)
  <2>1. i \in 1..Len(p) /\ (a + 1) + i - 1 = a + i /\ i \in 1..(b - (a + 1) + 1)
    BY <1>2, <1>5
  <2> HIDE DEF s
  <2> QED BY <1>1, <1>4, <2>1
<1>7. s = p
  <2> HIDE DEF s
  <2> QED BY <1>1, <1>4, <1>5, <1>6, SeqEqual
<1> QED BY <1>1, <1>2, <1>7 DEF a, b, p

\* part is four bytes and a body.
Headed(part, head, body) ==
    head \in Seq(Nat) /\ Len(head) = 4 /\ body \in Seq(Nat) /\ part = head \o body

\* The bytes of a head and of what follows it.
LEMMA HeadAndBody ==
    ASSUME NEW part, NEW head, NEW body, Headed(part, head, body)
    PROVE  /\ Len(part) = 4 + Len(body) /\ Len(body) \in Nat
           /\ \A j \in 1..4 : part[j] = head[j]
           /\ \A j \in 1..Len(body) : part[4 + j] = body[j]
<1>1. head \in Seq(Nat) /\ body \in Seq(Nat)
  BY DEF Headed
<1>5. Len(head) = 4
  BY DEF Headed
<1> DEFINE z == head \o body
<1>2. /\ Len(z) = Len(head) + Len(body)
      /\ \A j \in 1..Len(head) : z[j] = head[j]
      /\ \A j \in 1..Len(body) : z[Len(head) + j] = body[j]
  BY <1>1, JoinOf
<1>3. Len(body) \in Nat
  BY <1>1, LenProperties
<1> HIDE DEF z
<1>4. part = z
  BY DEF Headed, z
<1> QED BY <1>2, <1>3, <1>4, <1>5

\* From a on, up to b, data has a head of four bytes and a unit.
FramedAt(data, unit, head, a, b) ==
    /\ unit \in Seq(Nat) /\ Len(unit) \in Nat /\ a \in Nat /\ b = a + 4 + Len(unit) /\ b <= Len(data)
    /\ SubSeq(data, a + 1, b) = head \o unit
    /\ SubSeq(data, a + 5, b) = unit
    /\ \A j \in 1..4 : data[a + j] = head[j]
    /\ \A j \in 1..Len(unit) : data[a + 4 + j] = unit[j]

\* A part of a head and a unit is a frame.
LEMMA BodyOf ==
    ASSUME NEW data, NEW parts, NEW ends, LaidOut(data, parts, ends), NEW k \in 1..Len(parts),
           NEW head, NEW body, Headed(parts[k], head, body)
    PROVE  FramedAt(data, body, head, ends[k - 1], ends[k])
<1> DEFINE a == ends[k - 1]
           b == ends[k]
           s == SubSeq(data, a + 5, b)
<1>1. /\ a \in Nat /\ b \in Nat /\ b = a + Len(parts[k]) /\ b <= Len(data) /\ Len(data) \in Nat
      /\ \A j \in 1..Len(parts[k]) : data[a + j] = parts[k][j]
      /\ data \in Seq(Nat)
  <2>1. data \in Seq(Nat) /\ \A j \in 1..Len(parts[k]) : data[a + j] = parts[k][j]
    BY DEF LaidOut
  <2>2. a \in Nat /\ b \in Nat /\ b = a + Len(parts[k]) /\ b <= Len(data) /\ Len(data) \in Nat
    BY PartOf
  <2> QED BY <2>1, <2>2
<1>2. /\ Len(parts[k]) = 4 + Len(body) /\ Len(body) \in Nat
      /\ \A j \in 1..4 : parts[k][j] = head[j]
      /\ \A j \in 1..Len(body) : parts[k][4 + j] = body[j]
  BY HeadAndBody
<1> HIDE DEF a, b
<1>3. \A j \in 1..4 : data[a + j] = head[j]
  <2> TAKE j \in 1..4
  <2>1. j \in 1..Len(parts[k])
    BY <1>2
  <2> QED BY <1>1, <1>2, <2>1
<1>4. \A j \in 1..Len(body) : data[a + 4 + j] = body[j]
  <2> TAKE j \in 1..Len(body)
  <2>1. 4 + j \in 1..Len(parts[k]) /\ a + (4 + j) = a + 4 + j
    BY <1>1, <1>2
  <2> QED BY <1>1, <1>2, <2>1
<1>5. \A i \in (a + 5)..b : data[i] \in Nat
  <2> TAKE i \in (a + 5)..b
  <2>1. i \in 1..Len(data)
    BY <1>1
  <2> QED BY <1>1, <2>1, ElementOfSeq
<1>6. /\ s \in Seq(Nat) /\ Len(s) = (IF a + 5 <= b THEN b - (a + 5) + 1 ELSE 0)
      /\ \A i \in 1..(b - (a + 5) + 1) : s[i] = data[(a + 5) + i - 1]
  <2>1. a + 5 \in Int /\ b \in Int
    BY <1>1
  <2> QED BY <1>5, <2>1, SubSeqProperties
<1>7. Len(s) = Len(body) /\ b - (a + 5) + 1 = Len(body)
  <2> DEFINE n == Len(s)  m == Len(body)
  <2>1. n = (IF a + 5 <= b THEN b - (a + 5) + 1 ELSE 0) /\ m \in Nat /\ a \in Nat /\ b = a + (4 + m)
    BY <1>1, <1>2, <1>6
  <2> HIDE DEF n, m
  <2>2. n = m /\ b - (a + 5) + 1 = m
    BY <2>1
  <2> QED BY <2>2 DEF n, m
<1>8. \A i \in 1..Len(s) : s[i] = body[i]
  <2> TAKE i \in 1..Len(s)
  <2>1. i \in 1..Len(body) /\ (a + 5) + i - 1 = a + 4 + i /\ i \in 1..(b - (a + 5) + 1)
    BY <1>1, <1>2, <1>7
  <2> HIDE DEF s
  <2> QED BY <1>4, <1>6, <2>1
<1>9. s = body
  <2> HIDE DEF s
  <2>1. body \in Seq(Nat)
    BY DEF Headed
  <2> QED BY <1>6, <1>7, <1>8, <2>1, SeqEqual
<1>10. b = a + 4 + Len(body)
  BY <1>1, <1>2
<1>11. SubSeq(data, a + 1, b) = head \o body
  <2>1. SubSeq(data, a + 1, b) = parts[k]
    BY PartOf DEF a, b
  <2>2. parts[k] = head \o body
    BY DEF Headed
  <2> QED BY <2>1, <2>2
<1>12. body \in Seq(Nat)
  BY DEF Headed
<1>13. FramedAt(data, body, head, a, b)
  BY <1>1, <1>2, <1>3, <1>4, <1>9, <1>10, <1>11, <1>12 DEF FramedAt
<1> QED BY <1>13 DEF a, b

\* The length in front of a unit is read as it was written.
LEMMA LengthIsRead ==
    ASSUME NEW n \in Nat, n \div 65536 < 65536
    PROVE  LET p == LengthPrefix(n)
           IN  /\ p \in Seq(Nat) /\ Len(p) = 4
               /\ ((p[1] * 256 + p[2]) * 256 + p[3]) * 256 + p[4] = n
<1> DEFINE a == n \div 16777216
           b == (n \div 65536) % 256
           c == (n \div 256) % 256
           d == n % 256
<1>1. a \in Nat /\ b \in Nat /\ c \in Nat /\ d \in Nat
  OBVIOUS
<1>2. ((a * 256 + b) * 256 + c) * 256 + d = n
  OBVIOUS
<1>3. LengthPrefix(n) = <<a, b, c, d>>
  BY DEF LengthPrefix
<1> HIDE DEF a, b, c, d
<1> QED BY <1>1, <1>2, <1>3

\* data is units, each behind its head; the frame of unit k ends at ends[k].
Framed(data, us, heads, ends) ==
    /\ data \in Seq(Nat) /\ Len(data) \in Nat /\ Len(us) \in Nat
    /\ ends \in [0..Len(us) -> Nat] /\ ends[0] = 0 /\ ends[Len(us)] = Len(data)
    /\ \A k \in 1..Len(us) : FramedAt(data, us[k], heads[k], ends[k - 1], ends[k])

\* Units behind heads of four bytes are framed.
LEMMA FramedOf ==
    ASSUME NEW us, us \in Seq(Seq(Nat)), NEW heads, heads \in [1..Len(us) -> Seq(Nat)],
           \A k \in 1..Len(us) : Len(heads[k]) = 4
    PROVE  \E ends : Framed(FlattenSeq([i \in DOMAIN us |-> heads[i] \o us[i]]), us, heads, ends)
<1> DEFINE n == Len(us)
           parts == [i \in DOMAIN us |-> heads[i] \o us[i]]
           data == FlattenSeq(parts)
<1>1. n \in Nat /\ DOMAIN us = 1..n /\ \A k \in 1..n : us[k] \in Seq(Nat) /\ heads[k] \in Seq(Nat)
  BY LenProperties, ElementOfSeq
<1>2. \A k \in 1..n : heads[k] \o us[k] \in Seq(Nat)
  <2> TAKE k \in 1..n
  <2> DEFINE x == heads[k]  y == us[k]
  <2>1. x \in Seq(Nat) /\ y \in Seq(Nat)
    BY <1>1
  <2> HIDE DEF x, y
  <2>2. x \o y \in Seq(Nat)
    BY <2>1, JoinOf
  <2> QED BY <2>2 DEF x, y
<1>3. parts \in [1..n -> Seq(Nat)]
  BY <1>1, <1>2
<1>4. parts \in Seq(Seq(Nat)) /\ Len(parts) = n
  <2> HIDE DEF parts, n
  <2> QED BY <1>1, <1>3, LenProperties
<1>5. \A k \in 1..n : parts[k] = heads[k] \o us[k]
  BY <1>1
<1> HIDE DEF parts, data, n
<1>6. PICK ends : LaidOut(data, parts, ends)
  BY <1>4, FlattenOf DEF data
<1>7. data \in Seq(Nat) /\ ends \in [0..n -> Nat] /\ ends[0] = 0 /\ ends[n] = Len(data) /\ Len(data) \in Nat
  <2>1. data \in Seq(Nat) /\ ends \in [0..n -> Nat] /\ ends[0] = 0 /\ ends[n] = Len(data)
    BY <1>4, <1>6 DEF LaidOut
  <2> QED BY <2>1, LenProperties
<1>8. ASSUME NEW k \in 1..n
      PROVE  FramedAt(data, us[k], heads[k], ends[k - 1], ends[k])
  <2>1. Headed(parts[k], heads[k], us[k])
    BY <1>1, <1>5 DEF Headed, n
  <2>2. k \in 1..Len(parts)
    BY <1>4
  <2> QED BY <1>6, <2>1, <2>2, BodyOf
<1>9. Framed(data, us, heads, ends)
  BY <1>1, <1>7, <1>8 DEF Framed, n
<1> QED BY <1>9 DEF data, parts

\* The frames of the same units end in the same places, whatever their heads.
LEMMA SameEnds ==
    ASSUME NEW data, NEW us, NEW heads, NEW ends, Framed(data, us, heads, ends),
           NEW other, NEW tops, NEW stops, Framed(other, us, tops, stops)
    PROVE  /\ \A k \in 0..Len(us) : stops[k] = ends[k]
           /\ Len(other) = Len(data)
<1> DEFINE n == Len(us)
           K == {m \in Nat : m <= n => stops[m] = ends[m]}
<1>1. n \in Nat /\ ends[0] = 0 /\ stops[0] = 0 /\ ends[n] = Len(data) /\ stops[n] = Len(other)
  BY DEF Framed
<1>2. 0 \in K
  BY <1>1
<1>3. ASSUME NEW m \in K \cap Nat PROVE m + 1 \in K
  <2> DEFINE q == m + 1
  <2>1. q - 1 = m /\ q \in Nat
    OBVIOUS
  <2> SUFFICES ASSUME q <= n PROVE stops[q] = ends[q]
    BY <2>1
  <2> HIDE DEF q
  <2>2. q \in 1..n /\ m <= n
    BY <1>1, <2>1
  <2>3. ends[q] = ends[m] + 4 + Len(us[q]) /\ stops[q] = stops[m] + 4 + Len(us[q])
    BY <2>1, <2>2 DEF Framed, FramedAt
  <2> QED BY <2>2, <2>3
<1>4. Nat \subseteq K
  <2> HIDE DEF K
  <2> QED BY <1>2, <1>3, InductionOverNat
<1>5. \A k \in 0..n : stops[k] = ends[k]
  <2> TAKE k \in 0..n
  <2>1. k \in Nat /\ k <= n
    BY <1>1
  <2> QED BY <1>4, <2>1
<1>6. n \in 0..n
  BY <1>1
<1> QED BY <1>1, <1>5, <1>6

\* A sequence of NAL units.
AreUnits(us) == us \in Seq(Seq(Nat)) /\ \A k \in 1..Len(us) : IsUnit(us[k])

\* The heads of the two formats: the start codes,
Codes(us) == [k \in 1..Len(us) |-> START_CODE]

\* and the lengths.
Lengths(us) == [k \in 1..Len(us) |-> LengthPrefix(Len(us[k]))]

\* Start codes frame the units,
LEMMA StartCodesFrame ==
    ASSUME NEW us, us \in Seq(Seq(Nat))
    PROVE  \E ends : Framed(WithStartCodes(us), us, Codes(us), ends)
<1>1. DOMAIN us = 1..Len(us)
  BY LenProperties
<1>2. START_CODE \in Seq(Nat) /\ Len(START_CODE) = 4
  BY DEF START_CODE
<1>3. Codes(us) \in [1..Len(us) -> Seq(Nat)] /\ \A k \in 1..Len(us) : Codes(us)[k] = START_CODE
  BY <1>2 DEF Codes
<1>4. \A k \in 1..Len(us) : Len(Codes(us)[k]) = 4
  BY <1>2, <1>3
<1>5. \E ends : Framed(FlattenSeq([i \in DOMAIN us |-> Codes(us)[i] \o us[i]]), us, Codes(us), ends)
  BY <1>3, <1>4, FramedOf
<1>6. [i \in DOMAIN us |-> Codes(us)[i] \o us[i]] = [i \in DOMAIN us |-> START_CODE \o us[i]]
  BY <1>1, <1>3
<1> QED BY <1>5, <1>6 DEF WithStartCodes

\* The length of a unit can be had of its prefix.
LEMMA UnitLength ==
    ASSUME NEW unit, IsUnit(unit)
    PROVE  /\ Len(unit) \in Nat \ {0}
           /\ LengthPrefix(Len(unit)) \in Seq(Nat) /\ Len(LengthPrefix(Len(unit))) = 4
           /\ LET p == LengthPrefix(Len(unit))
              IN  ((p[1] * 256 + p[2]) * 256 + p[3]) * 256 + p[4] = Len(unit)
<1>1. Len(unit) \in Nat /\ Len(unit) > 0 /\ Len(unit) \div 65536 < 65536
  BY LenProperties DEF IsUnit
<1> DEFINE n == Len(unit)
<1> HIDE DEF n
<1>2. n \in Nat /\ n > 0 /\ n \div 65536 < 65536
  BY <1>1 DEF n
<1>3. /\ LengthPrefix(n) \in Seq(Nat) /\ Len(LengthPrefix(n)) = 4
      /\ LET p == LengthPrefix(n) IN ((p[1] * 256 + p[2]) * 256 + p[3]) * 256 + p[4] = n
  BY <1>2, LengthIsRead
<1> QED BY <1>2, <1>3 DEF n

\* and so do their lengths.
LEMMA LengthsFrame ==
    ASSUME NEW us, AreUnits(us)
    PROVE  \E ends : Framed(Avcc(us), us, Lengths(us), ends)
<1>0. us \in Seq(Seq(Nat))
  BY DEF AreUnits
<1>1. DOMAIN us = 1..Len(us)
  BY <1>0, LenProperties
<1>2. \A k \in 1..Len(us) : LengthPrefix(Len(us[k])) \in Seq(Nat) /\ Len(LengthPrefix(Len(us[k]))) = 4
  <2> TAKE k \in 1..Len(us)
  <2>1. IsUnit(us[k])
    BY DEF AreUnits
  <2> QED BY <2>1, UnitLength
<1>3. Lengths(us) \in [1..Len(us) -> Seq(Nat)] /\ \A k \in 1..Len(us) : Lengths(us)[k] = LengthPrefix(Len(us[k]))
  BY <1>2 DEF Lengths
<1>4. \A k \in 1..Len(us) : Len(Lengths(us)[k]) = 4
  BY <1>2, <1>3
<1>5. \E ends : Framed(FlattenSeq([i \in DOMAIN us |-> Lengths(us)[i] \o us[i]]), us, Lengths(us), ends)
  BY <1>0, <1>3, <1>4, FramedOf
<1>6. [i \in DOMAIN us |-> Lengths(us)[i] \o us[i]] = [i \in DOMAIN us |-> LengthPrefix(Len(us[i])) \o us[i]]
  BY <1>1, <1>3
<1> QED BY <1>5, <1>6 DEF Avcc

\* avcc_to_annex_b, of one unit and what it made of the rest.
LEMMA OneUnit ==
    ASSUME NEW avcc, avcc \in Seq(Nat), NEW unit, IsUnit(unit), NEW a, NEW b,
           FramedAt(avcc, unit, LengthPrefix(Len(unit)), a, b), AnnexBFrom(avcc)[b] # NotAvcc
    PROVE  AnnexBFrom(avcc)[a] = START_CODE \o unit \o AnnexBFrom(avcc)[b]
<1> DEFINE end == Len(avcc)
           n == Len(unit)
           p == LengthPrefix(n)
           f == AnnexBFrom(avcc)
<1>1. end \in Nat
  BY LenProperties
<1>2. n \in Nat \ {0} /\ ((p[1] * 256 + p[2]) * 256 + p[3]) * 256 + p[4] = n
  BY UnitLength
<1>3. /\ a \in Nat /\ b = a + 4 + n /\ b <= end /\ SubSeq(avcc, a + 5, b) = unit
      /\ avcc[a + 1] = p[1] /\ avcc[a + 2] = p[2] /\ avcc[a + 3] = p[3] /\ avcc[a + 4] = p[4]
  BY DEF FramedAt
<1>4. SizeAt(avcc, a) = n
  BY <1>2, <1>3 DEF SizeAt
<1> HIDE DEF end, n, p, f
<1>5. a \in 0..end /\ a # end /\ ~(a + 4 > end) /\ n # 0 /\ ~(a + 4 + n > end)
  BY <1>1, <1>2, <1>3
<1>6. f[a] = FromBody(avcc, f, a)
  BY <1>5, AnnexBFromIs DEF end, f
<1>7. FromBody(avcc, f, a) = START_CODE \o SubSeq(avcc, a + 5, b) \o f[b]
  BY <1>3, <1>4, <1>5 DEF FromBody, end, f
<1> QED BY <1>3, <1>6, <1>7 DEF f

\* The end of a stream is a sequence.
LEMMA EndIsSequence ==
    ASSUME NEW s, s \in Seq(Nat), NEW a, a \in 0..Len(s)
    PROVE  SubSeq(s, a + 1, Len(s)) \in Seq(Nat)
<1>1. Len(s) \in Nat
  BY LenProperties
<1>2. \A i \in (a + 1)..Len(s) : s[i] \in Nat
  <2> TAKE i \in (a + 1)..Len(s)
  <2>1. i \in 1..Len(s)
    BY <1>1
  <2> QED BY <2>1, ElementOfSeq
<1>3. a + 1 \in Int /\ Len(s) \in Int
  BY <1>1
<1> QED BY <1>2, <1>3, SubSeqProperties

\* Length prefixes are made start codes, and nothing else is changed.
LEMMA AnnexBOfAvcc ==
    ASSUME NEW us, AreUnits(us)
    PROVE  AvccToAnnexB(Avcc(us)) = WithStartCodes(us)
<1> DEFINE avcc == Avcc(us)
           made == WithStartCodes(us)
           n == Len(us)
           f == AnnexBFrom(avcc)
<1>0. us \in Seq(Seq(Nat))
  BY DEF AreUnits
<1>1. PICK e : Framed(avcc, us, Lengths(us), e)
  BY LengthsFrame
<1>2. PICK w : Framed(made, us, Codes(us), w)
  BY <1>0, StartCodesFrame
<1> HIDE DEF avcc, made
<1>3. (\A k \in 0..n : w[k] = e[k]) /\ Len(made) = Len(avcc)
  BY <1>1, <1>2, SameEnds
<1> DEFINE end == Len(avcc)
<1>4. /\ n \in Nat /\ end \in Nat /\ avcc \in Seq(Nat) /\ made \in Seq(Nat)
      /\ e \in [0..n -> Nat] /\ e[0] = 0 /\ e[n] = end
  BY <1>1, <1>2 DEF Framed
<1> DEFINE Made(k) == f[e[k]] = SubSeq(made, e[k] + 1, end)
           K == {m \in Nat : m <= n => Made(n - m)}
<1>5. 0 \in K
  <2>1. n - 0 = n
    BY <1>4
  <2>2. f[end] = <<>>
    <3>1. end \in 0..Len(avcc)
      BY <1>4
    <3>2. f[end] = FromBody(avcc, f, end)
      BY <1>4, <3>1, AnnexBFromIs
    <3> QED BY <3>2 DEF FromBody
  <2>3. SubSeq(made, end + 1, end) = <<>>
    BY <1>4, SubSeqEmpty
  <2> QED BY <1>4, <2>1, <2>2, <2>3
<1>6. ASSUME NEW m \in K \cap Nat PROVE m + 1 \in K
  <2> DEFINE k == n - m
             a == e[k - 1]
             b == e[k]
             unit == us[k]
  <2>1. m + 1 \in Nat /\ n - (m + 1) = k - 1
    BY <1>4
  <2> SUFFICES ASSUME m + 1 <= n PROVE Made(k - 1)
    BY <2>1
  <2>2. k \in 1..n /\ k \in 0..n /\ k - 1 \in 0..n /\ m <= n
    BY <1>4
  <2>3. FramedAt(avcc, unit, LengthPrefix(Len(unit)), a, b) /\ IsUnit(unit)
    <3> HIDE DEF k
    <3>1. Lengths(us)[k] = LengthPrefix(Len(unit))
      BY <2>2 DEF Lengths
    <3>2. FramedAt(avcc, unit, Lengths(us)[k], a, b)
      BY <1>1, <2>2 DEF Framed
    <3> QED BY <2>2, <3>1, <3>2 DEF AreUnits
  <2>4. SubSeq(made, a + 1, b) = START_CODE \o unit
    <3> HIDE DEF k
    <3>1. FramedAt(made, unit, Codes(us)[k], w[k - 1], w[k])
      BY <1>2, <2>2 DEF Framed
    <3>2. w[k - 1] = a /\ w[k] = b /\ Codes(us)[k] = START_CODE
      BY <1>3, <2>2 DEF Codes
    <3> QED BY <3>1, <3>2 DEF FramedAt
  <2>5. Made(k)
    BY <2>2
  <2>6. a \in Nat /\ b \in Nat /\ a <= b /\ b <= end
    <3> HIDE DEF k, unit
    <3>1. a \in Nat /\ b = a + 4 + Len(unit) /\ b <= end /\ Len(unit) \in Nat
      BY <2>3 DEF FramedAt
    <3> HIDE DEF a, b
    <3> QED BY <3>1
  <2> HIDE DEF unit, a, b, k
  <2>7. f[b] = SubSeq(made, b + 1, end)
    BY <2>5 DEF b
  <2>8. f[b] # NotAvcc
    <3>1. SubSeq(made, b + 1, end) \in Seq(Nat)
      <4>1. b \in 0..Len(made) /\ end = Len(made)
        BY <1>3, <1>4, <2>6
      <4> QED BY <1>4, <4>1, EndIsSequence
    <3> QED BY <2>7, <3>1, StreamAssumption
  <2>9. f[a] = START_CODE \o unit \o f[b]
    BY <1>4, <2>3, <2>8, OneUnit
  <2>10. SubSeq(made, a + 1, b) \o SubSeq(made, b + 1, end) = SubSeq(made, a + 1, end)
    <3>1. a + 1 \in 1..(Len(made) + 1) /\ b \in ((a + 1) - 1)..Len(made) /\ end \in b..Len(made)
      BY <1>3, <1>4, <2>6
    <3> HIDE DEF end
    <3> QED BY <1>4, <3>1, ConcatAdjacentSubSeq
  <2>11. f[a] = SubSeq(made, a + 1, end)
    BY <2>4, <2>7, <2>9, <2>10
  <2> QED BY <2>11 DEF a
<1>7. Nat \subseteq K
  <2> HIDE DEF K
  <2> QED BY <1>5, <1>6, InductionOverNat
<1>8. Made(0)
  <2>1. n \in K /\ n <= n /\ n - n = 0
    BY <1>4, <1>7
  <2> QED BY <2>1
<1>9. f[0] = made
  <2>1. f[0] = SubSeq(made, 0 + 1, end) /\ 0 + 1 = 1
    BY <1>4, <1>8
  <2>2. SubSeq(made, 1, Len(made)) = made
    BY <1>4, SubSeqFull
  <2> QED BY <1>3, <2>1, <2>2
<1>10. made # NotAvcc
  BY <1>4, StreamAssumption
<1> QED BY <1>9, <1>10 DEF AvccToAnnexB, avcc, made

\* The recursion of CodesFrom, with g in the place of starts.
CodesBody(data, g, i) ==
    IF i + 2 > Len(data) THEN <<>>
    ELSE IF CodeAt(data, i) = 0 THEN g[i + 1]
    ELSE <<<<i, CodeAt(data, i)>>>> \o g[i + CodeAt(data, i)]

\* It looks at later positions only.
LEMMA CodesLookAhead ==
    ASSUME NEW data \in Seq(Nat), NEW i \in 1..(Len(data) + 4), NEW g, NEW h,
           \A p \in (i + 1)..(Len(data) + 4) : g[p] = h[p]
    PROVE  CodesBody(data, g, i) = CodesBody(data, h, i)
<1> DEFINE end == Len(data)
           c == CodeAt(data, i)
<1>1. end \in Nat /\ i \in Nat
  BY LenProperties
<1>2. CASE i + 2 > end
  BY <1>2 DEF CodesBody
<1>3. CASE ~(i + 2 > end)
  <2>1. c \in {0, 3, 4}
    BY DEF CodeAt
  <2> HIDE DEF c
  <2>2. i + 1 \in (i + 1)..(end + 4) /\ (c # 0 => i + c \in (i + 1)..(end + 4))
    BY <1>1, <1>3, <2>1
  <2>3. g[i + 1] = h[i + 1] /\ (c # 0 => g[i + c] = h[i + c])
    BY <2>2
  <2> QED BY <2>3 DEF CodesBody, c
<1> QED BY <1>2, <1>3

\* There is a function that satisfies the recursion of the scan,
LEMMA CodesExist ==
    ASSUME NEW data \in Seq(Nat)
    PROVE  \E g : g = [i \in 1..(Len(data) + 4) |-> CodesBody(data, g, i)]
<1> DEFINE end == Len(data) + 4
           K == {m \in Nat : m < end => \E g : g = [i \in (end - m)..end |-> CodesBody(data, g, i)]}
<1>1. end \in Nat /\ Len(data) \in Nat /\ end = Len(data) + 4
  BY LenProperties
<1>2. 0 \in K
  <2> DEFINE g == [i \in (end - 0)..end |-> <<>>]
  <2>1. \A h, i : i \in (end - 0)..end => CodesBody(data, h, i) = <<>>
    BY <1>1 DEF CodesBody
  <2>2. g = [i \in (end - 0)..end |-> CodesBody(data, g, i)]
    BY <2>1
  <2> HIDE DEF g
  <2> QED BY <2>2
<1>3. ASSUME NEW m \in K \cap Nat PROVE m + 1 \in K
  <2> SUFFICES ASSUME m + 1 < end PROVE \E g : g = [i \in (end - (m + 1))..end |-> CodesBody(data, g, i)]
    OBVIOUS
  <2>1. PICK g : g = [i \in (end - m)..end |-> CodesBody(data, g, i)]
    <3>1. m < end
      BY <1>1
    <3> QED BY <3>1
  <2> HIDE DEF end
  <2> DEFINE first == end - (m + 1)
             D == first..end
             h == [i \in D |-> IF i = first THEN CodesBody(data, g, first) ELSE g[i]]
  <2>2. first \in Nat /\ 0 < first /\ first < end /\ \A i \in D : i = first \/ i \in (end - m)..end
    BY <1>1
  <2>3. \A i \in (first + 1)..end : i \in D /\ i # first /\ i \in (end - m)..end /\ h[i] = g[i]
    <3>1. \A i \in (first + 1)..end : i \in D /\ i # first /\ i \in (end - m)..end
      BY <1>1, <2>2
    <3> HIDE DEF D, first
    <3> QED BY <3>1
  <2>4. ASSUME NEW i \in D PROVE h[i] = CodesBody(data, h, i)
    <3>1. i \in 1..end /\ \A p \in (i + 1)..end : p \in (first + 1)..end
      BY <1>1, <2>2
    <3>2. \A p \in (i + 1)..end : g[p] = h[p]
      BY <2>3, <3>1
    <3> HIDE DEF h
    <3>3. CodesBody(data, g, i) = CodesBody(data, h, i)
      BY <3>1, <3>2, CodesLookAhead DEF end
    <3>4. h[i] = IF i = first THEN CodesBody(data, g, first) ELSE g[i]
      BY DEF h
    <3>5. CASE i = first
      BY <3>3, <3>4, <3>5
    <3>6. CASE i # first
      <4>1. i \in (end - m)..end
        BY <2>2, <3>6
      <4>2. g[i] = CodesBody(data, g, i)
        BY <2>1, <4>1
      <4> QED BY <3>3, <3>4, <3>6, <4>2
    <3> QED BY <3>5, <3>6
  <2>5. h = [i \in D |-> CodesBody(data, h, i)]
    <3>1. h = [i \in D |-> h[i]]
      OBVIOUS
    <3> HIDE DEF h
    <3> QED BY <2>4, <3>1
  <2> HIDE DEF h
  <2> QED BY <2>5
<1>4. Nat \subseteq K
  <2> HIDE DEF K
  <2> QED BY <1>2, <1>3, InductionOverNat
<1>5. \E g : g = [i \in (end - (end - 1))..end |-> CodesBody(data, g, i)]
  <2>1. end - 1 \in K /\ end - 1 < end
    BY <1>1, <1>4
  <2> HIDE DEF end
  <2> QED BY <2>1
<1>6. end - (end - 1) = 1
  BY <1>1
<1> QED BY <1>5, <1>6

\* and CodesFrom is one.
LEMMA CodesFromIs ==
    ASSUME NEW data \in Seq(Nat), NEW i \in 1..(Len(data) + 4)
    PROVE  CodesFrom(data)[i] = CodesBody(data, CodesFrom(data), i)
<1> DEFINE f == CHOOSE g : g = [p \in 1..(Len(data) + 4) |-> CodesBody(data, g, p)]
<1>1. CodesFrom(data) = f
  BY DEF CodesFrom, CodesBody
<1>2. f = [p \in 1..(Len(data) + 4) |-> CodesBody(data, f, p)]
  BY CodesExist
<1> HIDE DEF f
<1> QED BY <1>1, <1>2

\* Four bytes of a stream that are a start code.
IsCode(data, p) == SubSeq(data, p, p + 3) = START_CODE
ReadsAsCode(data, p) == data[p] = 0 /\ data[p + 1] = 0 /\ data[p + 2] = 0 /\ data[p + 3] = 1

\* A start code of four bytes, read as a part of the stream or byte by byte.
LEMMA FourBytes ==
    ASSUME NEW data, data \in Seq(Nat), NEW p, p \in Nat \ {0}, p + 3 <= Len(data)
    PROVE  IsCode(data, p) <=> ReadsAsCode(data, p)
<1> DEFINE s == SubSeq(data, p, p + 3)
<1>1. Len(data) \in Nat
  BY LenProperties
<1>2. \A i \in p..(p + 3) : data[i] \in Nat
  <2> TAKE i \in p..(p + 3)
  <2>1. i \in 1..Len(data)
    BY <1>1
  <2> QED BY <2>1, ElementOfSeq
<1>3. /\ s \in Seq(Nat) /\ Len(s) = (IF p <= p + 3 THEN (p + 3) - p + 1 ELSE 0)
      /\ \A i \in 1..((p + 3) - p + 1) : s[i] = data[p + i - 1]
  <2>1. p \in Int /\ p + 3 \in Int
    OBVIOUS
  <2> QED BY <1>2, <2>1, SubSeqProperties
<1>4. (p + 3) - p + 1 = 4 /\ p <= p + 3 /\ p + 1 - 1 = p /\ p + 2 - 1 = p + 1 /\ p + 3 - 1 = p + 2 /\ p + 4 - 1 = p + 3
  OBVIOUS
<1>5. Len(s) = 4 /\ s[1] = data[p] /\ s[2] = data[p + 1] /\ s[3] = data[p + 2] /\ s[4] = data[p + 3]
  <2> HIDE DEF s
  <2>1. Len(s) = 4 /\ \A i \in 1..4 : s[i] = data[p + i - 1]
    BY <1>3, <1>4
  <2>2. s[1] = data[p + 1 - 1] /\ s[2] = data[p + 2 - 1] /\ s[3] = data[p + 3 - 1] /\ s[4] = data[p + 4 - 1]
    BY <2>1
  <2> QED BY <1>4, <2>1, <2>2
<1> HIDE DEF s
<1>6. s = START_CODE => s[1] = 0 /\ s[2] = 0 /\ s[3] = 0 /\ s[4] = 1
  BY DEF START_CODE
<1>7. ASSUME s[1] = 0, s[2] = 0, s[3] = 0, s[4] = 1 PROVE s = START_CODE
  <2>1. START_CODE \in Seq(Nat) /\ Len(START_CODE) = 4 /\ \A i \in 1..4 : START_CODE[i] = s[i]
    BY <1>7 DEF START_CODE
  <2>2. s \in Seq(Nat) /\ Len(s) = Len(START_CODE)
    BY <1>3, <1>5, <2>1
  <2> QED BY <2>1, <2>2, SeqEqual
<1>8. (s[1] = 0 /\ s[2] = 0 /\ s[3] = 0 /\ s[4] = 1) <=> (data[p] = 0 /\ data[p + 1] = 0 /\ data[p + 2] = 0 /\ data[p + 3] = 1)
  BY <1>5
<1> QED BY <1>6, <1>7, <1>8 DEF s, IsCode, ReadsAsCode

\* A frame begins with a start code.
LEMMA CodeAtFrame ==
    ASSUME NEW data, data \in Seq(Nat), NEW unit, NEW a, NEW b, FramedAt(data, unit, START_CODE, a, b)
    PROVE  CodeAt(data, a + 1) = 4 /\ ~((a + 1) + 2 > Len(data))
<1>0. Len(data) \in Nat
  BY LenProperties
<1>1. a \in Nat /\ a + 4 <= Len(data)
  <2>1. a \in Nat /\ Len(unit) \in Nat /\ a + 4 + Len(unit) <= Len(data)
    BY DEF FramedAt
  <2> DEFINE n == Len(unit)
  <2>2. n \in Nat /\ a + 4 + n <= Len(data)
    BY <2>1
  <2> HIDE DEF n
  <2> QED BY <1>0, <2>1, <2>2
<1>2. \A j \in 1..4 : data[a + j] = START_CODE[j]
  BY DEF FramedAt
<1>3. data[a + 1] = 0 /\ data[a + 2] = 0 /\ data[a + 3] = 0 /\ data[a + 4] = 1
  BY <1>2 DEF START_CODE
<1> DEFINE p == a + 1
<1>4. p \in Nat \ {0} /\ p + 3 <= Len(data) /\ p + 1 = a + 2 /\ p + 2 = a + 3 /\ p + 3 = a + 4
  BY <1>0, <1>1
<1> HIDE DEF p
<1>5. data[p] = 0 /\ data[p + 1] = 0 /\ data[p + 2] = 0 /\ data[p + 3] = 1
  BY <1>3, <1>4 DEF p
<1>6. IsCode(data, p)
  <2>1. ReadsAsCode(data, p)
    BY <1>5 DEF ReadsAsCode
  <2> QED BY <1>4, <2>1, FourBytes
<1>7. CodeAt(data, p) = 4
  BY <1>4, <1>5, <1>6 DEF CodeAt, IsCode
<1>8. ~(p + 2 > Len(data))
  BY <1>0, <1>4
<1> QED BY <1>7, <1>8 DEF p

\* There is none in a unit, nor one that begins in it.
LEMMA NoCodeInside ==
    ASSUME NEW data, data \in Seq(Nat), NEW unit, IsUnit(unit), NEW a, NEW b,
           FramedAt(data, unit, START_CODE, a, b), NEW p, p \in (a + 5)..b, p + 2 <= Len(data)
    PROVE  CodeAt(data, p) = 0
<1> DEFINE n == Len(unit)
<1>0. Len(data) \in Nat
  BY LenProperties
<1>1. /\ a \in Nat /\ n \in Nat /\ b = a + 4 + n /\ b <= Len(data)
      /\ \A j \in 1..n : data[a + 4 + j] = unit[j]
  BY DEF FramedAt
<1>2. /\ n > 0 /\ unit[n] # 0
      /\ \A i \in 1..(n - 2) : ~(unit[i] = 0 /\ unit[i + 1] = 0 /\ unit[i + 2] = 1)
  BY DEF IsUnit
<1> HIDE DEF n
<1>3. b \in Nat /\ p \in Nat \ {0} /\ a + 5 <= p /\ p <= b
  BY <1>1
<1>4. data[b] # 0
  <2>1. n \in 1..n
    BY <1>1, <1>2
  <2> QED BY <1>1, <1>2, <2>1
<1>5. ASSUME NEW q, q \in Nat, a + 5 <= q, q + 2 <= b
      PROVE  ~(data[q] = 0 /\ data[q + 1] = 0 /\ data[q + 2] = 1)
  <2> DEFINE i == q - (a + 4)
  <2>1. /\ i \in 1..(n - 2) /\ i \in 1..n /\ i + 1 \in 1..n /\ i + 2 \in 1..n
        /\ a + 4 + i = q /\ a + 4 + (i + 1) = q + 1 /\ a + 4 + (i + 2) = q + 2
    BY <1>1, <1>5
  <2> HIDE DEF i
  <2>2. data[q] = unit[i] /\ data[q + 1] = unit[i + 1] /\ data[q + 2] = unit[i + 2]
    BY <1>1, <2>1
  <2> QED BY <1>2, <2>1, <2>2
<1>6. ~(data[p] = 0 /\ data[p + 1] = 0 /\ data[p + 2] = 1)
  <2> SUFFICES ASSUME data[p] = 0, data[p + 1] = 0, data[p + 2] = 1 PROVE FALSE
    OBVIOUS
  <2>1. p # b /\ p + 1 # b
    BY <1>4
  <2>2. p + 2 <= b
    BY <1>3, <2>1
  <2> QED BY <1>3, <1>5, <2>2
<1>7. ~(data[p] = 0 /\ data[p + 1] = 0 /\ data[p + 2] = 0 /\ data[p + 3] = 1)
  <2> SUFFICES ASSUME data[p] = 0, data[p + 1] = 0, data[p + 2] = 0, data[p + 3] = 1 PROVE FALSE
    OBVIOUS
  <2>1. p # b /\ p + 1 # b /\ p + 2 # b
    BY <1>4
  <2> DEFINE q == p + 1
  <2>2. q \in Nat /\ a + 5 <= q /\ q + 2 <= b /\ q + 1 = p + 2 /\ q + 2 = p + 3
    BY <1>1, <1>3, <2>1
  <2> HIDE DEF q
  <2>3. data[q] = 0 /\ data[q + 1] = 0 /\ data[q + 2] = 1
    BY <2>2 DEF q
  <2> QED BY <1>5, <2>2, <2>3
<1>8. ASSUME p + 3 <= Len(data) PROVE ~IsCode(data, p)
  <2>1. p \in Nat \ {0}
    BY <1>3
  <2>2. ~ReadsAsCode(data, p)
    BY <1>7 DEF ReadsAsCode
  <2> QED BY <1>8, <2>1, <2>2, FourBytes
<1> QED BY <1>6, <1>8 DEF CodeAt, IsCode

\* split_annex_b passes over a unit, and collects the code before it.
LEMMA ScanUnit ==
    ASSUME NEW data, data \in Seq(Nat), NEW unit, IsUnit(unit), NEW a, NEW b,
           FramedAt(data, unit, START_CODE, a, b)
    PROVE  CodesFrom(data)[a + 5] = CodesFrom(data)[b + 1]
<1> DEFINE n == Len(unit)
           s == CodesFrom(data)
           K == {m \in Nat : m <= n => s[b + 1 - m] = s[b + 1]}
<1>0. Len(data) \in Nat
  BY LenProperties
<1>1. a \in Nat /\ n \in Nat /\ b = a + 4 + n /\ b <= Len(data) /\ b \in Nat
  <2>1. a \in Nat /\ n \in Nat /\ b = a + 4 + n /\ b <= Len(data)
    BY DEF FramedAt
  <2> HIDE DEF n
  <2> QED BY <2>1
<1> HIDE DEF n, s
<1>2. \A i \in 1..(Len(data) + 4) : s[i] = CodesBody(data, s, i)
  BY CodesFromIs DEF s
<1>3. 0 \in K
  <2>1. b + 1 - 0 = b + 1
    BY <1>1
  <2> QED BY <2>1
<1>4. ASSUME NEW m \in K \cap Nat PROVE m + 1 \in K
  <2> DEFINE p == b - m
  <2>1. m + 1 \in Nat /\ b + 1 - (m + 1) = p /\ p + 1 = b + 1 - m
    BY <1>1
  <2> SUFFICES ASSUME m + 1 <= n PROVE s[p] = s[b + 1]
    BY <2>1
  <2>2. p \in (a + 5)..b /\ p \in 1..(Len(data) + 4) /\ m <= n /\ p \in Nat
    BY <1>0, <1>1
  <2> HIDE DEF p
  <2>3. s[p + 1] = s[b + 1]
    BY <2>1, <2>2
  <2>4. s[p] = CodesBody(data, s, p)
    BY <1>2, <2>2
  <2>5. CASE p + 2 > Len(data)
    <3>1. b + 1 \in 1..(Len(data) + 4) /\ (b + 1) + 2 > Len(data)
      BY <1>0, <1>1, <2>2, <2>5
    <3>2. s[b + 1] = CodesBody(data, s, b + 1)
      BY <1>2, <3>1
    <3> QED BY <2>4, <2>5, <3>1, <3>2 DEF CodesBody
  <2>6. CASE ~(p + 2 > Len(data))
    <3>1. p + 2 <= Len(data)
      BY <1>0, <2>2, <2>6
    <3>2. CodeAt(data, p) = 0
      BY <2>2, <3>1, NoCodeInside
    <3> QED BY <2>3, <2>4, <2>6, <3>2 DEF CodesBody
  <2> QED BY <2>5, <2>6
<1>5. Nat \subseteq K
  <2> HIDE DEF K
  <2> QED BY <1>3, <1>4, InductionOverNat
<1>6. s[b + 1 - n] = s[b + 1]
  <2>1. n \in K /\ n <= n
    BY <1>1, <1>5
  <2> QED BY <2>1
<1>7. b + 1 - n = a + 5
  BY <1>1
<1> QED BY <1>6, <1>7 DEF s

\* The scan finds the start code of a frame and goes on at the next.
LEMMA ScanFrame ==
    ASSUME NEW data, data \in Seq(Nat), NEW unit, IsUnit(unit), NEW a, NEW b,
           FramedAt(data, unit, START_CODE, a, b)
    PROVE  CodesFrom(data)[a + 1] = <<<<a + 1, 4>>>> \o CodesFrom(data)[b + 1]
<1> DEFINE s == CodesFrom(data)
           i == a + 1
<1>1. CodeAt(data, i) = 4 /\ ~(i + 2 > Len(data))
  BY CodeAtFrame
<1>2. s[a + 5] = s[b + 1]
  BY ScanUnit
<1>3. a \in Nat /\ Len(data) \in Nat
  BY LenProperties DEF FramedAt
<1>4. i \in 1..(Len(data) + 4) /\ i + 4 = a + 5
  BY <1>1, <1>3
<1> HIDE DEF s, i
<1>5. s[i] = CodesBody(data, s, i)
  BY <1>4, CodesFromIs DEF s
<1>6. CodesBody(data, s, i) = <<<<i, 4>>>> \o s[i + 4]
  BY <1>1 DEF CodesBody
<1>7. s[i] = <<<<i, 4>>>> \o s[b + 1]
  BY <1>2, <1>4, <1>5, <1>6
<1> QED BY <1>7 DEF s, i

\* The codes it finds are those of the frames.
LEMMA CodesFound ==
    ASSUME NEW data, NEW us, AreUnits(us), NEW e, Framed(data, us, Codes(us), e)
    PROVE  /\ Len(CodesFrom(data)[1]) = Len(us)
           /\ \A k \in 1..Len(us) : CodesFrom(data)[1][k] = <<e[k - 1] + 1, 4>>
<1> DEFINE n == Len(us)
           s == CodesFrom(data)
           A == Nat \X Nat
           Found(m) == LET k == n - m
                       IN  /\ s[e[k] + 1] \in Seq(A) /\ Len(s[e[k] + 1]) = m
                           /\ \A j \in 1..m : s[e[k] + 1][j] = <<e[k + j - 1] + 1, 4>>
           K == {m \in Nat : m <= n => Found(m)}
<1>1. n \in Nat /\ data \in Seq(Nat) /\ Len(data) \in Nat /\ e \in [0..n -> Nat] /\ e[0] = 0 /\ e[n] = Len(data)
  BY DEF Framed
<1>2. 0 \in K
  <2>1. n - 0 = n
    BY <1>1
  <2> DEFINE i == Len(data) + 1
  <2>2. i \in 1..(Len(data) + 4) /\ i + 2 > Len(data)
    BY <1>1
  <2> HIDE DEF i
  <2>3. s[i] = <<>>
    BY <1>1, <2>2, CodesFromIs DEF CodesBody
  <2>4. s[e[n] + 1] = <<>>
    BY <1>1, <2>3 DEF i
  <2> DEFINE z == s[e[n - 0] + 1]
  <2>5. z = <<>>
    BY <2>1, <2>4
  <2>6. z \in Seq(A) /\ Len(z) = 0
    <3> HIDE DEF z, A
    <3> QED BY <2>5
  <2>7. 1..0 = {}
    OBVIOUS
  <2>8. Found(0)
    <3> HIDE DEF s, A
    <3> QED BY <2>6, <2>7
  <2> HIDE DEF Found
  <2> QED BY <2>8
<1>3. ASSUME NEW m \in K \cap Nat PROVE m + 1 \in K
  <2> DEFINE k == n - m
             a == e[k - 1]
             b == e[k]
             rest == s[b + 1]
             all == s[a + 1]
  <2>1. m + 1 \in Nat /\ n - (m + 1) = k - 1
    BY <1>1
  <2> SUFFICES ASSUME m + 1 <= n
               PROVE  /\ all \in Seq(A) /\ Len(all) = m + 1
                      /\ \A j \in 1..(m + 1) : all[j] = <<e[(k - 1) + j - 1] + 1, 4>>
    BY <2>1
  <2>2. k \in 1..n /\ k \in Nat /\ m <= n /\ k - 1 \in 0..n
    BY <1>1
  <2>3. rest \in Seq(A) /\ Len(rest) = m /\ \A j \in 1..m : rest[j] = <<e[k + j - 1] + 1, 4>>
    BY <2>2
  <2> HIDE DEF k
  <2>4. FramedAt(data, us[k], START_CODE, a, b) /\ IsUnit(us[k])
    <3>1. FramedAt(data, us[k], Codes(us)[k], a, b)
      BY <2>2 DEF Framed
    <3>2. Codes(us)[k] = START_CODE
      BY <2>2 DEF Codes
    <3> QED BY <2>2, <3>1, <3>2 DEF AreUnits
  <2>5. all = <<<<a + 1, 4>>>> \o rest
    <3> DEFINE unit == us[k]
    <3>1. FramedAt(data, unit, START_CODE, a, b) /\ IsUnit(unit)
      BY <2>4
    <3> HIDE DEF unit, a, b
    <3> QED BY <1>1, <3>1, ScanFrame
  <2>6. a \in Nat
    BY <1>1, <2>2
  <2> HIDE DEF s, rest, all, a, b
  <2> DEFINE one == <<<<a + 1, 4>>>>
  <2>7. one \in Seq(A) /\ Len(one) = 1 /\ one[1] = <<a + 1, 4>>
    BY <2>6
  <2> HIDE DEF one
  <2>8. one \in Seq(A) /\ rest \in Seq(A)
    BY <2>3, <2>7
  <2>9. /\ one \o rest \in Seq(A) /\ Len(one \o rest) = Len(one) + Len(rest)
        /\ \A j \in 1..Len(one) : (one \o rest)[j] = one[j]
        /\ \A j \in 1..Len(rest) : (one \o rest)[Len(one) + j] = rest[j]
    <3> HIDE DEF A
    <3> QED BY <2>8, JoinOf
  <2>10. all = one \o rest
    BY <2>5 DEF one
  <2>11. all \in Seq(A) /\ Len(all) = m + 1
    BY <2>3, <2>7, <2>9, <2>10
  <2>12. ASSUME NEW j \in 1..(m + 1) PROVE all[j] = <<e[(k - 1) + j - 1] + 1, 4>>
    <3>1. CASE j = 1
      <4>1. (k - 1) + j - 1 = k - 1
        BY <2>2, <3>1
      <4>2. all[1] = one[1]
        BY <2>7, <2>9, <2>10
      <4> QED BY <2>7, <3>1, <4>1, <4>2 DEF a
    <3>2. CASE j # 1
      <4> DEFINE q == j - 1
      <4>1. q \in 1..m /\ 1 + q = j /\ (k - 1) + j - 1 = k + q - 1
        BY <2>2, <3>2
      <4> HIDE DEF q
      <4>2. all[1 + q] = rest[q]
        BY <2>3, <2>7, <2>9, <2>10, <4>1
      <4>3. rest[q] = <<e[k + q - 1] + 1, 4>>
        BY <2>3, <4>1
      <4> QED BY <4>1, <4>2, <4>3
    <3> QED BY <3>1, <3>2
  <2> QED BY <2>11, <2>12
<1>4. Nat \subseteq K
  <2> HIDE DEF K
  <2> QED BY <1>2, <1>3, InductionOverNat
<1>5. Found(n)
  <2> HIDE DEF Found
  <2>1. n <= n
    BY <1>1
  <2>2. n \in K
    <3> HIDE DEF K
    <3> QED BY <1>1, <1>4
  <2> QED BY <2>1, <2>2
<1>6. n - n = 0 /\ e[0] + 1 = 1 /\ \A j \in 1..n : 0 + j - 1 = j - 1
  BY <1>1
<1> QED BY <1>5, <1>6

\* The numbers of an interval, from the least to the greatest.
LEMMA AscendingInterval ==
    ASSUME NEW m \in Nat, NEW n \in Nat, m <= n
    PROVE  /\ Cardinality((m + 1)..n) = n - m
           /\ \A i \in 1..(n - m) : Ascending((m + 1)..n)[i] = i + m
<1> DEFINE S == (m + 1)..n
           list == Ascending(S)
<1>1. IsFiniteSet(S) /\ Cardinality(S) = n - m /\ S \in SUBSET Int
  <2>1. IsFiniteSet(S) /\ Cardinality(S) = (IF m + 1 > n THEN 0 ELSE n - (m + 1) + 1)
    BY FS_Interval
  <2>2. S \in SUBSET Int
    OBVIOUS
  <2> HIDE DEF S
  <2> QED BY <2>1, <2>2
<1>2. list \in [1..(n - m) -> S] /\ \A i \in 1..(n - m) : Rank(S, list[i]) = i
  <2> HIDE DEF S
  <2> QED BY <1>1, AscendingOf
<1> HIDE DEF list
<1>3. ASSUME NEW i \in 1..(n - m) PROVE list[i] = i + m
  <2> DEFINE u == list[i]
  <2>1. u \in S
    BY <1>2
  <2> HIDE DEF u
  <2>2. {w \in S : w <= u} = (m + 1)..u
    BY <2>1
  <2>3. Cardinality((m + 1)..u) = u - m
    <3>1. Cardinality((m + 1)..u) = (IF m + 1 > u THEN 0 ELSE u - (m + 1) + 1)
      BY <2>1, FS_Interval
    <3>2. u \in Int /\ m + 1 <= u
      BY <2>1
    <3> QED BY <3>1, <3>2
  <2>4. Rank(S, u) = u - m
    <3> HIDE DEF S
    <3> QED BY <2>2, <2>3 DEF Rank
  <2>5. u \in Int
    BY <2>1
  <2>6. Rank(S, u) = i
    BY <1>2 DEF u
  <2>7. u = i + m
    BY <2>4, <2>5, <2>6
  <2> QED BY <2>7 DEF u
<1> QED BY <1>1, <1>3 DEF list

\* Keeping the end of a sequence.
Later(s, m, n) == [k \in 1..(n - m) |-> s[k + m]]

\* It is what Kept gives of the positions after m.
LEMMA KeptFrom ==
    ASSUME NEW s, NEW m \in Nat, NEW n \in Nat, m <= n
    PROVE  Kept(s, (m + 1)..n) = Later(s, m, n)
<1> DEFINE at == (m + 1)..n
<1>1. Cardinality(at) = n - m /\ \A i \in 1..(n - m) : Ascending(at)[i] = i + m
  BY AscendingInterval
<1> HIDE DEF at
<1>2. Kept(s, at) = [k \in 1..(n - m) |-> s[Ascending(at)[k]]]
  BY <1>1 DEF Kept
<1>3. Kept(s, at) = [k \in 1..(n - m) |-> s[k + m]]
  BY <1>1, <1>2
<1> QED BY <1>3 DEF at, Later

\* split_annex_b finds the units that were framed.
LEMMA SplitOf ==
    ASSUME NEW data, NEW us, AreUnits(us), NEW e, Framed(data, us, Codes(us), e)
    PROVE  SplitAnnexB(data) = us
<1> DEFINE n == Len(us)
           codes == CodesFrom(data)[1]
           units == Between(data, codes)
<1>1. n \in Nat /\ Len(data) \in Nat /\ e \in [0..n -> Nat] /\ e[n] = Len(data)
  BY DEF Framed
<1>2. Len(codes) = n /\ \A k \in 1..n : codes[k] = <<e[k - 1] + 1, 4>>
  BY CodesFound
<1> HIDE DEF codes
<1>3. us \in Seq(Seq(Nat)) /\ us = [k \in 1..n |-> us[k]]
  <2>1. us \in Seq(Seq(Nat))
    BY DEF AreUnits
  <2>2. us \in [1..n -> Seq(Nat)]
    BY <2>1, LenProperties
  <2> QED BY <2>1, <2>2
<1>4. ASSUME NEW k \in 1..n
      PROVE  SubSeq(data, codes[k][1] + codes[k][2],
                    IF k = Len(codes) THEN Len(data) ELSE codes[k + 1][1] - 1) = us[k]
  <2>1. FramedAt(data, us[k], Codes(us)[k], e[k - 1], e[k])
    BY DEF Framed
  <2>2. SubSeq(data, e[k - 1] + 5, e[k]) = us[k]
    BY <2>1 DEF FramedAt
  <2>3. codes[k][1] + codes[k][2] = e[k - 1] + 5
    <3>1. k - 1 \in 0..n
      BY <1>1
    <3> DEFINE a == e[k - 1]
    <3>2. a \in Nat
      BY <1>1, <3>1
    <3>3. codes[k][1] = a + 1 /\ codes[k][2] = 4
      BY <1>2
    <3> HIDE DEF a
    <3>4. codes[k][1] + codes[k][2] = a + 5
      BY <3>2, <3>3
    <3> QED BY <3>4 DEF a
  <2>4. (IF k = Len(codes) THEN Len(data) ELSE codes[k + 1][1] - 1) = e[k]
    <3>1. CASE k = n
      BY <1>1, <1>2, <3>1
    <3>2. CASE k # n
      <4>1. k + 1 \in 1..n /\ (k + 1) - 1 = k /\ k \in 0..n
        BY <1>1, <3>2
      <4> DEFINE b == e[k]
      <4>2. b \in Nat
        BY <1>1, <4>1
      <4>3. codes[k + 1] = <<e[(k + 1) - 1] + 1, 4>>
        BY <1>2, <4>1
      <4>4. codes[k + 1][1] = b + 1
        BY <4>1, <4>3
      <4> HIDE DEF b
      <4>5. codes[k + 1][1] - 1 = b
        BY <4>2, <4>4
      <4> QED BY <1>2, <3>2, <4>5 DEF b
    <3> QED BY <3>1, <3>2
  <2> QED BY <2>2, <2>3, <2>4
<1>5. units = us
  <2>1. units = [k \in 1..n |-> SubSeq(data, codes[k][1] + codes[k][2],
                                       IF k = Len(codes) THEN Len(data) ELSE codes[k + 1][1] - 1)]
    BY <1>2 DEF Between
  <2>2. units = [k \in 1..n |-> us[k]]
    BY <1>4, <2>1
  <2> QED BY <1>3, <2>2
<1>6. {k \in DOMAIN us : us[k] # <<>>} = 1..n
  <2>1. DOMAIN us = 1..n
    BY <1>3
  <2>2. \A k \in 1..n : us[k] # <<>>
    <3> TAKE k \in 1..n
    <3> DEFINE unit == us[k]
    <3>1. IsUnit(unit)
      BY DEF AreUnits
    <3> HIDE DEF unit
    <3>2. Len(unit) # 0
      BY <3>1, UnitLength
    <3>3. unit # <<>>
      BY <3>2
    <3> QED BY <3>3 DEF unit
  <2> QED BY <2>1, <2>2
<1>7. Kept(us, 1..n) = us
  <2>0. PICK m \in Nat : m = 0
    OBVIOUS
  <2>1. Kept(us, (m + 1)..n) = Later(us, m, n)
    <3>1. m <= n
      BY <1>1, <2>0
    <3> HIDE DEF n
    <3> QED BY <1>1, <3>1, KeptFrom
  <2>2. n - m = n /\ m + 1 = 1 /\ \A k \in 1..n : k + m = k
    BY <1>1, <2>0
  <2>3. Kept(us, 1..n) = [k \in 1..n |-> us[k]]
    BY <2>1, <2>2 DEF Later
  <2> QED BY <1>3, <2>3
<1>8. SplitAnnexB(data) = Kept(units, {k \in DOMAIN units : units[k] # <<>>})
  BY DEF SplitAnnexB, codes
<1> HIDE DEF units
<1> QED BY <1>5, <1>6, <1>7, <1>8

\* What data has between p and q is in other, o later.
Moved(data, other, o, p, q) ==
    /\ data \in Seq(Nat) /\ other \in Seq(Nat) /\ o \in Nat /\ p \in Nat \ {0} /\ q \in Nat
    /\ Len(data) \in Nat /\ Len(other) \in Nat /\ q <= Len(data) /\ o + q <= Len(other)
    /\ \A i \in p..q : other[o + i] = data[i]

\* The same bytes, o later.
SamePart(data, other, o, p, q) == SubSeq(other, o + p, o + q) = SubSeq(data, p, q)

\* A part that has moved is the same part.
LEMMA MovedPart ==
    ASSUME NEW data, NEW other, NEW o, NEW p, NEW q, Moved(data, other, o, p, q)
    PROVE  SamePart(data, other, o, p, q)
<1> DEFINE x == SubSeq(data, p, q)
           y == SubSeq(other, o + p, o + q)
           P == o + p
           Q == o + q
<1>1. \A i \in p..q : data[i] \in Nat
  <2> TAKE i \in p..q
  <2>1. i \in 1..Len(data) /\ data \in Seq(Nat)
    BY DEF Moved
  <2> QED BY <2>1, ElementOfSeq
<1>2. \A i \in P..Q : other[i] \in Nat
  <2> TAKE i \in P..Q
  <2>1. i \in 1..Len(other) /\ other \in Seq(Nat)
    BY DEF Moved
  <2> QED BY <2>1, ElementOfSeq
<1>3. p \in Int /\ q \in Int /\ P \in Int /\ Q \in Int /\ o \in Int
  BY DEF Moved
<1>4. /\ x \in Seq(Nat) /\ Len(x) = IF p <= q THEN q - p + 1 ELSE 0
      /\ \A i \in 1..(q - p + 1) : x[i] = data[p + i - 1]
  BY <1>1, <1>3, SubSeqProperties
<1>5. /\ y \in Seq(Nat) /\ Len(y) = IF P <= Q THEN Q - P + 1 ELSE 0
      /\ \A i \in 1..(Q - P + 1) : y[i] = other[P + i - 1]
  <2> HIDE DEF P, Q
  <2>1. /\ SubSeq(other, P, Q) \in Seq(Nat) /\ Len(SubSeq(other, P, Q)) = IF P <= Q THEN Q - P + 1 ELSE 0
        /\ \A i \in 1..(Q - P + 1) : SubSeq(other, P, Q)[i] = other[P + i - 1]
    BY <1>2, <1>3, SubSeqProperties
  <2> QED BY <2>1 DEF P, Q
<1> HIDE DEF x, y
<1>6. Len(y) = Len(x)
  BY <1>3, <1>4, <1>5
<1>7. \A i \in 1..Len(x) : y[i] = x[i]
  <2> TAKE i \in 1..Len(x)
  <2> DEFINE j == p + i - 1
  <2>1. i \in 1..(q - p + 1) /\ i \in 1..(Q - P + 1) /\ j \in p..q /\ P + i - 1 = o + j
    BY <1>3, <1>4
  <2>2. x[i] = data[j] /\ y[i] = other[o + j]
    BY <1>4, <1>5, <2>1
  <2> HIDE DEF j
  <2>3. other[o + j] = data[j]
    BY <2>1 DEF Moved
  <2> QED BY <2>2, <2>3
<1>8. y = x
  BY <1>4, <1>5, <1>6, <1>7, SeqEqual
<1> QED BY <1>8 DEF x, y, SamePart

\* A frame that has moved is a frame of the same unit.
LEMMA MovedFrame ==
    ASSUME NEW data, NEW other, NEW o, NEW unit, NEW head, NEW a, NEW b,
           FramedAt(data, unit, head, a, b), Moved(data, other, o, a + 1, b)
    PROVE  FramedAt(other, unit, head, o + a, o + b)
<1>1. /\ unit \in Seq(Nat) /\ Len(unit) \in Nat /\ a \in Nat /\ b = a + 4 + Len(unit) /\ b \in Nat
      /\ o \in Nat /\ o + b <= Len(other) /\ Len(other) \in Nat
  BY DEF FramedAt, Moved
<1>2. \A i \in (a + 1)..b : other[o + i] = data[i]
  BY DEF Moved
<1>3. SubSeq(other, (o + a) + 1, o + b) = SubSeq(data, a + 1, b)
  <2> DEFINE p == a + 1
  <2>1. Moved(data, other, o, p, b)
    OBVIOUS
  <2> HIDE DEF p
  <2>2. SamePart(data, other, o, p, b)
    BY <2>1, MovedPart
  <2>3. o + p = (o + a) + 1
    BY <1>1 DEF p
  <2> QED BY <2>2, <2>3 DEF p, SamePart
<1>4. SubSeq(other, (o + a) + 5, o + b) = SubSeq(data, a + 5, b)
  <2> DEFINE p == a + 5
  <2>1. Moved(data, other, o, p, b)
    BY <1>1 DEF Moved
  <2> HIDE DEF p
  <2>2. SamePart(data, other, o, p, b)
    BY <2>1, MovedPart
  <2>3. o + p = (o + a) + 5
    BY <1>1 DEF p
  <2> QED BY <2>2, <2>3 DEF p, SamePart
<1>5. ASSUME NEW j \in 1..4 PROVE other[(o + a) + j] = head[j]
  <2>1. a + j \in (a + 1)..b /\ (o + a) + j = o + (a + j)
    BY <1>1
  <2> QED BY <1>2, <2>1 DEF FramedAt
<1>6. ASSUME NEW j \in 1..Len(unit) PROVE other[(o + a) + 4 + j] = unit[j]
  <2>1. a + 4 + j \in (a + 1)..b /\ (o + a) + 4 + j = o + (a + 4 + j)
    BY <1>1
  <2> QED BY <1>2, <2>1 DEF FramedAt
<1>7. o + a \in Nat /\ o + b = (o + a) + 4 + Len(unit)
  BY <1>1
<1> QED BY <1>1, <1>3, <1>4, <1>5, <1>6, <1>7 DEF FramedAt

\* Two streams of units, one after the other, are a stream of the units of both.
LEMMA FramesJoin ==
    ASSUME NEW us, AreUnits(us), NEW vs, AreUnits(vs),
           NEW x, NEW e, Framed(x, us, Codes(us), e), NEW y, NEW f, Framed(y, vs, Codes(vs), f)
    PROVE  AreUnits(us \o vs) /\ \E g : Framed(x \o y, us \o vs, Codes(us \o vs), g)
<1> DEFINE n == Len(us)
           m == Len(vs)
           o == Len(x)
           w == us \o vs
           z == x \o y
           g == [k \in 0..(n + m) |-> IF k <= n THEN e[k] ELSE o + f[k - n]]
<1>1. /\ n \in Nat /\ o \in Nat /\ e \in [0..n -> Nat] /\ e[0] = 0 /\ e[n] = o /\ x \in Seq(Nat)
      /\ \A k \in 1..n : FramedAt(x, us[k], START_CODE, e[k - 1], e[k])
  BY DEF Framed, Codes
<1>2. /\ m \in Nat /\ Len(y) \in Nat /\ f \in [0..m -> Nat] /\ f[0] = 0 /\ f[m] = Len(y) /\ y \in Seq(Nat)
      /\ \A k \in 1..m : FramedAt(y, vs[k], START_CODE, f[k - 1], f[k])
  BY DEF Framed, Codes
<1>3. us \in Seq(Seq(Nat)) /\ vs \in Seq(Seq(Nat))
  BY DEF AreUnits
<1>4. /\ w \in Seq(Seq(Nat)) /\ Len(w) = n + m
      /\ \A k \in 1..n : w[k] = us[k]
      /\ \A k \in 1..m : w[n + k] = vs[k]
  BY <1>3, JoinOf
<1>5. /\ z \in Seq(Nat) /\ Len(z) = o + Len(y)
      /\ \A k \in 1..o : z[k] = x[k]
      /\ \A k \in 1..Len(y) : z[o + k] = y[k]
  BY <1>1, <1>2, JoinOf
<1> HIDE DEF w, z, n, m, o
<1>6. g \in [0..(n + m) -> Nat] /\ g[0] = 0 /\ g[n + m] = Len(z)
  <2>1. \A k \in 0..(n + m) : (IF k <= n THEN e[k] ELSE o + f[k - n]) \in Nat
    <3> TAKE k \in 0..(n + m)
    <3>1. CASE k <= n
      <4>1. k \in 0..n
        BY <1>1, <1>2, <3>1
      <4> QED BY <1>1, <3>1, <4>1
    <3>2. CASE ~(k <= n)
      <4>1. k - n \in 0..m
        BY <1>1, <1>2, <3>2
      <4>2. f[k - n] \in Nat
        BY <1>2, <4>1
      <4> QED BY <1>1, <3>2, <4>2
    <3> QED BY <3>1, <3>2
  <2>2. g[0] = 0
    <3>1. 0 \in 0..(n + m) /\ 0 <= n
      BY <1>1, <1>2
    <3> QED BY <1>1, <3>1
  <2>3. g[n + m] = o + f[m]
    <3>1. n + m \in 0..(n + m) /\ (n + m) - n = m
      BY <1>1, <1>2
    <3>2. CASE m = 0
      <4>1. n + m = n /\ n + m <= n /\ o + f[m] = o
        BY <1>1, <1>2, <3>2
      <4> QED BY <1>1, <3>1, <4>1
    <3>3. CASE m # 0
      <4>1. ~(n + m <= n)
        BY <1>1, <1>2, <3>3
      <4> QED BY <3>1, <4>1
    <3> QED BY <3>2, <3>3
  <2> QED BY <1>2, <1>5, <2>1, <2>2, <2>3
<1>7. \A k \in 0..n : g[k] = e[k]
  <2> TAKE k \in 0..n
  <2>1. k \in 0..(n + m) /\ k <= n
    BY <1>1, <1>2
  <2> QED BY <2>1
<1>8. \A k \in 0..m : g[n + k] = o + f[k]
  <2> TAKE k \in 0..m
  <2>1. n + k \in 0..(n + m) /\ (n + k) - n = k
    BY <1>1, <1>2
  <2>2. CASE k = 0
    <3>1. n + k = n /\ n \in 0..n /\ o + f[k] = o
      BY <1>1, <1>2, <2>2
    <3> QED BY <1>1, <1>7, <3>1
  <2>3. CASE k # 0
    <3>1. ~(n + k <= n)
      BY <1>1, <1>2, <2>3
    <3> QED BY <2>1, <3>1
  <2> QED BY <2>2, <2>3
<1> HIDE DEF g
<1>9. ASSUME NEW k \in 1..n
      PROVE  FramedAt(z, w[k], START_CODE, g[k - 1], g[k])
  <2> DEFINE unit == us[k]
             head == START_CODE
             a == e[k - 1]
             b == e[k]
  <2>1. FramedAt(x, unit, head, a, b)
    BY <1>1
  <2>2. k \in 0..n /\ k - 1 \in 0..n
    BY <1>1
  <2>3. w[k] = unit /\ g[k - 1] = a /\ g[k] = b
    BY <1>4, <1>7, <2>2
  <2> HIDE DEF unit, head, a, b
  <2>4. a \in Nat /\ b \in Nat /\ b <= o
    BY <1>1, <2>1 DEF FramedAt, o
  <2>5. PICK p \in Nat : p = 0
    OBVIOUS
  <2>6. Moved(x, z, p, a + 1, b)
    <3>1. ASSUME NEW i \in (a + 1)..b PROVE z[p + i] = x[i]
      <4>1. i \in 1..o /\ p + i = i
        BY <1>1, <2>4, <2>5
      <4> QED BY <1>5, <4>1
    <3> QED BY <1>1, <1>2, <1>5, <2>4, <2>5, <3>1 DEF Moved, o
  <2>7. FramedAt(z, unit, head, p + a, p + b)
    BY <2>1, <2>6, MovedFrame
  <2>8. p + a = a /\ p + b = b
    BY <2>4, <2>5
  <2> QED BY <2>3, <2>7, <2>8 DEF head
<1>10. ASSUME NEW k \in 1..m
       PROVE  FramedAt(z, w[n + k], START_CODE, g[(n + k) - 1], g[n + k])
  <2> DEFINE unit == vs[k]
             head == START_CODE
             a == f[k - 1]
             b == f[k]
  <2>1. FramedAt(y, unit, head, a, b)
    BY <1>2
  <2>2. k \in 0..m /\ k - 1 \in 0..m /\ (n + k) - 1 = n + (k - 1)
    BY <1>1, <1>2
  <2>3. w[n + k] = unit /\ g[(n + k) - 1] = o + a /\ g[n + k] = o + b
    BY <1>4, <1>8, <2>2
  <2> HIDE DEF unit, head, a, b
  <2>4. a \in Nat /\ b \in Nat /\ b <= Len(y)
    BY <1>2, <2>1 DEF FramedAt
  <2>6. Moved(y, z, o, a + 1, b)
    <3>1. ASSUME NEW i \in (a + 1)..b PROVE z[o + i] = y[i]
      <4>1. i \in 1..Len(y)
        BY <1>2, <2>4
      <4> QED BY <1>5, <4>1
    <3> QED BY <1>1, <1>2, <1>5, <2>4, <3>1 DEF Moved
  <2>7. FramedAt(z, unit, head, o + a, o + b)
    BY <2>1, <2>6, MovedFrame
  <2> QED BY <2>3, <2>7 DEF head
<1>11. \A k \in 1..(n + m) : FramedAt(z, w[k], START_CODE, g[k - 1], g[k])
  <2> TAKE k \in 1..(n + m)
  <2>1. CASE k <= n
    <3>1. k \in 1..n
      BY <1>1, <1>2, <2>1
    <3> QED BY <1>9, <3>1
  <2>2. CASE ~(k <= n)
    <3>0. PICK i \in 1..m : k = n + i
      <4>1. k - n \in 1..m /\ k = n + (k - n)
        BY <1>1, <1>2, <2>2
      <4> QED BY <4>1
    <3> QED BY <1>10, <3>0
  <2> QED BY <2>1, <2>2
<1>12. \A k \in 1..(n + m) : IsUnit(w[k])
  <2>1. (\A k \in 1..n : IsUnit(us[k])) /\ \A k \in 1..m : IsUnit(vs[k])
    BY DEF AreUnits, n, m
  <2> TAKE k \in 1..(n + m)
  <2>2. CASE k <= n
    <3>1. k \in 1..n
      BY <1>1, <1>2, <2>2
    <3> QED BY <1>4, <2>1, <3>1
  <2>3. CASE ~(k <= n)
    <3>0. PICK i \in 1..m : k = n + i
      <4>1. k - n \in 1..m /\ k = n + (k - n)
        BY <1>1, <1>2, <2>3
      <4> QED BY <4>1
    <3> QED BY <1>4, <2>1, <3>0
  <2> QED BY <2>2, <2>3
<1>13. AreUnits(w)
  BY <1>4, <1>12 DEF AreUnits
<1>14. Framed(z, w, Codes(w), g)
  <2>1. \A k \in 1..Len(w) : Codes(w)[k] = START_CODE
    BY DEF Codes
  <2>2. Len(z) \in Nat /\ Len(w) \in Nat
    BY <1>1, <1>2, <1>4, <1>5
  <2>3. \A k \in 1..Len(w) : FramedAt(z, w[k], Codes(w)[k], g[k - 1], g[k])
    BY <1>4, <1>11, <2>1
  <2> QED BY <1>4, <1>5, <1>6, <2>2, <2>3 DEF Framed
<1> QED BY <1>13, <1>14 DEF w, z

\* Bytes are numbers.
LEMMA BytesAreNumbers == Seq(0..255) \subseteq Seq(Nat)
<1> DEFINE A == 0..255
<1>1. A \subseteq Nat
  OBVIOUS
<1> HIDE DEF A
<1>2. \A s \in Seq(A) : s \in Seq(Nat)
  BY <1>1, SeqMonotonic
<1> QED BY <1>2 DEF A

\* The slices of an access unit are units, and none is a parameter set.
LEMMA SlicesAreUnits ==
    ASSUME NEW slices \in Slices
    PROVE  AreUnits(slices) /\ \A k \in 1..Len(slices) : ~IsParameterSet(slices[k])
<1>1. /\ slices \in Seq(Seq(0..255))
      /\ \A i \in 1..Len(slices) : IsUnit(slices[i]) /\ ~IsParameterSet(slices[i])
  BY StreamAssumption
<1>2. Seq(0..255) \subseteq Seq(Nat)
  BY BytesAreNumbers
<1>3. slices \in Seq(Seq(Nat))
  BY <1>1, <1>2, SeqMonotonic
<1> QED BY <1>1, <1>3 DEF AreUnits

\* The parameter sets of a format are two units, first the sequence's and then the picture's.
LEMMA PairIsUnits ==
    ASSUME NEW pair \in SetPairs
    PROVE  /\ AreUnits(pair) /\ Len(pair) = 2 /\ pair = <<pair[1], pair[2]>>
           /\ NalType(pair[1]) = NAL_SPS /\ NalType(pair[2]) = NAL_PPS
           /\ pair[1] \in Seq(0..255) /\ pair[2] \in Seq(0..255)
<1>1. /\ pair \in Seq(0..255) \X Seq(0..255) /\ IsUnit(pair[1]) /\ IsUnit(pair[2])
      /\ NalType(pair[1]) = NAL_SPS /\ NalType(pair[2]) = NAL_PPS
  BY StreamAssumption
<1>2. pair = <<pair[1], pair[2]>> /\ pair[1] \in Seq(0..255) /\ pair[2] \in Seq(0..255)
  BY <1>1
<1>3. Seq(0..255) \subseteq Seq(Nat)
  BY BytesAreNumbers
<1> DEFINE x == pair[1]
           y == pair[2]
<1>4. x \in Seq(Nat) /\ y \in Seq(Nat)
  BY <1>2, <1>3
<1> HIDE DEF x, y
<1>5. <<x, y>> \in Seq(Seq(Nat)) /\ Len(<<x, y>>) = 2
  BY <1>4
<1>6. pair \in Seq(Seq(Nat)) /\ Len(pair) = 2
  BY <1>2, <1>5 DEF x, y
<1>7. \A k \in 1..Len(pair) : IsUnit(pair[k])
  <2>1. \A k \in 1..2 : k = 1 \/ k = 2
    OBVIOUS
  <2> QED BY <1>1, <1>6, <2>1
<1> QED BY <1>1, <1>2, <1>6, <1>7 DEF AreUnits

\* The units after the first m.
LEMMA LaterIs ==
    ASSUME NEW us, NEW vs \in Seq(Seq(Nat)), NEW m \in Nat, NEW n \in Nat, n = m + Len(vs),
           \A k \in 1..Len(vs) : us[m + k] = vs[k]
    PROVE  Later(us, m, n) = vs
<1>1. Len(vs) \in Nat /\ vs = [k \in 1..Len(vs) |-> vs[k]]
  BY LenProperties
<1>2. n - m = Len(vs) /\ \A k \in 1..Len(vs) : k + m = m + k
  BY <1>1
<1> QED BY <1>1, <1>2 DEF Later

\* annex_b_to_avcc of a stream whose first m units are parameter sets.
AfterSets(us, m, vs) ==
    /\ AreUnits(us) /\ vs \in Seq(Seq(Nat)) /\ m \in Nat /\ Len(vs) \in Nat /\ Len(us) = m + Len(vs)
    /\ \A k \in 1..m : IsParameterSet(us[k])
    /\ \A k \in 1..Len(vs) : us[m + k] = vs[k] /\ ~IsParameterSet(vs[k])

\* What is left are the units after them.
LEMMA SetsLeftOut ==
    ASSUME NEW data, NEW us, NEW e, Framed(data, us, Codes(us), e), NEW m, NEW vs, AfterSets(us, m, vs)
    PROVE  AnnexBToAvcc(data) = Avcc(vs)
<1> DEFINE n == Len(us)
           at == {k \in DOMAIN us : ~IsParameterSet(us[k])}
<1>1. AreUnits(us) /\ us \in Seq(Seq(Nat)) /\ m \in Nat /\ Len(vs) \in Nat /\ n = m + Len(vs)
  BY DEF AfterSets, AreUnits
<1>2. SplitAnnexB(data) = us
  BY <1>1, SplitOf
<1>3. at = (m + 1)..n
  <2>1. DOMAIN us = 1..n
    BY <1>1, LenProperties
  <2>2. ASSUME NEW k \in 1..n PROVE IsParameterSet(us[k]) <=> k <= m
    <3>1. CASE k <= m
      <4>1. k \in 1..m
        BY <1>1, <3>1
      <4> QED BY <3>1, <4>1 DEF AfterSets
    <3>2. CASE ~(k <= m)
      <4>1. PICK i \in 1..Len(vs) : k = m + i
        <5>1. k - m \in 1..Len(vs) /\ k = m + (k - m)
          BY <1>1, <3>2
        <5> QED BY <5>1
      <4> QED BY <3>2, <4>1 DEF AfterSets
    <3> QED BY <3>1, <3>2
  <2> HIDE DEF n
  <2> QED BY <1>1, <2>1, <2>2
<1>4. Kept(us, at) = vs
  <2>1. Kept(us, (m + 1)..n) = Later(us, m, n)
    <3>1. n \in Nat /\ m <= n
      BY <1>1
    <3> HIDE DEF n
    <3> QED BY <1>1, <3>1, KeptFrom
  <2>2. Later(us, m, n) = vs
    <3>1. n \in Nat /\ vs \in Seq(Seq(Nat)) /\ \A k \in 1..Len(vs) : us[m + k] = vs[k]
      BY <1>1 DEF AfterSets
    <3> HIDE DEF n
    <3> QED BY <1>1, <3>1, LaterIs
  <2> QED BY <1>3, <2>1, <2>2
<1>5. AnnexBToAvcc(data) = Avcc(Kept(us, at))
  BY <1>2 DEF AnnexBToAvcc
<1> QED BY <1>4, <1>5

\* What the decoder makes of a frame without parameter sets: its slices, and the sets it had.
LEMMA SlicesReceived ==
    ASSUME NEW slices \in Slices
    PROVE  LET data == WithStartCodes(slices)
           IN  /\ data \in Seq(Nat) /\ AnnexBToAvcc(data) = Avcc(slices)
               /\ Absorbed(data) = [sps |-> sets.sps, pps |-> sets.pps]
<1> DEFINE data == WithStartCodes(slices)
<1>1. AreUnits(slices) /\ slices \in Seq(Seq(Nat)) /\ \A k \in 1..Len(slices) : ~IsParameterSet(slices[k])
  BY SlicesAreUnits DEF AreUnits
<1>2. PICK e : Framed(data, slices, Codes(slices), e)
  BY <1>1, StartCodesFrame
<1> HIDE DEF data
<1>3. data \in Seq(Nat)
  BY <1>2 DEF Framed
<1>4. SplitAnnexB(data) = slices
  BY <1>1, <1>2, SplitOf
<1>5. PICK m \in Nat : m = 0
  OBVIOUS
<1>6. AfterSets(slices, m, slices)
  <2>1. Len(slices) \in Nat
    BY <1>1, LenProperties
  <2>2. Len(slices) = m + Len(slices) /\ 1..m = {} /\ \A k \in 1..Len(slices) : m + k = k
    BY <1>5, <2>1
  <2> QED BY <1>1, <2>1, <2>2 DEF AfterSets
<1>7. AnnexBToAvcc(data) = Avcc(slices)
  BY <1>2, <1>6, SetsLeftOut
<1>8. ASSUME NEW type \in {NAL_SPS, NAL_PPS} PROVE {k \in DOMAIN slices : NalType(slices[k]) = type} = {}
  <2>1. DOMAIN slices = 1..Len(slices)
    BY <1>1, LenProperties
  <2> QED BY <1>1, <2>1 DEF IsParameterSet
<1>9. Absorbed(data) = [sps |-> sets.sps, pps |-> sets.pps]
  BY <1>4, <1>8 DEF Absorbed
<1> QED BY <1>3, <1>7, <1>9 DEF data

\* What it makes of one with them: the slices, and these sets.
LEMMA KeyframeReceived ==
    ASSUME NEW pair \in SetPairs, NEW slices \in Slices
    PROVE  LET data == WithStartCodes(pair) \o WithStartCodes(slices)
           IN  /\ data \in Seq(Nat) /\ AnnexBToAvcc(data) = Avcc(slices)
               /\ Absorbed(data) = [sps |-> pair[1], pps |-> pair[2]]
<1> DEFINE x == WithStartCodes(pair)
           y == WithStartCodes(slices)
           data == x \o y
           us == pair \o slices
<1>1. AreUnits(slices) /\ slices \in Seq(Seq(Nat)) /\ \A k \in 1..Len(slices) : ~IsParameterSet(slices[k])
  BY SlicesAreUnits DEF AreUnits
<1>2. /\ AreUnits(pair) /\ pair \in Seq(Seq(Nat)) /\ Len(pair) = 2
      /\ NalType(pair[1]) = NAL_SPS /\ NalType(pair[2]) = NAL_PPS
  BY PairIsUnits DEF AreUnits
<1>3. PICK e : Framed(x, pair, Codes(pair), e)
  BY <1>2, StartCodesFrame
<1>4. PICK f : Framed(y, slices, Codes(slices), f)
  BY <1>1, StartCodesFrame
<1>5. AreUnits(us) /\ \E g : Framed(data, us, Codes(us), g)
  <2> HIDE DEF x, y
  <2> QED BY <1>1, <1>2, <1>3, <1>4, FramesJoin
<1>6. /\ us \in Seq(Seq(Nat)) /\ Len(us) = 2 + Len(slices) /\ Len(slices) \in Nat
      /\ \A k \in 1..2 : us[k] = pair[k]
      /\ \A k \in 1..Len(slices) : us[2 + k] = slices[k]
  <2>1. /\ us \in Seq(Seq(Nat)) /\ Len(us) = Len(pair) + Len(slices) /\ Len(slices) \in Nat
        /\ \A k \in 1..Len(pair) : us[k] = pair[k]
        /\ \A k \in 1..Len(slices) : us[Len(pair) + k] = slices[k]
    <3>1. pair \in Seq(Seq(Nat)) /\ slices \in Seq(Seq(Nat))
      BY <1>1, <1>2
    <3> QED BY <3>1, JoinOf
  <2> QED BY <1>2, <2>1
<1> HIDE DEF x, y, data, us
<1>7. PICK g : Framed(data, us, Codes(us), g)
  BY <1>5
<1>8. data \in Seq(Nat)
  BY <1>7 DEF Framed
<1>9. SplitAnnexB(data) = us
  BY <1>5, <1>7, SplitOf
<1>10. PICK m \in Nat : m = 2
  OBVIOUS
<1>11. us[1] = pair[1] /\ us[2] = pair[2] /\ \A k \in 1..2 : k = 1 \/ k = 2
  BY <1>6
<1>12. AfterSets(us, m, slices)
  <2>1. \A k \in 1..m : IsParameterSet(us[k])
    BY <1>2, <1>10, <1>11 DEF IsParameterSet
  <2> QED BY <1>1, <1>5, <1>6, <1>10, <2>1 DEF AfterSets
<1>13. AnnexBToAvcc(data) = Avcc(slices)
  BY <1>7, <1>12, SetsLeftOut
<1>14. DOMAIN us = 1..(2 + Len(slices))
  BY <1>6, LenProperties
<1>15. ASSUME NEW k \in DOMAIN us, k # 1, k # 2 PROVE NalType(us[k]) # NAL_SPS /\ NalType(us[k]) # NAL_PPS
  <2>1. PICK i \in 1..Len(slices) : k = 2 + i
    <3> DEFINE n == Len(slices)
    <3>0. n \in Nat /\ k \in 1..(2 + n)
      BY <1>6, <1>14
    <3> HIDE DEF n
    <3>1. k - 2 \in 1..n /\ k = 2 + (k - 2)
      BY <1>15, <3>0
    <3> QED BY <3>1 DEF n
  <2> QED BY <1>1, <1>6, <2>1 DEF IsParameterSet
<1>16. 1 \in DOMAIN us /\ 2 \in DOMAIN us
  BY <1>6, <1>14
<1>17. {k \in DOMAIN us : NalType(us[k]) = NAL_SPS} = {1} /\ {k \in DOMAIN us : NalType(us[k]) = NAL_PPS} = {2}
  <2>1. NAL_SPS # NAL_PPS
    BY DEF NAL_SPS, NAL_PPS
  <2> QED BY <1>2, <1>11, <1>15, <1>16, <2>1
<1>18. (CHOOSE n \in {1} : \A k \in {1} : k <= n) = 1 /\ (CHOOSE n \in {2} : \A k \in {2} : k <= n) = 2
  OBVIOUS
<1>19. Absorbed(data) = [sps |-> us[1], pps |-> us[2]]
  BY <1>9, <1>17, <1>18 DEF Absorbed
<1> QED BY <1>8, <1>11, <1>13, <1>19 DEF data, x, y

\* The bytes of the frame under way.
SentAs(slices, with) ==
    IF with = NoSet THEN WithStartCodes(slices) ELSE WithStartCodes(with) \o WithStartCodes(slices)

\* The inductive invariant of the bitstream: a frame under way is the slices behind start
\* codes, with the parameter sets of a format in front of them or none, nothing has become
\* of it yet, and a session is built from the sets the decoder holds.
StreamInv ==
    /\ format \in SetPairs
    /\ emitted.sets = NoSet \/ emitted.sets \in SetPairs
    /\ sets = [sps |-> sets.sps, pps |-> sets.pps]
    /\ session # NoSession => session = <<sets.sps, sets.pps>>
    /\ access # NoAccess =>
         /\ emitted.slices \in Slices /\ given = NotGiven("pending")
         /\ access = SentAs(emitted.slices, emitted.sets)
    /\ SlicesArrive

\* What a frame that no session got says of itself.
LEMMA NoFrameYet ==
    ASSUME NEW why PROVE NotGiven(why).result = why
BY DEF NotGiven

\* It holds at the start.
LEMMA StreamInitInv == StreamInit => StreamInv
BY NoFrameYet DEF StreamInit, StreamInv, Forgotten, SlicesArrive

\* A new frame is its slices behind start codes, as avcc_to_annex_b of them is.
LEMMA EncodeAccessInv ==
    ASSUME StreamInv, EncodeAccess PROVE StreamInv'
<1>1. PICK slices \in Slices, forced \in BOOLEAN, extracted \in BOOLEAN :
        LET key == newEncoder \/ forced
            data == AvccToAnnexB(Avcc(slices))
        IN  /\ access' = IF key /\ extracted THEN WithStartCodes(format) \o data ELSE data
            /\ emitted' = [slices |-> slices, sets |-> IF key /\ extracted THEN format ELSE NoSet]
  BY DEF EncodeAccess
<1>2. AvccToAnnexB(Avcc(slices)) = WithStartCodes(slices)
  BY SlicesAreUnits, AnnexBOfAvcc
<1>3. format \in SetPairs /\ format # NoSet
  BY StreamAssumption DEF StreamInv
<1>4. emitted'.slices = slices /\ (emitted'.sets = format \/ emitted'.sets = NoSet)
  BY <1>1
<1>5. access' = SentAs(emitted'.slices, emitted'.sets)
  <2>1. CASE (newEncoder \/ forced) /\ extracted
    <3>1. access' = WithStartCodes(format) \o WithStartCodes(slices) /\ emitted'.sets = format
      BY <1>1, <1>2, <2>1
    <3> QED BY <1>3, <1>4, <3>1 DEF SentAs
  <2>2. CASE ~((newEncoder \/ forced) /\ extracted)
    <3>1. access' = WithStartCodes(slices) /\ emitted'.sets = NoSet
      BY <1>1, <1>2, <2>2
    <3> QED BY <1>4, <3>1 DEF SentAs
  <2> QED BY <2>1, <2>2
<1>6. given' = NotGiven("pending") /\ UNCHANGED <<format, sets, session>>
  BY DEF EncodeAccess
<1>7. given'.result # "Ok" /\ given'.result # "AwaitingParameterSets"
  BY <1>6, NoFrameYet
<1>8. SlicesArrive'
  BY <1>7 DEF SlicesArrive
<1> QED BY <1>3, <1>4, <1>5, <1>6, <1>8 DEF StreamInv

\* The decoder finds the slices and the sets, and builds a session that has these.
LEMMA DecodeAccessInv ==
    ASSUME StreamInv, DecodeAccess PROVE StreamInv'
<1> DEFINE slices == emitted.slices
           pair == emitted.sets
           now == Absorbed(access)
           kept == IF now # sets THEN NoSession ELSE session
<1>1. /\ slices \in Slices /\ access = SentAs(slices, pair) /\ (pair = NoSet \/ pair \in SetPairs)
      /\ sets = [sps |-> sets.sps, pps |-> sets.pps]
      /\ session # NoSession => session = <<sets.sps, sets.pps>>
  BY DEF StreamInv, DecodeAccess
<1>2. UNCHANGED <<format, emitted>> /\ access' = NoAccess
  BY DEF DecodeAccess
<1> HIDE DEF slices, pair
<1>3. /\ AnnexBToAvcc(access) = Avcc(slices) /\ now = [sps |-> now.sps, pps |-> now.pps]
      /\ pair # NoSet => pair = <<now.sps, now.pps>> /\ now.sps # NoSet /\ now.pps # NoSet
  <2>1. CASE pair = NoSet
    <3>1. access = WithStartCodes(slices)
      BY <1>1, <2>1 DEF SentAs
    <3>2. AnnexBToAvcc(access) = Avcc(slices) /\ now = [sps |-> sets.sps, pps |-> sets.pps]
      BY <1>1, <3>1, SlicesReceived
    <3> HIDE DEF now
    <3> QED BY <2>1, <3>2
  <2>2. CASE pair # NoSet
    <3>1. pair \in SetPairs /\ access = WithStartCodes(pair) \o WithStartCodes(slices)
      BY <1>1, <2>2 DEF SentAs
    <3>2. AnnexBToAvcc(access) = Avcc(slices) /\ now = [sps |-> pair[1], pps |-> pair[2]]
      BY <1>1, <3>1, KeyframeReceived
    <3>3. pair = <<pair[1], pair[2]>> /\ pair[1] # NoSet /\ pair[2] # NoSet
      BY <3>1, PairIsUnits, StreamAssumption
    <3> HIDE DEF now
    <3> QED BY <3>2, <3>3
  <2> QED BY <2>1, <2>2
<1>4. \/ /\ kept # NoSession /\ sets' = now /\ session' = kept /\ Give(access)
      \/ /\ NoSet \in {now.sps, now.pps} \/ now.sps = NoSet
         /\ sets' = now /\ session' = NoSession /\ given' = NotGiven("AwaitingParameterSets")
      \/ sets' = now /\ session' = <<now.sps, now.pps>> /\ Give(access)
      \/ sets' \in {now, Forgotten} /\ session' = NoSession
         /\ given' \in {NotGiven("MalformedBitstream"), NotGiven("Unavailable")}
  BY DEF DecodeAccess
<1> HIDE DEF now
<1>5. kept # NoSession => kept = <<now.sps, now.pps>>
  BY <1>1
<1> HIDE DEF kept
<1>6. /\ sets' = [sps |-> sets'.sps, pps |-> sets'.pps]
      /\ session' # NoSession => session' = <<sets'.sps, sets'.pps>>
  BY <1>3, <1>4, <1>5 DEF Forgotten
<1>7. /\ given'.result = "Ok" => given'.avcc = Avcc(slices) /\ (pair # NoSet => given'.by = pair)
      /\ pair # NoSet => given'.result # "AwaitingParameterSets"
  <2>1. CASE session' = <<now.sps, now.pps>> /\ Give(access)
    <3>1. given'.result = "Ok" /\ given'.avcc = AnnexBToAvcc(access) /\ given'.by = session'
      BY <2>1 DEF Give
    <3> QED BY <1>3, <2>1, <3>1
  <2>2. CASE given' = NotGiven("AwaitingParameterSets") /\ (NoSet \in {now.sps, now.pps} \/ now.sps = NoSet)
    <3>1. given'.result = "AwaitingParameterSets"
      BY <2>2, NoFrameYet
    <3> QED BY <1>3, <2>2, <3>1
  <2>3. CASE given' \in {NotGiven("MalformedBitstream"), NotGiven("Unavailable")}
    <3>1. given'.result \in {"MalformedBitstream", "Unavailable"}
      BY <2>3, NoFrameYet
    <3> QED BY <3>1
  <2> QED BY <1>4, <1>5, <2>1, <2>2, <2>3
<1>8. SlicesArrive'
  BY <1>2, <1>7 DEF SlicesArrive, slices, pair
<1> QED BY <1>2, <1>6, <1>8 DEF StreamInv

\* A frame that reaches a session of the decoder reaches it as the encoder made it, and
\* with the parameter sets it carried.
THEOREM SlicesKeepArriving == StreamSpec => []SlicesArrive
<1>1. StreamInv /\ [StreamNext]_streamVars => StreamInv'
  <2> SUFFICES ASSUME StreamInv, [StreamNext]_streamVars PROVE StreamInv'
    OBVIOUS
  <2>1. CASE NewFormat
    BY <2>1 DEF StreamInv, NewFormat, SlicesArrive
  <2>2. CASE EncodeAccess
    BY <2>2, EncodeAccessInv
  <2>3. CASE LoseAccess
    BY <2>3 DEF StreamInv, LoseAccess, SlicesArrive
  <2>4. CASE DecodeAccess
    BY <2>4, DecodeAccessInv
  <2>5. CASE ResetDecoder
    BY <2>5 DEF StreamInv, ResetDecoder, Forgotten, SlicesArrive
  <2>6. CASE UNCHANGED streamVars
    BY <2>6 DEF StreamInv, streamVars, SlicesArrive
  <2> QED BY <2>1, <2>2, <2>3, <2>4, <2>5, <2>6 DEF StreamNext
<1>2. StreamInv => SlicesArrive
  BY DEF StreamInv
<1> QED BY <1>1, <1>2, StreamInitInv, PTL DEF StreamSpec

-----------------------------------------------------------------------------
(* The window                                                              *)

\* A division and what it leaves.
LEMMA Division ==
    ASSUME NEW a \in Nat, NEW b \in Nat \ {0}
    PROVE  /\ a \div b \in Nat
           /\ (a \div b) * b <= a
           /\ a < (a \div b) * b + b
  OBVIOUS

\* A factor cancels, and multiplies.
LEMMA Cancelled ==
    ASSUME NEW a \in Int, NEW b \in Int, NEW c \in Nat \ {0}, a * c < b * c
    PROVE  a < b
  OBVIOUS

\* scale_bgra: the row (column) of the frame that row (column) s of the screen goes into.
LEMMA EverySourceIsRead ==
    ASSUME NEW to \in Nat \ {0}, NEW from \in Nat \ {0}, NEW s \in Nat, s < from
    PROVE  \E d \in 0..(to - 1) : s \in SourceOf(d, to, from)
<1> DEFINE d == (s * to) \div from
           first == (d * from) \div to
           end == ((d + 1) * from + to - 1) \div to
<1>1. d \in Nat /\ d * from <= s * to /\ s * to < d * from + from
  <2>1. s * to \in Nat
    OBVIOUS
  <2> QED BY <2>1, Division
<1>2. d < to
  <2>1. d * from < to * from
    BY <1>1
  <2> QED BY <1>1, <2>1, Cancelled
<1>3. first \in Nat /\ first <= s
  <2>1. d * from \in Nat
    BY <1>1
  <2>2. first \in Nat /\ first * to <= d * from
    BY <2>1, Division
  <2>3. first * to < (s + 1) * to
    BY <1>1, <2>2
  <2> QED BY <2>2, <2>3, Cancelled
<1>4. end \in Nat /\ s < end
  <2>1. (d + 1) * from + to - 1 \in Nat /\ (d + 1) * from + to - 1 >= (s + 1) * to
    BY <1>1
  <2>2. end \in Nat /\ (d + 1) * from + to - 1 < end * to + to
    BY <2>1, Division
  <2>3. s * to < end * to
    BY <2>1, <2>2
  <2> QED BY <2>2, <2>3, Cancelled
<1>5. s \in SourceOf(d, to, from)
  <2>1. SourceOf(d, to, from) = first .. (AtLeast(AtMost(end, from), first + 1) - 1)
    BY DEF SourceOf, DivCeil
  <2> HIDE DEF first, end, d
  <2> QED BY <1>3, <1>4, <2>1 DEF AtLeast, AtMost
<1> HIDE DEF d
<1> QED BY <1>1, <1>2, <1>5

\* Multiplying keeps an order.
LEMMA Multiplied ==
    ASSUME NEW a \in Int, NEW b \in Int, NEW c \in Nat, a <= b
    PROVE  a * c <= b * c
  OBVIOUS

\* floor(num * from / den), the source pixel at a fraction of the picture, is among those
\* shown in the pixel of the frame at that fraction.
LEMMA PixelUnderFraction ==
    ASSUME NEW to \in Nat \ {0}, NEW from \in Nat \ {0}, NEW d \in Nat, d < to,
           NEW num \in Int, NEW den \in Nat \ {0},
           d * den <= num * to, num * to < (d + 1) * den
    PROVE  /\ num \in Nat /\ num < den
           /\ (num * from) \div den \in Shown(d, to, from)
<1> DEFINE s == (num * from) \div den
<1>1. num \in Nat /\ num < den
  <2>1. (d + 1) * den <= to * den
    BY Multiplied
  <2>2. num * to < den * to
    BY <2>1
  <2>3. 0 * to <= num * to
    OBVIOUS
  <2> QED BY <2>2, <2>3
<1>2. s \in Nat /\ s * den <= num * from /\ num * from < s * den + den
  <2>1. num * from \in Nat
    BY <1>1
  <2> QED BY <2>1, Division
<1> HIDE DEF s
<1>3. s < from
  <2>1. s * den < from * den
    BY <1>1, <1>2
  <2> QED BY <1>2, <2>1, Cancelled
<1>4. CASE to = from
  <2>1. s * den < (d + 1) * den
    BY <1>2, <1>4
  <2>2. d * den < (s + 1) * den
    BY <1>2, <1>4
  <2>3. s < d + 1 /\ d < s + 1
    BY <1>2, <2>1, <2>2, Cancelled
  <2>4. s = d
    BY <1>2, <2>3
  <2> QED BY <1>1, <1>4, <2>4 DEF Shown, s
<1>5. CASE to # from
  <2> DEFINE first == (d * from) \div to
             end == ((d + 1) * from + to - 1) \div to
  <2>1. first \in Nat /\ first <= s
    <3>1. d * from \in Nat
      OBVIOUS
    <3>2. first \in Nat /\ first * to <= d * from
      BY <3>1, Division
    <3> HIDE DEF first
    <3>3. (first * to) * den <= (d * from) * den
      BY <3>1, <3>2, Multiplied
    <3>4. (d * den) * from <= (num * to) * from
      BY Multiplied
    <3>5. (first * den) * to <= (num * from) * to
      BY <1>1, <3>2, <3>3, <3>4
    <3>6. (num * from) * to < (s * den + den) * to
      BY <1>1, <1>2
    <3>7. (first * den) * to < ((s + 1) * den) * to
      BY <1>1, <1>2, <3>2, <3>5, <3>6
    <3>8. first * den < (s + 1) * den
      BY <1>2, <3>2, <3>7, Cancelled
    <3>9. first < s + 1
      BY <1>2, <3>2, <3>8, Cancelled
    <3> QED BY <1>2, <3>2, <3>9
  <2>2. end \in Nat /\ s < end
    <3>1. (d + 1) * from + to - 1 \in Nat
      OBVIOUS
    <3>2. end \in Nat /\ (d + 1) * from + to - 1 < end * to + to
      BY <3>1, Division
    <3> HIDE DEF end
    <3>3. (s * den) * to <= (num * from) * to
      BY <1>1, <1>2, Multiplied
    <3>4. (num * to) * from < ((d + 1) * den) * from
      OBVIOUS
    <3>5. (s * to) * den < ((d + 1) * from) * den
      BY <1>1, <1>2, <3>3, <3>4
    <3>6. s * to < (d + 1) * from
      BY <1>2, <3>5, Cancelled
    <3>7. s * to < end * to
      BY <1>2, <3>2, <3>6
    <3> QED BY <1>2, <3>2, <3>7, Cancelled
  <2>3. SourceOf(d, to, from) = first .. (AtLeast(AtMost(end, from), first + 1) - 1)
    BY DEF SourceOf, DivCeil
  <2> HIDE DEF first, end
  <2>4. s \in SourceOf(d, to, from)
    BY <1>2, <1>3, <2>1, <2>2, <2>3 DEF AtLeast, AtMost
  <2> QED BY <1>1, <1>5, <2>4 DEF Shown, s
<1> QED BY <1>4, <1>5

\* The fraction the viewer computes is where the pixel is drawn, with bars or without.
LEMMA FractionIsWhereDrawn ==
    ASSUME NEW axis \in Axes, NEW d \in Nat, NEW at,
           \A a \in Axes : window[a] \in Nat \ {0} /\ canvas[a] \in Nat \ {0} /\ at[a] \in Nat,
           DrawnAt(axis, d, at)
    PROVE  LET f == Fraction(axis, window, canvas, at)
           IN  /\ f.num \in Int /\ f.den \in Nat \ {0}
               /\ d * f.den <= f.num * canvas[axis]
               /\ f.num * canvas[axis] < (d + 1) * f.den
<1> DEFINE other == 3 - axis
           t == CHOOSE t \in Axes : \A u \in Axes : window[t] * canvas[u] <= window[u] * canvas[t]
           f == Fraction(axis, window, canvas, at)
<1>1. axis \in {1, 2} /\ other \in {1, 2} /\ other # axis /\ Axes = {axis, other}
  BY DEF Axes
<1>2. PICK w \in Nat \ {0}, v \in Nat \ {0}, c \in Nat \ {0}, b \in Nat \ {0}, p \in Nat :
         w = window[axis] /\ v = window[other] /\ c = canvas[axis] /\ b = canvas[other] /\ p = at[axis]
  BY <1>1 DEF Axes
<1>3. t \in Axes /\ \A u \in Axes : window[t] * canvas[u] <= window[u] * canvas[t]
  <2>1. w * c <= w * c /\ v * b <= v * b
    OBVIOUS
  <2>2. w * b <= v * c \/ v * c <= w * b
    OBVIOUS
  <2>3. \E x \in Axes : \A u \in Axes : window[x] * canvas[u] <= window[u] * canvas[x]
    BY <1>1, <1>2, <2>1, <2>2
  <2> QED BY <2>3
<1>4. /\ window[axis] * canvas[t] + (2 * d - canvas[axis]) * window[t] <= 2 * at[axis] * canvas[t]
      /\ 2 * at[axis] * canvas[t] < window[axis] * canvas[t] + (2 * (d + 1) - canvas[axis]) * window[t]
  BY DEF DrawnAt
<1>5. f = IF w * b <= v * c THEN [num |-> p, den |-> w]
          ELSE [num |-> 2 * p * b - (w * b - v * c), den |-> 2 * v * c]
  BY <1>2 DEF Fraction
<1> HIDE DEF t, f, other
<1>6. CASE t = axis
  <2>1. w * b <= v * c
    BY <1>1, <1>2, <1>3, <1>6
  <2>2. f.num = p /\ f.den = w
    BY <1>5, <2>1
  <2>3. w * c + (2 * d - c) * w <= 2 * p * c /\ 2 * p * c < w * c + (2 * (d + 1) - c) * w
    BY <1>2, <1>4, <1>6
  <2>4. d * w <= p * c /\ p * c < (d + 1) * w
    BY <2>3
  <2> QED BY <1>2, <2>2, <2>4 DEF f
<1>7. CASE t = other
  <2>1. v * c <= w * b
    BY <1>1, <1>2, <1>3, <1>7
  <2>2. w * b + (2 * d - c) * v <= 2 * p * b /\ 2 * p * b < w * b + (2 * (d + 1) - c) * v
    BY <1>2, <1>4, <1>7
  <2>3. CASE w * b <= v * c
    <3>1. w * b = v * c
      BY <2>1, <2>3
    <3>2. d * v <= p * b /\ p * b < (d + 1) * v
      BY <2>2, <3>1
    <3>3. (d * v) * c <= (p * b) * c /\ (p * b) * c < ((d + 1) * v) * c
      BY <3>2
    <3>4. (d * w) * b = (d * v) * c /\ ((d + 1) * w) * b = ((d + 1) * v) * c
      BY <3>1
    <3>5. (d * w) * b < (p * c + 1) * b /\ (p * c) * b < ((d + 1) * w) * b
      BY <3>3, <3>4
    <3>6. d * w < p * c + 1 /\ p * c < (d + 1) * w
      BY <3>5, Cancelled
    <3>7. f.num = p /\ f.den = w
      BY <1>5, <2>3
    <3>8. d * w <= p * c
      BY <3>6
    <3> QED BY <1>2, <3>6, <3>7, <3>8 DEF f
  <2>4. CASE ~(w * b <= v * c)
    <3> DEFINE n == 2 * p * b - (w * b - v * c)
    <3>1. f.num = n /\ f.den = 2 * v * c
      BY <1>5, <2>4
    <3>2. n \in Int /\ 2 * v * c \in Nat \ {0}
      OBVIOUS
    <3>3. d * (2 * v) <= n /\ n < (d + 1) * (2 * v)
      BY <2>2
    <3> HIDE DEF n
    <3>4. (d * (2 * v)) * c <= n * c /\ n * c < ((d + 1) * (2 * v)) * c
      BY <3>2, <3>3
    <3>5. d * (2 * v * c) <= n * c /\ n * c < (d + 1) * (2 * v * c)
      BY <3>4
    <3> QED BY <1>2, <3>1, <3>2, <3>5 DEF f
  <2> QED BY <2>3, <2>4
<1> QED BY <1>1, <1>3, <1>6, <1>7

\* The rounding of a fraction to the wire, and back to a point of the display: at most
\* one point too far, and at most two too near.
LEMMA PointOfFraction ==
    ASSUME NEW num \in Nat, NEW den \in Nat \ {0}, num < den, NEW W \in Nat \ {0}, NEW k \in Nat \ {0},
           NEW l \in Nat \ {0}, 2 * k * l <= 2 * W + k, 2 * W + k < 2 * k * l + 2 * k,
           NEW N \in Nat \ {0}, l <= N,
           NEW n \in Nat, 2 * den * n <= 2 * num * N + den, 2 * num * N + den < 2 * den * n + 2 * den,
           NEW c \in Nat, c * N <= n * (l - 1), n * (l - 1) < c * N + N,
           NEW q \in Nat, q * k * den <= num * W, num * W < (q + 1) * k * den
    PROVE  c <= q + 1 /\ q <= c + 2
<1> DEFINE m == l - 1
<1>1. m \in Nat /\ m <= N /\ c * N <= n * m /\ n * m < (c + 1) * N
  OBVIOUS
<1>2. 2 * k * m <= 2 * W - k /\ 2 * W - 3 * k < 2 * k * m
  OBVIOUS
<1> HIDE DEF m
<1>3. den * m <= den * N
  BY <1>1
<1>4. num * (2 * k * m) <= num * (2 * W - k) /\ num * (2 * W - 3 * k) <= num * (2 * k * m)
  BY <1>1, <1>2
<1>5. c <= q + 1
  <2>1. (2 * den) * (c * N) <= (2 * den) * (n * m)
    BY <1>1
  <2>2. (2 * den * n) * m <= (2 * num * N + den) * m
    BY <1>1, Multiplied
  <2>3. (2 * den * c) * N <= (2 * num * m + den) * N
    BY <1>1, <1>3, <2>1, <2>2
  <2>4. 2 * den * c <= 2 * num * m + den
    <3>1. (2 * den * c) * N < (2 * num * m + den + 1) * N
      BY <1>1, <2>3
    <3>2. 2 * den * c \in Int /\ 2 * num * m + den + 1 \in Int
      BY <1>1
    <3>3. 2 * den * c < 2 * num * m + den + 1
      BY <3>1, <3>2, Cancelled
    <3> QED BY <1>1, <3>3
  <2>5. (2 * den * c) * k <= (2 * num * m + den) * k
    BY <1>1, <2>4
  <2>6. (2 * den * c) * k <= 2 * (num * W) + den * k
    BY <1>1, <1>4, <2>5
  <2>7. (2 * c) * (den * k) < (2 * q + 3) * (den * k)
    BY <2>6
  <2>8. 2 * c < 2 * q + 3
    BY <2>7, Cancelled
  <2> QED BY <2>8
<1>6. q <= c + 2
  <2>1. (2 * den) * (n * m) < (2 * den) * ((c + 1) * N)
    BY <1>1
  <2>2. (2 * num * N - den) * m <= (2 * den * n) * m
    BY <1>1, Multiplied
  <2>3. (2 * num * m - den) * N < (2 * den * (c + 1)) * N
    BY <1>1, <1>3, <2>1, <2>2
  <2>4. 2 * num * m - den < 2 * den * (c + 1)
    <3>1. 2 * num * m - den \in Int /\ 2 * den * (c + 1) \in Int
      BY <1>1
    <3> QED BY <3>1, <2>3, Cancelled
  <2>5. (2 * num * m - den) * k < (2 * den * (c + 1)) * k
    BY <1>1, <2>4
  <2>6. 2 * (num * W) - 3 * (num * k) - den * k < (2 * den * (c + 1)) * k
    BY <1>1, <1>4, <2>5
  <2>7. num * k <= den * k
    OBVIOUS
  <2>8. (2 * q) * (den * k) < (2 * c + 6) * (den * k)
    BY <2>6, <2>7
  <2>9. 2 * q < 2 * c + 6
    BY <2>8, Cancelled
  <2> QED BY <2>9
<1> QED BY <1>5, <1>6

\* The same of one axis, as map_to_remote and denormalise compute it. The point is one of
\* those that the pixel under the fraction lies on.
LEMMA CursorOfFraction ==
    ASSUME display \in Screens, NEW axis \in Axes, NEW f, f.num \in Nat, f.den \in Nat \ {0}, f.num < f.den,
           NEW norm, norm[axis] = ToNorm(f)
    PROVE  \E p \in PointsOf((f.num * display.pixels[axis]) \div f.den) :
               p \in (Denormalise(display, norm)[axis] - 1) .. (Denormalise(display, norm)[axis] + 2)
<1> DEFINE U == PERMILLE
           w == display.pixels[axis]
           W == U * w
           k == display.scale
           l == (2 * W + k) \div (2 * k)
           n == (2 * f.num * NORM + f.den) \div (2 * f.den)
           c == (n * (l - 1)) \div NORM
           s == (f.num * w) \div f.den
           q == (f.num * W) \div (k * f.den)
<1>1. /\ w \in Nat \ {0} /\ k \in Nat \ {0} /\ NORM \in Nat \ {0} /\ k <= W /\ w <= NORM
      /\ U \in Nat \ {0} /\ U <= k /\ U = 1000
  BY PictureAssumption DEF Axes, PERMILLE
<1> HIDE DEF U
<1>0. W \in Nat \ {0}
  <2> HIDE DEF w
  <2> QED BY <1>1
<1>2. l \in Nat /\ l * (2 * k) <= 2 * W + k /\ 2 * W + k < l * (2 * k) + 2 * k
  <2> HIDE DEF W
  <2>1. 2 * W + k \in Nat /\ 2 * k \in Nat \ {0}
    BY <1>0, <1>1
  <2> QED BY <2>1, Division
<1>3. l # 0 /\ l <= NORM
  <2>0. W <= k * w
    <3> HIDE DEF w, k
    <3> QED BY <1>1
  <2> HIDE DEF w, W, k, l
  <2>1. l # 0
    BY <1>0, <1>1, <1>2
  <2>2. l * (2 * k) < (w + 1) * (2 * k)
    BY <1>0, <1>1, <1>2, <2>0
  <2>3. l < w + 1
    <3>1. 2 * k \in Nat \ {0}
      BY <1>1
    <3> QED BY <1>1, <1>2, <2>2, <3>1, Cancelled
  <2> QED BY <1>1, <1>2, <2>1, <2>3
<1>4. n \in Nat /\ n * (2 * f.den) <= 2 * f.num * NORM + f.den
      /\ 2 * f.num * NORM + f.den < n * (2 * f.den) + 2 * f.den
  <2>1. 2 * f.num * NORM + f.den \in Nat /\ 2 * f.den \in Nat \ {0}
    BY <1>1
  <2> QED BY <2>1, Division
<1>5. c \in Nat /\ c * NORM <= n * (l - 1) /\ n * (l - 1) < c * NORM + NORM
  <2>1. n * (l - 1) \in Nat
    <3> HIDE DEF n, l
    <3> QED BY <1>2, <1>3, <1>4
  <2> DEFINE y == n * (l - 1)
  <2>2. y \in Nat /\ c = y \div NORM
    BY <2>1
  <2> HIDE DEF y, c
  <2>3. c \in Nat /\ c * NORM <= y /\ y < c * NORM + NORM
    BY <1>1, <2>2, Division
  <2> QED BY <2>3 DEF y
<1>6. s \in Nat /\ s * f.den <= f.num * w /\ f.num * w < s * f.den + f.den
  <2>1. f.num * w \in Nat
    BY <1>1
  <2> QED BY <2>1, Division
<1>7. q \in Nat /\ q * (k * f.den) <= f.num * W /\ f.num * W < q * (k * f.den) + k * f.den
  <2>1. f.num * W \in Nat /\ k * f.den \in Nat \ {0}
    <3> HIDE DEF W, k
    <3> QED BY <1>0, <1>1
  <2> QED BY <2>1, Division
<1>8. ToNorm(f) = n
  BY DEF ToNorm, AtLeast, AtMost
<1>9. Denormalise(display, norm)[axis] = c
  <2>1. AtLeast(l - 1, 0) = l - 1
    <3> HIDE DEF l
    <3> QED BY <1>2, <1>3 DEF AtLeast
  <2>2. LogicalSize(display)[axis] = l
    <3>1. AtLeast(display.scale, 10) = k
      BY <1>1 DEF AtLeast
    <3>2. 2 * PERMILLE * display.pixels[axis] = 2 * W
      <4> HIDE DEF w
      <4> QED BY <1>1 DEF U, w
    <3> QED BY <3>1, <3>2 DEF LogicalSize
  <2>3. Denormalise(display, norm)[axis] = (norm[axis] * AtLeast(LogicalSize(display)[axis] - 1, 0)) \div NORM
    BY DEF Denormalise
  <2> QED BY <1>8, <2>1, <2>2, <2>3
<1> DEFINE low == (U * s) \div k
           high == (U * (s + 1) - 1) \div k
<1>20. low \in Nat /\ low * k <= U * s
  <2> HIDE DEF s, k
  <2>1. U * s \in Nat
    BY <1>1, <1>6
  <2> QED BY <1>1, <2>1, Division
<1>21. high \in Nat /\ U * (s + 1) - 1 < high * k + k
  <2> HIDE DEF s, k
  <2> DEFINE y == U * (s + 1) - 1
  <2>1. y \in Nat
    BY <1>1, <1>6
  <2>2. high = y \div k
    OBVIOUS
  <2> HIDE DEF y, high
  <2>3. high \in Nat /\ y < high * k + k
    BY <1>1, <2>1, <2>2, Division
  <2> QED BY <2>3 DEF y
<1> HIDE DEF l, n, c, s, q, low, high, k
<1>22. U * (s * f.den) <= f.num * W /\ f.num * W < U * (s * f.den + f.den)
  <2> HIDE DEF w
  <2> QED BY <1>1, <1>6
<1> HIDE DEF w, W
<1>10. q * k * f.den <= f.num * W /\ f.num * W < (q + 1) * k * f.den
  BY <1>0, <1>1, <1>7
<1>11. 2 * k * l <= 2 * W + k /\ 2 * W + k < 2 * k * l + 2 * k
  BY <1>0, <1>1, <1>2
<1>12. 2 * f.den * n <= 2 * f.num * NORM + f.den /\ 2 * f.num * NORM + f.den < 2 * f.den * n + 2 * f.den
  BY <1>1, <1>4
<1>13. c <= q + 1 /\ q <= c + 2
  <2>1. l \in Nat \ {0}
    BY <1>2, <1>3
  <2>2. k \in Nat \ {0} /\ NORM \in Nat \ {0} /\ l <= NORM /\ n \in Nat /\ q \in Nat
    BY <1>1, <1>3, <1>4, <1>7
  <2> QED BY <1>0, <1>5, <1>10, <1>11, <1>12, <2>1, <2>2, PointOfFraction
<1>14. q \in (c - 1) .. (c + 2)
  BY <1>5, <1>7, <1>13
<1>15. low <= q
  <2>1. (low * k) * f.den <= (U * s) * f.den
    BY <1>1, <1>6, <1>20
  <2>2. low * (k * f.den) < (q + 1) * (k * f.den)
    <3>1. /\ (low * k) * f.den = low * (k * f.den) /\ (U * s) * f.den = U * (s * f.den)
          /\ (q + 1) * (k * f.den) = q * (k * f.den) + k * f.den
      BY <1>1, <1>6, <1>7, <1>20
    <3>2. low * (k * f.den) \in Int /\ U * (s * f.den) \in Int /\ f.num * W \in Int /\ (q + 1) * (k * f.den) \in Int
      BY <1>0, <1>1, <1>6, <1>7, <1>20
    <3>3. low * (k * f.den) <= U * (s * f.den) /\ f.num * W < (q + 1) * (k * f.den)
      BY <1>7, <2>1, <3>1
    <3> QED BY <1>22, <3>2, <3>3
  <2>3. k * f.den \in Nat \ {0} /\ low \in Int /\ q + 1 \in Int
    BY <1>1, <1>7, <1>20
  <2>4. low < q + 1
    BY <2>2, <2>3, Cancelled
  <2> QED BY <1>7, <1>20, <2>4
<1>16. q <= high
  <2>1. (q * k) * f.den < (U * (s + 1)) * f.den
    BY <1>0, <1>1, <1>6, <1>7, <1>22
  <2>2. q * k \in Int /\ U * (s + 1) \in Int
    BY <1>1, <1>6, <1>7
  <2>3. q * k < U * (s + 1)
    BY <2>1, <2>2, Cancelled
  <2>4. q * k < (high + 1) * k
    BY <1>1, <1>6, <1>7, <1>21, <2>2, <2>3
  <2>5. q < high + 1
    BY <1>1, <1>7, <1>21, <2>4, Cancelled
  <2> QED BY <1>7, <1>21, <2>5
<1>17. q \in low .. high
  BY <1>7, <1>15, <1>16, <1>20, <1>21
<1>18. PointsOf(s) = low .. high
  BY DEF PointsOf, low, high, k, U
<1> QED BY <1>9, <1>14, <1>17, <1>18 DEF s, w

\* The inductive invariant: sizes are not empty, and the cursor is where the last
\* movement of the pointer put it.
PictureInv ==
    /\ display \in Screens
    /\ \A axis \in Axes : canvas[axis] \in Nat \ {0} /\ window[axis] \in Nat \ {0}
    /\ pointer # NoPoint =>
         /\ \A axis \in Axes : pointer[axis] \in Nat
         /\ cursor = Denormalise(display, MapToRemote(window, canvas, pointer))

\* An even size of a side is not empty.
LEMMA EvenSize ==
    ASSUME NEW n \in Nat, n >= 2
    PROVE  Even(n) \in Nat \ {0}
  BY DEF Even

\* It holds at the start.
LEMMA PictureInitially == PictureInit => PictureInv
<1> SUFFICES ASSUME PictureInit, NEW axis \in Axes
             PROVE  canvas[axis] \in Nat \ {0} /\ window[axis] \in Nat \ {0}
  BY DEF PictureInv, PictureInit
<1>1. display \in Screens /\ canvas[axis] = Even(display.pixels[axis]) /\ window \in WindowSizes
  BY DEF PictureInit, EvenDimensions
<1>2. display.pixels[axis] \in Nat /\ display.pixels[axis] >= 2 /\ window[axis] \in Nat \ {0}
  BY <1>1, PictureAssumption DEF Axes
<1> QED BY <1>1, <1>2, EvenSize

\* Every step keeps it.
LEMMA WindowStep == PictureInv /\ [PictureNext]_pictureVars => PictureInv'
<1> SUFFICES ASSUME PictureInv, [PictureNext]_pictureVars PROVE PictureInv'
  OBVIOUS
<1>1. CASE Rescale
  <2> SUFFICES ASSUME NEW axis \in Axes PROVE canvas'[axis] \in Nat \ {0}
    BY <1>1 DEF PictureInv, Rescale
  <2>1. PICK percent \in Percents : canvas' = ScaledDimensions(EvenDimensions(display.pixels), percent)
    BY <1>1 DEF Rescale
  <2> DEFINE scaled == Even((Even(display.pixels[axis]) * percent) \div 100)
  <2>2. canvas'[axis] = AtLeast(scaled, MIN_DIMENSION)
    BY <2>1 DEF ScaledDimensions, EvenDimensions
  <2>3. display.pixels[axis] \in Nat /\ display.pixels[axis] >= 2
    BY PictureAssumption DEF Axes, PictureInv
  <2>4. Even(display.pixels[axis]) * percent \in Nat
    <3>1. Even(display.pixels[axis]) \in Nat /\ percent \in Nat
      BY <2>3, EvenSize, PictureAssumption
    <3> QED BY <3>1
  <2>5. scaled \in Nat
    <3>1. (Even(display.pixels[axis]) * percent) \div 100 \in Nat
      BY <2>4
    <3> QED BY <3>1 DEF Even
  <2> HIDE DEF scaled
  <2> QED BY <2>2, <2>5, PictureAssumption DEF AtLeast
<1>2. CASE ResizeWindow
  BY <1>2, PictureAssumption DEF PictureInv, ResizeWindow, Axes
<1>3. CASE PointAt
  <2>1. PICK x \in 0..window[1], y \in 0..window[2] :
           /\ pointer' = <<x, y>>
           /\ cursor' = Denormalise(display, MapToRemote(window, canvas, <<x, y>>))
    BY <1>3 DEF PointAt
  <2>2. \A axis \in Axes : pointer'[axis] \in Nat
    BY <2>1 DEF Axes, PictureInv
  <2>3. display' = display /\ canvas' = canvas /\ window' = window
    BY <1>3 DEF PointAt
  <2>4. cursor' = Denormalise(display', MapToRemote(window', canvas', pointer'))
    BY <2>1, <2>3
  <2> QED BY <2>2, <2>3, <2>4 DEF PictureInv
<1>4. CASE UNCHANGED pictureVars
  BY <1>4 DEF PictureInv, pictureVars
<1> QED BY <1>1, <1>2, <1>3, <1>4 DEF PictureNext

\* Every pixel of the screen is read for some pixel of the frame.
LEMMA NothingIsCropped == PictureInv => NothingCropped
<1> SUFFICES ASSUME PictureInv, NEW axis \in Axes, NEW s \in 0..(display.pixels[axis] - 1)
             PROVE  \E d \in 0..(canvas[axis] - 1) : s \in Shown(d, canvas[axis], display.pixels[axis])
  BY DEF NothingCropped
<1>1. /\ display.pixels[axis] \in Nat \ {0} /\ canvas[axis] \in Nat \ {0}
      /\ s \in Nat /\ s < display.pixels[axis]
  BY PictureAssumption DEF PictureInv, Axes
<1>2. CASE canvas[axis] = display.pixels[axis]
  BY <1>1, <1>2 DEF Shown
<1>3. CASE canvas[axis] # display.pixels[axis]
  BY <1>1, <1>3, EverySourceIsRead DEF Shown
<1> QED BY <1>2, <1>3

\* The cursor is at the point that is shown under the pointer, up to the rounding.
LEMMA CursorFollows == PictureInv => CursorIsUnderThePointer
<1> SUFFICES ASSUME PictureInv, pointer # NoPoint, NEW axis \in Axes, NEW d \in 0..(canvas[axis] - 1),
                    DrawnAt(axis, d, pointer)
             PROVE  \E s \in Shown(d, canvas[axis], display.pixels[axis]) :
                        \E p \in PointsOf(s) : p \in (cursor[axis] - 1)..(cursor[axis] + 2)
  BY DEF CursorIsUnderThePointer
<1> DEFINE f == Fraction(axis, window, canvas, pointer)
           s == (f.num * display.pixels[axis]) \div f.den
<1>1. /\ display.pixels[axis] \in Nat \ {0} /\ canvas[axis] \in Nat \ {0}
      /\ d \in Nat /\ d < canvas[axis]
  BY PictureAssumption DEF PictureInv, Axes
<1>2. /\ f.num \in Int /\ f.den \in Nat \ {0}
      /\ d * f.den <= f.num * canvas[axis] /\ f.num * canvas[axis] < (d + 1) * f.den
  <2>1. \A a \in Axes : window[a] \in Nat \ {0} /\ canvas[a] \in Nat \ {0} /\ pointer[a] \in Nat
    BY DEF PictureInv
  <2> QED BY <1>1, <2>1, FractionIsWhereDrawn
<1> HIDE DEF f
<1>3. f.num \in Nat /\ f.num < f.den /\ s \in Shown(d, canvas[axis], display.pixels[axis])
  BY <1>1, <1>2, PixelUnderFraction
<1>4. MapToRemote(window, canvas, pointer)[axis] = ToNorm(f)
  BY DEF MapToRemote, f
<1>5. \E p \in PointsOf(s) : p \in (cursor[axis] - 1)..(cursor[axis] + 2)
  <2>1. cursor = Denormalise(display, MapToRemote(window, canvas, pointer)) /\ display \in Screens
    BY DEF PictureInv
  <2> QED BY <1>2, <1>3, <1>4, <2>1, CursorOfFraction
<1> HIDE DEF s
<1> QED BY <1>3, <1>5

\* No scaling crops the screen and the pointer of the host follows the one of the viewer
\* (PictureIsTrue), for every display, window and scale (scale_bgra, map_to_remote,
\* denormalise).
THEOREM PictureStaysTrue == PictureSpec => []PictureIsTrue
<1>1. PictureInv => PictureIsTrue
  BY NothingIsCropped, CursorFollows DEF PictureIsTrue
<1> QED BY <1>1, PictureInitially, WindowStep, PTL DEF PictureSpec

-----------------------------------------------------------------------------
(* The screen                                                              *)

\* What the viewer sees is the host's screen (ScreenIsShown): from the three parts, which
\* share no state.
THEOREM ScreenStaysShown == ScreenSpec => []ScreenIsShown
<1>1. PlanesAreTrue /\ SlicesArrive /\ PictureIsTrue => ScreenIsShown
  BY DEF ScreenIsShown
<1> QED BY <1>1, PlanesStayTrue, SlicesKeepArriving, PictureStaysTrue, PTL DEF ScreenSpec
=============================================================================
