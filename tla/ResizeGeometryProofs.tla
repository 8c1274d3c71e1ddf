------------------------ MODULE ResizeGeometryProofs ------------------------
(***************************************************************************)
(* What the modes promise, for sources and boxes of every size.            *)
(***************************************************************************)
EXTENDS ResizeGeometry, TLAPS

\* Rounding to the nearest integer does not cross an integer.
LEMMA RoundedAtMost ==
  ASSUME NEW num \in Nat, NEW den \in Nat \ {0}, NEW n \in Nat,
         num <= n * den
  PROVE  Rounded(num, den) <= n
<1> DEFINE q == (2 * num + den) \div (2 * den)
<1>1. q \in Int /\ q * (2 * den) <= 2 * num + den
  OBVIOUS
<1>2. 2 * num + den < (n + 1) * (2 * den)
  OBVIOUS
<1>3. q * (2 * den) < (n + 1) * (2 * den)
  BY <1>1, <1>2
<1>4. q < n + 1
  BY <1>1, <1>3
<1>5. QED
  BY <1>1, <1>4 DEF Rounded

\* An integer not above a fraction is not above the fraction rounded.
LEMMA RoundedAtLeast ==
  ASSUME NEW num \in Nat, NEW den \in Nat \ {0}, NEW n \in Nat,
         n * den <= num
  PROVE  Rounded(num, den) >= n
<1> DEFINE q == (2 * num + den) \div (2 * den)
<1>1. q \in Int /\ 2 * num + den < (q + 1) * (2 * den)
  OBVIOUS
<1>2. n * (2 * den) <= 2 * num + den
  OBVIOUS
<1>3. n * (2 * den) < (q + 1) * (2 * den)
  BY <1>1, <1>2
<1>4. n < q + 1
  BY <1>1, <1>3
<1>5. QED
  BY <1>1, <1>4 DEF Rounded

\* A side is at least 1, and on the side of an integer bound that the exact
\* length is on.
LEMMA SideBounds ==
  ASSUME NEW num \in Nat, NEW den \in Nat \ {0}, NEW n \in Nat \ {0}
  PROVE  /\ Side(num, den) \in Nat \ {0}
         /\ num <= n * den => Side(num, den) <= n
         /\ n * den <= num => Side(num, den) >= n
<1>1. Rounded(num, den) \in Int
  BY DEF Rounded
<1>2. num <= n * den => Rounded(num, den) <= n
  BY RoundedAtMost
<1>3. n * den <= num => Rounded(num, den) >= n
  BY RoundedAtLeast
<1>4. QED
  BY <1>1, <1>2, <1>3 DEF Side

Positive == Nat \ {0}
Areas == [width : Positive, height : Positive]

\* An axis scaled by num / den: bounded by any n that bounds the scaled
\* length, and by itself when the image may only shrink.
LEMMA ScaledBounds ==
  ASSUME NEW k \in Positive, NEW num \in Positive, NEW den \in Positive,
         NEW n \in Positive, NEW down \in BOOLEAN
  PROVE  /\ Scaled(k, num, den, down) \in Positive
         /\ k * num <= n * den => Scaled(k, num, den, down) <= n
         /\ ~down /\ n * den <= k * num => Scaled(k, num, den, down) >= n
         /\ down => Scaled(k, num, den, down) <= k
<1>1. k * num \in Nat
  BY DEF Positive
<1>2. /\ Side(k * num, den) \in Positive
      /\ k * num <= n * den => Side(k * num, den) <= n
      /\ n * den <= k * num => Side(k * num, den) >= n
  BY <1>1, SideBounds DEF Positive
<1>3. CASE down /\ num > den
  <2>1. k * den < k * num
    BY <1>3 DEF Positive
  <2>2. k * num <= n * den => k <= n
    <3>1. ASSUME k * num <= n * den PROVE k <= n
      <4>1. k * den < n * den
        BY <2>1, <3>1 DEF Positive
      <4>2. QED
        BY <4>1 DEF Positive
    <3>2. QED
      BY <3>1
  <2>3. Scaled(k, num, den, down) = k
    BY <1>3 DEF Scaled
  <2>4. k \in Int /\ k <= k
    BY DEF Positive
  <2> DEFINE sc == Scaled(k, num, den, down)
  <2>5. sc = k /\ down
    BY <1>3, <2>3
  <2> HIDE DEF sc
  <2>6. /\ sc \in Positive
        /\ k * num <= n * den => sc <= n
        /\ ~down /\ n * den <= k * num => sc >= n
        /\ down => sc <= k
    BY <2>2, <2>4, <2>5
  <2>7. QED
    BY <2>6 DEF sc
<1>4. CASE ~(down /\ num > den)
  <2>1. Scaled(k, num, den, down) = Side(k * num, den)
    BY <1>4 DEF Scaled
  <2>2. down => Side(k * num, den) <= k
    <3>1. ASSUME down PROVE Side(k * num, den) <= k
      <4>1. k * num <= k * den
        BY <1>4, <3>1 DEF Positive
      <4>2. QED
        BY <1>1, <4>1, SideBounds DEF Positive
    <3>2. QED
      BY <3>1
  <2>3. QED
    BY <1>2, <2>1, <2>2
<1>5. QED
  BY <1>3, <1>4

\* The box is kept, reached on one side without cropping and filled with it,
\* and the image is not enlarged when it may only shrink.
KeepsItsWord(t, u, w, h, crop, down) ==
  /\ t \in Areas
  /\ t.width <= w /\ t.height <= h
  /\ ~down => IF crop THEN t.width = w /\ t.height = h
                       ELSE t.width = w \/ t.height = h
  /\ down => t.width <= u.width /\ t.height <= u.height

\* vips_thumbnail covers the box if it crops and stays within it if not, and
\* enlarges nothing if told to shrink only.
LEMMA ThumbnailBounds ==
  ASSUME NEW u \in Areas, NEW w \in Positive, NEW h \in Positive,
         NEW crop \in BOOLEAN, NEW down \in BOOLEAN
  PROVE  KeepsItsWord(Thumbnail(u, w, h, crop, down), u, w, h, crop, down)
<1> DEFINE byWidth == IF crop THEN ~WidthIsTighter(u, w, h)
                              ELSE WidthIsTighter(u, w, h)
           num == IF byWidth THEN w ELSE h
           den == IF byWidth THEN u.width ELSE u.height
           fw  == Scaled(u.width, num, den, down)
           fh  == Scaled(u.height, num, den, down)
<1>1. /\ u.width \in Positive /\ u.height \in Positive
      /\ num \in Positive /\ den \in Positive
  BY DEF Areas
<1>2. /\ fw \in Positive
      /\ u.width * num <= w * den => fw <= w
      /\ ~down /\ w * den <= u.width * num => fw >= w
      /\ down => fw <= u.width
  BY <1>1, ScaledBounds
<1>3. /\ fh \in Positive
      /\ u.height * num <= h * den => fh <= h
      /\ ~down /\ h * den <= u.height * num => fh >= h
      /\ down => fh <= u.height
  BY <1>1, ScaledBounds
<1>4. /\ w * u.height \in Nat /\ h * u.width \in Nat
      /\ u.height * w = w * u.height /\ u.width * h = h * u.width
      /\ u.width * w = w * u.width /\ u.height * h = h * u.height
      /\ w * u.width \in Nat /\ h * u.height \in Nat
  BY <1>1 DEF Positive
<1>5. WidthIsTighter(u, w, h) <=> w * u.height <= h * u.width
  BY DEF WidthIsTighter
<1>6. CASE ~crop
  <2>1. Thumbnail(u, w, h, crop, down) = [width |-> fw, height |-> fh]
    BY <1>6 DEF Thumbnail
  <2>2. CASE byWidth
    <3>1. num = w /\ den = u.width
      BY <2>2
    <3>2. w * u.height <= h * u.width
      BY <1>5, <1>6, <2>2
    <3>3. u.width * num <= w * den /\ w * den <= u.width * num
      BY <1>4, <3>1
    <3>4. u.height * num <= h * den
      BY <1>4, <3>1, <3>2
    <3>5. QED
      BY <1>1, <1>2, <1>3, <1>6, <2>1, <3>3, <3>4
      DEF Areas, Positive, KeepsItsWord
  <2>3. CASE ~byWidth
    <3>1. num = h /\ den = u.height
      BY <2>3
    <3>2. h * u.width <= w * u.height
      BY <1>4, <1>5, <1>6, <2>3
    <3>3. u.height * num <= h * den /\ h * den <= u.height * num
      BY <1>4, <3>1
    <3>4. u.width * num <= w * den
      BY <1>4, <3>1, <3>2
    <3>5. QED
      BY <1>1, <1>2, <1>3, <1>6, <2>1, <3>3, <3>4
      DEF Areas, Positive, KeepsItsWord
  <2>4. QED
    BY <2>2, <2>3
<1>7. CASE crop
  <2>1. Thumbnail(u, w, h, crop, down) =
          [width |-> Smaller(w, fw), height |-> Smaller(h, fh)]
    BY <1>7 DEF Thumbnail
  <2>2. w * den <= u.width * num /\ h * den <= u.height * num
    <3>1. CASE byWidth
      <4>1. num = w /\ den = u.width
        BY <3>1
      <4>2. ~WidthIsTighter(u, w, h)
        BY <1>7, <3>1
      <4>2a. h * u.width <= w * u.height
        BY <1>4, <1>5, <4>2
      <4>3. QED
        BY <1>4, <4>1, <4>2a
    <3>2. CASE ~byWidth
      <4>1. num = h /\ den = u.height
        BY <3>2
      <4>2. w * u.height <= h * u.width
        BY <1>5, <1>7, <3>2
      <4>3. QED
        BY <1>4, <4>1, <4>2
    <3>3. QED
      BY <3>1, <3>2
  <2>3. ~down => fw >= w /\ fh >= h
    BY <1>2, <1>3, <2>2
  <2>4. /\ Smaller(w, fw) \in Positive /\ Smaller(h, fh) \in Positive
        /\ Smaller(w, fw) <= w /\ Smaller(w, fw) <= fw
        /\ Smaller(h, fh) <= h /\ Smaller(h, fh) <= fh
        /\ fw >= w => Smaller(w, fw) = w
        /\ fh >= h => Smaller(h, fh) = h
    BY <1>2, <1>3 DEF Positive, Smaller
  <2>5. ASSUME down
        PROVE  Smaller(w, fw) <= u.width /\ Smaller(h, fh) <= u.height
    <3>1. fw <= u.width /\ fh <= u.height
      BY <1>2, <1>3, <2>5
    <3>2. fw \in Int /\ fh \in Int /\ u.width \in Int /\ u.height \in Int
      BY <1>1, <1>2, <1>3 DEF Positive
    <3>3. /\ Smaller(w, fw) \in Int /\ Smaller(w, fw) <= fw
          /\ Smaller(h, fh) \in Int /\ Smaller(h, fh) <= fh
      BY <2>4 DEF Positive
    <3> HIDE DEF fw, fh
    <3>4. QED
      BY <3>1, <3>2, <3>3
  <2>6. QED
    <3> DEFINE t == [width |-> Smaller(w, fw), height |-> Smaller(h, fh)]
    <3>1. t \in Areas /\ t.width = Smaller(w, fw) /\ t.height = Smaller(h, fh)
      BY <2>4 DEF Areas
    <3>2. ~down => t.width = w /\ t.height = h
      BY <2>3, <2>4, <3>1
    <3>3. Thumbnail(u, w, h, crop, down) = t
      BY <2>1
    <3> HIDE DEF t, fw, fh
    <3>4. QED
      BY <1>7, <2>4, <2>5, <3>1, <3>2, <3>3 DEF KeepsItsWord
<1>8. QED
  BY <1>6, <1>7

(***************************************************************************)
(* The theorem about processOne, whatever image and box.                   *)
(***************************************************************************)

\* contain and fit stay in the requested box and touch it, cover, crop and
\* fill are exactly the box; when upscaling is off the result leaves neither
\* the box nor, for an upright source, the source.
THEOREM ModesKeepTheirWord ==
  ASSUME NEW source, source.width \in Positive, source.height \in Positive,
         source.rotated \in BOOLEAN,
         NEW spec, spec.width \in Positive, spec.height \in Positive,
         spec.mode \in Modes, spec.upscale \in BOOLEAN
  PROVE  LET d == Dimensions(source, spec)
             u == Upright(source)
         IN /\ d \in Areas
            /\ d.width <= spec.width /\ d.height <= spec.height
            /\ spec.upscale =>
                 IF spec.mode \in {"contain", "fit"}
                   THEN d.width = spec.width \/ d.height = spec.height
                   ELSE d.width = spec.width /\ d.height = spec.height
            /\ ~spec.upscale /\ ~(spec.mode = "fill" /\ source.rotated) =>
                 d.width <= u.width /\ d.height <= u.height
<1>1. Upright(source) \in Areas
  BY DEF Upright, Areas
<1>2. CASE spec.mode = "fill"
  BY <1>2 DEF Dimensions, Upright, Areas, Positive, Smaller
<1>3. CASE spec.mode # "fill"
  <2> DEFINE t == Thumbnail(Upright(source), spec.width, spec.height,
                            Crops(spec.mode), ~spec.upscale)
  <2>1. Dimensions(source, spec) = t
    BY <1>3 DEF Dimensions
  <2>2. Crops(spec.mode) \in BOOLEAN /\ (~spec.upscale) \in BOOLEAN
    BY DEF Crops
  <2>3. /\ t \in Areas
        /\ t.width <= spec.width /\ t.height <= spec.height
        /\ spec.upscale =>
             IF Crops(spec.mode)
               THEN t.width = spec.width /\ t.height = spec.height
               ELSE t.width = spec.width \/ t.height = spec.height
        /\ ~spec.upscale => t.width <= Upright(source).width
                            /\ t.height <= Upright(source).height
    <3> DEFINE down == ~spec.upscale
               crop == Crops(spec.mode)
    <3>1. crop \in BOOLEAN /\ down \in BOOLEAN
      BY <2>2
    <3>2. t = Thumbnail(Upright(source), spec.width, spec.height, crop, down)
      OBVIOUS
    <3>3. spec.upscale <=> ~down
      OBVIOUS
    <3> HIDE DEF t, down, crop
    <3>4. KeepsItsWord(Thumbnail(Upright(source), spec.width, spec.height,
                                 crop, down),
                       Upright(source), spec.width, spec.height, crop, down)
      BY <1>1, <3>1, ThumbnailBounds
    <3>5. QED
      BY <3>2, <3>3, <3>4 DEF crop, KeepsItsWord
  <2>4. Crops(spec.mode) <=> spec.mode \notin {"contain", "fit"}
    BY <1>3 DEF Crops, Modes
  <2>5. QED
    BY <2>1, <2>3, <2>4
<1>4. QED
  BY <1>2, <1>3
=============================================================================
