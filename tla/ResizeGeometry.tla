--------------------------- MODULE ResizeGeometry ---------------------------
(***************************************************************************)
(* The dimensions of one output: processOne, over the arithmetic of        *)
(* libvips' thumbnail operation.  A source has the width and height in its *)
(* header; rotated says that its EXIF orientation turns it on its side,    *)
(* which the loader or the thumbnail operation undoes before resizing.     *)
(***************************************************************************)
EXTENDS Integers

Modes == {"contain", "fit", "cover", "crop", "fill"}

\* libvips' ceiling of a coordinate, and WebP's own limit of a side.
MaxSupportedDimension == 100000000
MaxWebpDimension      == 16383

Smaller(m, n) == IF m < n THEN m ELSE n

Upright(source) ==
  IF source.rotated THEN [width |-> source.height, height |-> source.width]
                    ELSE [width |-> source.width, height |-> source.height]

\* num / den to the nearest integer, halves up; no axis vanishes.
Rounded(num, den) == (2 * num + den) \div (2 * den)
Side(num, den)    == LET n == Rounded(num, den) IN IF n < 1 THEN 1 ELSE n

(***************************************************************************)
(* vips_thumbnail of an upright image u into the box w x h.  The scale of  *)
(* an axis is box over image; one scale serves both axes unless the size   *)
(* is forced: the smaller one, or the larger when the rest is cropped.     *)
(***************************************************************************)
WidthIsTighter(u, w, h) == w * u.height <= h * u.width

Scaled(n, num, den, down) ==
  IF down /\ num > den THEN n ELSE Side(n * num, den)

Thumbnail(u, w, h, crop, down) ==
  LET byWidth == IF crop THEN ~WidthIsTighter(u, w, h)
                         ELSE WidthIsTighter(u, w, h)
      num  == IF byWidth THEN w ELSE h
      den  == IF byWidth THEN u.width ELSE u.height
      full == [width  |-> Scaled(u.width, num, den, down),
               height |-> Scaled(u.height, num, den, down)]
  IN IF crop THEN [width  |-> Smaller(w, full.width),
                   height |-> Smaller(h, full.height)]
             ELSE full

(***************************************************************************)
(* processOne, up to the encoder.                                          *)
(***************************************************************************)
Crops(mode) == mode \in {"cover", "crop"}

DimensionsUncapped(source, spec) ==
  IF spec.mode = "fill" THEN [width |-> spec.width, height |-> spec.height]
  ELSE Thumbnail(Upright(source), spec.width, spec.height,
                 Crops(spec.mode), ~spec.upscale)

DimensionsCroppingContain(source, spec) ==
  IF spec.mode = "fill" THEN [width |-> spec.width, height |-> spec.height]
  ELSE Thumbnail(Upright(source), spec.width, spec.height,
                 ~Crops(spec.mode), ~spec.upscale)

\* fill is capped by the source's header, which is not upright.
Dimensions(source, spec) ==
  IF spec.mode = "fill" THEN
    IF spec.upscale THEN [width |-> spec.width, height |-> spec.height]
    ELSE [width  |-> Smaller(spec.width, source.width),
          height |-> Smaller(spec.height, source.height)]
  ELSE Thumbnail(Upright(source), spec.width, spec.height,
                 Crops(spec.mode), ~spec.upscale)

Encodable(d) == d.width <= MaxWebpDimension /\ d.height <= MaxWebpDimension
=============================================================================
