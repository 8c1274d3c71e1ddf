------------------------- MODULE StoreUploadProofs -------------------------
(***************************************************************************)
(* StoreUpload for every set of inputs: images, boxes and settings of any  *)
(* size.  The argument is that rows exist only for sizes that passed the   *)
(* rules and the search for duplicates, and outputs only for rows.         *)
(***************************************************************************)
EXTENDS StoreUpload, ResizeGeometryProofs

AllPass  == /\ Len(sizes) \in 1 .. MaxSizesPerRequest(env)
            /\ \A k \in DOMAIN sizes : SizePasses(sizes[k])
            /\ ~TooLarge
Distinct == ~HasDuplicateSize(sizes)

Admitted ==
  /\ input \in Inputs
  /\ stage \in Stages
  /\ stage \in {"data", "rules"} => ~TooLarge
  /\ stage \in {"duplicates", "create"} => AllPass
  /\ stage = "create" => Distinct
  /\ rows # {} => AllPass /\ Distinct
  /\ \A spec \in rows : \E k \in DOMAIN sizes : spec = SizeRow(sizes[k])
  /\ todo \subseteq rows
  /\ \A out \in outputs : out.spec \in rows /\ out = Produced(out.spec)
                            /\ ~OverPixelLimit(out.spec)

USE DEF env, file, sizes

\* Nothing is admitted yet.
LEMMA AdmittedInit == Init => Admitted
  BY DEF Init, Admitted, Stages

\* The checks leave rows, todo and outputs alone.
LEMMA CheckKeepsAdmitted ==
  ASSUME Admitted,
         Boot \/ CheckFile \/ CheckData \/ CheckRules \/ CheckDuplicates
         \/ TakeSlot \/ Finish
  PROVE  Admitted'
<1>1. UNCHANGED <<input, rows, todo, outputs>>
  BY DEF Boot, CheckFile, CheckData, CheckRules, CheckDuplicates, TakeSlot,
         Finish, Untouched
<1>2. /\ stage' \in Stages
      /\ stage' \in {"data", "rules"} => ~TooLarge
      /\ stage' \in {"duplicates", "create"} => AllPass
      /\ stage' = "create" => Distinct
  <2>1. CASE Boot
    BY <2>1 DEF Boot, Go, Stages
  <2>2. CASE CheckFile
    BY <2>2 DEF CheckFile, Go, Stages
  <2>3. CASE CheckData
    BY <2>3 DEF CheckData, Go, Stages, Admitted
  <2>4. CASE CheckRules
    BY <2>4 DEF CheckRules, Go, Stages, AllPass, Admitted
  <2>5. CASE CheckDuplicates
    BY <2>5 DEF CheckDuplicates, Go, Stages, Admitted, Distinct
  <2>6. CASE TakeSlot
    BY <2>6 DEF TakeSlot, Go, Stages
  <2>7. CASE Finish
    BY <2>7 DEF Finish, Go, Stages
  <2>8. QED
    BY <2>1, <2>2, <2>3, <2>4, <2>5, <2>6, <2>7
<1>3. /\ AllPass' = AllPass /\ Distinct' = Distinct
      /\ TooLarge' = TooLarge
  BY <1>1 DEF AllPass, Distinct, SizePasses, SideInRange, HasDuplicateSize,
                TooLarge
<1>4. \A k \in DOMAIN sizes : SizeRow(sizes[k])' = SizeRow(sizes[k])
  BY <1>1 DEF SizeRow
<1>5. \A out \in outputs : /\ Produced(out.spec)' = Produced(out.spec)
                             /\ OverPixelLimit(out.spec)' = OverPixelLimit(out.spec)
  BY <1>1 DEF Produced, OverPixelLimit
<1>6. QED
  BY <1>1, <1>2, <1>3, <1>4, <1>5 DEF Admitted

\* The rows of the transaction are those of the sizes asked for.
LEMMA CreateKeepsAdmitted ==
  ASSUME Admitted, CreateRows PROVE Admitted'
<1>1. /\ input' = input /\ todo' = todo /\ outputs' = outputs
      /\ stage = "create" /\ stage' = "slot"
      /\ rows' = {SizeRow(sizes[k]) : k \in DOMAIN sizes}
  BY DEF CreateRows, Go
<1>2. AllPass /\ Distinct
  BY <1>1 DEF Admitted
<1>3. /\ AllPass' = AllPass /\ Distinct' = Distinct
      /\ TooLarge' = TooLarge
  BY <1>1 DEF AllPass, Distinct, SizePasses, SideInRange, HasDuplicateSize,
                TooLarge
<1>4. \A k \in DOMAIN sizes : SizeRow(sizes[k])' = SizeRow(sizes[k])
  BY <1>1 DEF SizeRow
<1>5. \A out \in outputs : /\ Produced(out.spec)' = Produced(out.spec)
                             /\ OverPixelLimit(out.spec)' = OverPixelLimit(out.spec)
  BY <1>1 DEF Produced, OverPixelLimit
<1>6. \A spec \in rows : spec \in rows'
  BY <1>1 DEF Admitted
<1>7. QED
  BY <1>1, <1>2, <1>3, <1>4, <1>5, <1>6 DEF Admitted, Stages

\* Outputs are produced of rows within the pixel limit.
LEMMA ResizeKeepsAdmitted ==
  ASSUME Admitted, InspectSource \/ ResizeNext PROVE Admitted'
<1>1. input' = input /\ rows' = rows
  BY DEF InspectSource, ResizeNext
<1>2. /\ stage' \in Stages
      /\ stage' \notin {"data", "rules", "duplicates", "create"}
      /\ todo' \subseteq rows
      /\ \A out \in outputs' : out \in outputs
           \/ \E spec \in rows : out = Produced(spec) /\ ~OverPixelLimit(spec)
  <2>1. CASE InspectSource
    BY <2>1 DEF InspectSource, Go, Stages
  <2>2. CASE ResizeNext
    BY <2>2 DEF ResizeNext, Admitted, Stages
  <2>3. QED
    BY <2>1, <2>2
<1>3. /\ AllPass' = AllPass /\ Distinct' = Distinct
      /\ TooLarge' = TooLarge
  BY <1>1 DEF AllPass, Distinct, SizePasses, SideInRange, HasDuplicateSize,
                TooLarge
<1>4. \A k \in DOMAIN sizes : SizeRow(sizes[k])' = SizeRow(sizes[k])
  BY <1>1 DEF SizeRow
<1>5. \A spec \in rows : /\ Produced(spec)' = Produced(spec)
                         /\ Produced(spec).spec = spec
                         /\ OverPixelLimit(spec)' = OverPixelLimit(spec)
  BY <1>1 DEF Produced, OverPixelLimit
<1>6. ASSUME NEW out \in outputs'
      PROVE  /\ out.spec \in rows /\ out = Produced(out.spec)'
             /\ ~OverPixelLimit(out.spec)'
  <2>1. CASE out \in outputs
    BY <1>5, <2>1 DEF Admitted
  <2>2. CASE \E spec \in rows : out = Produced(spec) /\ ~OverPixelLimit(spec)
    BY <1>5, <2>2
  <2>3. QED
    BY <1>2, <2>1, <2>2
<1>7. QED
  BY <1>1, <1>2, <1>3, <1>4, <1>6 DEF Admitted

\* No step of Store or of the run goes past a check that failed.
LEMMA AdmittedNext == Admitted /\ [Next]_vars => Admitted'
<1> SUFFICES ASSUME Admitted, [Next]_vars PROVE Admitted'
  OBVIOUS
<1>1. CASE UNCHANGED vars
  <2>1. /\ AllPass' = AllPass /\ Distinct' = Distinct
      /\ TooLarge' = TooLarge
    BY <1>1 DEF vars, AllPass, Distinct, SizePasses, SideInRange,
                HasDuplicateSize, TooLarge
  <2>2. \A k \in DOMAIN sizes : SizeRow(sizes[k])' = SizeRow(sizes[k])
    BY <1>1 DEF vars, SizeRow
  <2>3. \A out \in outputs : /\ Produced(out.spec)' = Produced(out.spec)
                               /\ OverPixelLimit(out.spec)' = OverPixelLimit(out.spec)
    BY <1>1 DEF vars, Produced, OverPixelLimit
  <2>4. QED
    BY <1>1, <2>1, <2>2, <2>3 DEF vars, Admitted
<1>2. CASE Next
  BY <1>2, CheckKeepsAdmitted, CreateKeepsAdmitted, ResizeKeepsAdmitted DEF Next
<1>3. QED
  BY <1>1, <1>2

\* Rows and outputs exist only for an upload that passed every check of Store.
THEOREM AdmittedInvariance == Spec => []Admitted
  BY AdmittedInit, AdmittedNext, PTL DEF Spec

(***************************************************************************)
(* What an admitted row and its output are.                                *)
(***************************************************************************)
LEMMA ElementOf ==
  ASSUME NEW S, NEW s \in Seq(S), NEW k \in DOMAIN s
  PROVE  s[k] \in S
<1>1. k \in 1 .. Len(s) /\ Len(s) \in Nat
  OBVIOUS
<1>2. QED
  BY <1>1

\* The input stays the one the request came with.
LEMMA InputIsInput == ASSUME Admitted PROVE IsInput(input)
  BY InputsAssumption DEF Admitted

\* A row has the box asked for and the quality clamped.
LEMMA SizeRowFields ==
  ASSUME NEW s
  PROVE  /\ SizeRow(s).width = s.width /\ SizeRow(s).height = s.height
         /\ SizeRow(s).quality = ClampQuality(env, s.quality)
  BY DEF SizeRow

\* A side within a limit is positive, whatever the limit is set to.
LEMMA SideIsPositive ==
  ASSUME NEW n, NEW configured, SideInRange(n, configured)
  PROVE  n \in Positive
<1>1. \A m : n \in 1 .. m => n \in Nat \ {0}
  OBVIOUS
<1>2. n \in 1 .. Smaller(configured, MaxSupportedDimension)
  BY DEF SideInRange
<1>3. QED
  BY <1>1, <1>2 DEF Positive

\* A row is a box that Dimensions is defined on.
LEMMA RowIsSpec ==
  ASSUME Admitted, NEW spec \in rows
  PROVE  /\ spec.width \in Positive /\ spec.height \in Positive
         /\ spec.mode \in Modes /\ spec.upscale \in BOOLEAN
<1>1. PICK k \in DOMAIN sizes : spec = SizeRow(sizes[k])
  BY DEF Admitted
<1>2. SizePasses(sizes[k])
  BY <1>1 DEF Admitted, AllPass
<1>3. sizes[k].width \in Positive /\ sizes[k].height \in Positive
  BY <1>2, SideIsPositive DEF SizePasses
<1>4. sizes[k].mode \in Modes \cup {""}
  BY <1>2 DEF SizePasses
<1>5. "contain" \in Modes
  BY DEF Modes
<1>6. AllowUpscale(env) \in BOOLEAN
  BY DEF AllowUpscale
<1>7. /\ spec.width = sizes[k].width /\ spec.height = sizes[k].height
      /\ spec.mode = IF sizes[k].mode = "" THEN "contain" ELSE sizes[k].mode
      /\ spec.upscale = AllowUpscale(env)
  BY <1>1 DEF SizeRow
<1>8. QED
  BY <1>3, <1>4, <1>5, <1>6, <1>7

\* So is the source.
LEMMA FileIsSource ==
  ASSUME Admitted
  PROVE  /\ file.width \in Positive /\ file.height \in Positive
         /\ file.rotated \in BOOLEAN
  BY InputsAssumption DEF Admitted, IsInput, Positive

\* An output fits its box, fills it if it may enlarge, and is not larger than
\* the upright source if it may not.
LEMMA OutputKeepsItsWord ==
  ASSUME Admitted, NEW out \in outputs
  PROVE  /\ out.width \in Positive /\ out.height \in Positive
         /\ out.width <= out.spec.width /\ out.height <= out.spec.height
         /\ out.spec.upscale =>
              IF out.spec.mode \in {"contain", "fit"}
                THEN out.width = out.spec.width \/ out.height = out.spec.height
                ELSE out.width = out.spec.width /\ out.height = out.spec.height
         /\ ~out.spec.upscale /\ ~(out.spec.mode = "fill" /\ file.rotated) =>
              /\ out.width <= Upright(file).width
              /\ out.height <= Upright(file).height
<1> DEFINE spec == out.spec
           d == Dimensions(file, spec)
<1>1. spec \in rows /\ out.width = d.width /\ out.height = d.height
  BY DEF Admitted, Produced
<1>2. /\ spec.width \in Positive /\ spec.height \in Positive
      /\ spec.mode \in Modes /\ spec.upscale \in BOOLEAN
  BY <1>1, RowIsSpec
<1>3. /\ d \in Areas
      /\ d.width <= spec.width /\ d.height <= spec.height
      /\ spec.upscale =>
           IF spec.mode \in {"contain", "fit"}
             THEN d.width = spec.width \/ d.height = spec.height
             ELSE d.width = spec.width /\ d.height = spec.height
      /\ ~spec.upscale /\ ~(spec.mode = "fill" /\ file.rotated) =>
           d.width <= Upright(file).width /\ d.height <= Upright(file).height
  BY <1>2, FileIsSource, ModesKeepTheirWord
<1>4. d.width \in Positive /\ d.height \in Positive
  BY <1>3 DEF Areas
<1> HIDE DEF d
<1>5. QED
  BY <1>1, <1>3, <1>4

(***************************************************************************)
(* The theorems.                                                           *)
(***************************************************************************)

\* Every mode keeps its word about the requested box, whatever is uploaded.
THEOREM BoxAlwaysRespected == Spec => []BoxIsRespected
<1>1. Admitted => BoxIsRespected
  BY OutputKeepsItsWord DEF BoxIsRespected
<1>2. QED
  BY <1>1, AdmittedInvariance, PTL

\* With upscaling off no output exceeds the source as it is seen, but for a
\* fill of a source that lies on its side.
THEOREM NoOutputEnlarged == Spec => []NeverEnlarged
<1>1. Admitted => NeverEnlarged
  BY OutputKeepsItsWord DEF NeverEnlarged
<1>2. QED
  BY <1>1, AdmittedInvariance, PTL

\* Two outputs of a request never share a path, and no requested size is
\* merged into another's row.
THEOREM PathsAreDistinct == Spec => []OutputsDoNotCollide
<1>1. ASSUME Admitted PROVE OutputsDoNotCollide
  <2>1. ASSUME NEW j \in DOMAIN sizes, NEW k \in DOMAIN sizes, rows # {},
               SizeRow(sizes[j]).width = SizeRow(sizes[k]).width,
               SizeRow(sizes[j]).height = SizeRow(sizes[k]).height
        PROVE  j = k
    BY <1>1, <2>1 DEF Admitted, Distinct, HasDuplicateSize, SameSize, SizeRow
  <2>2. ASSUME NEW a \in outputs, NEW b \in outputs,
               OutputPath(a) = OutputPath(b)
        PROVE  a = b
    <3>1. /\ a.spec \in rows /\ a = Produced(a.spec)
          /\ b.spec \in rows /\ b = Produced(b.spec)
      BY <1>1 DEF Admitted
    <3>2. PICK j \in DOMAIN sizes : a.spec = SizeRow(sizes[j])
      BY <1>1, <3>1 DEF Admitted
    <3>3. PICK k \in DOMAIN sizes : b.spec = SizeRow(sizes[k])
      BY <1>1, <3>1 DEF Admitted
    <3>4. a.spec.width = b.spec.width /\ a.spec.height = b.spec.height
      BY <2>2 DEF OutputPath
    <3>5. j = k
      BY <2>1, <3>1, <3>2, <3>3, <3>4
    <3>6. QED
      BY <3>1, <3>2, <3>3, <3>5
  <2>3. QED
    BY <2>1, <2>2 DEF OutputsDoNotCollide
<1>2. QED
  BY <1>1, AdmittedInvariance, PTL

\* The types of what a request leaves: no output without a side.
THEOREM UploadTyped == Spec => []TypeOK
<1>1. ASSUME Admitted PROVE TypeOK
  <2>1. IsInput(input) /\ stage \in Stages /\ todo \subseteq rows
    BY <1>1, InputsAssumption DEF Admitted
  <2>2. \A spec \in rows : spec.width \in Nat /\ spec.height \in Nat
    BY <1>1, RowIsSpec DEF Positive
  <2>3. \A out \in outputs : /\ out.spec \in rows
                             /\ out.width \in Nat \ {0}
                             /\ out.height \in Nat \ {0}
    BY <1>1, OutputKeepsItsWord DEF Admitted, Positive
  <2>4. QED
    BY <2>1, <2>2, <2>3 DEF TypeOK
<1>2. QED
  BY <1>1, AdmittedInvariance, PTL

(***************************************************************************)
(* The settings.                                                           *)
(***************************************************************************)
\* A stored quality is within the configured range, be the request's or the
\* default out of it.
LEMMA QualityIsClamped ==
  ASSUME NEW e \in [Settings -> Int \cup {Unset, Garbage}],
         NEW q \in Int \cup {Nil}, QualityMin(e) <= QualityMax(e)
  PROVE  ClampQuality(e, q) \in QualityMin(e) .. QualityMax(e)
<1> DEFINE asked == IF q = Nil THEN GetInt(e, "default_quality") ELSE q
<1>1. Settings = DOMAIN Default
  BY DEF Settings
<1>2. \A k \in {"default_quality", "quality_min", "quality_max"} :
        k \in Settings /\ Default[k] \in Int
  BY DEF Settings, Default
<1>3. \A k \in {"default_quality", "quality_min", "quality_max"} :
        GetInt(e, k) \in Int
  BY <1>2, SettingsAssumption DEF GetInt
<1>4. asked \in Int /\ QualityMin(e) \in Int /\ QualityMax(e) \in Int
  BY <1>3 DEF QualityMin, QualityMax
<1>5. ClampQuality(e, q) = AtMost(AtLeast(asked, QualityMin(e)), QualityMax(e))
  BY DEF ClampQuality
<1> HIDE DEF asked
<1>6. QED
  BY <1>4, <1>5 DEF AtMost, AtLeast

\* A setting reads as a number, a garbled one as 0.
LEMMA SettingValues ==
  ASSUME NEW e \in [Settings -> Int \cup {Unset, Garbage}], NEW k \in Settings
  PROVE  /\ GetInt(e, k) \in Int /\ ToInt64(e, k) \in Int
         /\ e[k] = Garbage => GetInt(e, k) = 0 /\ ToInt64(e, k) = 0
<1>1. Default[k] \in Int
  BY DEF Settings, Default
<1>2. e[k] \in Int \cup {Unset, Garbage}
  OBVIOUS
<1>3. QED
  BY <1>1, <1>2, SettingsAssumption DEF GetInt, ToInt64

\* Every setting has a value, unset and garbled among them.
LEMMA EnvOfInput ==
  ASSUME Admitted PROVE env \in [Settings -> Int \cup {Unset, Garbage}]
  BY InputsAssumption DEF Admitted, IsInput

\* The limits are numbers under any settings.
LEMMA LimitsAreIntegers ==
  ASSUME Admitted
  PROVE  /\ MaxImageWidth(env) \in Int /\ MaxImageHeight(env) \in Int
         /\ MaxTotalOutputPixels(env) \in Int /\ MaxImageFileSize(env) \in Int
         /\ MaxSizesPerRequest(env) \in Int
<1>1. {"max_image_width", "max_image_height", "max_total_output_pixels",
       "max_image_file_size", "max_sizes_per_request"} \subseteq Settings
  BY DEF Settings, Default
<1>2. QED
  BY <1>1, EnvOfInput, SettingValues
     DEF MaxImageWidth, MaxImageHeight, MaxTotalOutputPixels,
         MaxImageFileSize, MaxSizesPerRequest

\* Areas keep the order of the sides.
LEMMA SmallerArea ==
  ASSUME NEW a \in Nat, NEW b \in Nat, NEW c \in Nat, NEW d \in Nat,
         a <= c, b <= d
  PROVE  a * b <= c * d
<1>1. a * b <= c * b
  OBVIOUS
<1>2. c * b <= c * d
  OBVIOUS
<1>3. a * b \in Nat /\ c * b \in Nat /\ c * d \in Nat
  OBVIOUS
<1>4. QED
  BY <1>1, <1>2, <1>3

\* A side not above one within the limits is within them.
LEMMA SideIsLimited ==
  ASSUME NEW n \in Int, NEW m \in Int, NEW configured \in Int, NEW top \in Int,
         m \in 1 .. Smaller(configured, top), n <= m
  PROVE  n <= Smaller(configured, top)
<1>1. Smaller(configured, top) \in Int
  BY DEF Smaller
<1>2. QED
  BY <1>1

\* An output obeys every limit the settings give, as does its source.
LEMMA OutputIsLimited ==
  ASSUME Admitted, NEW out \in outputs
  PROVE  /\ out.width <= Smaller(MaxImageWidth(env), MaxSupportedDimension)
         /\ out.height <= Smaller(MaxImageHeight(env), MaxSupportedDimension)
         /\ out.width * out.height <= MaxTotalOutputPixels(env)
         /\ QualityMin(env) <= QualityMax(env) =>
              out.spec.quality \in QualityMin(env) .. QualityMax(env)
         /\ file.sizeKnown => file.bytes <= MaxImageFileSize(env)
<1> DEFINE spec == out.spec
<1>1. spec \in rows /\ ~OverPixelLimit(spec) /\ AllPass
  BY DEF Admitted
<1>2. PICK k \in DOMAIN sizes : spec = SizeRow(sizes[k])
  BY <1>1 DEF Admitted
<1>3. /\ spec.width = sizes[k].width /\ spec.height = sizes[k].height
      /\ spec.quality = ClampQuality(env, sizes[k].quality)
  BY <1>2, SizeRowFields
<1>4. /\ out.width \in Nat /\ out.height \in Nat
      /\ spec.width \in Nat /\ spec.height \in Nat
      /\ out.width <= spec.width /\ out.height <= spec.height
  BY <1>1, RowIsSpec, OutputKeepsItsWord DEF Positive
<1>5. MaxSupportedDimension \in Int
  BY DEF MaxSupportedDimension
<1>6. /\ spec.width \in 1 .. Smaller(MaxImageWidth(env), MaxSupportedDimension)
      /\ spec.height \in 1 .. Smaller(MaxImageHeight(env), MaxSupportedDimension)
  BY <1>1, <1>3 DEF AllPass, SizePasses, SideInRange
<1> HIDE DEF spec
<1>7. /\ out.width <= Smaller(MaxImageWidth(env), MaxSupportedDimension)
      /\ out.height <= Smaller(MaxImageHeight(env), MaxSupportedDimension)
  BY <1>4, <1>5, <1>6, SideIsLimited, LimitsAreIntegers
<1>8. out.width * out.height <= MaxTotalOutputPixels(env)
  <2>1. /\ spec.width * spec.height \in Nat
        /\ out.width * out.height \in Nat
    BY <1>4
  <2>2. out.width * out.height <= spec.width * spec.height
    BY <1>4, SmallerArea
  <2>3. spec.width * spec.height <= MaxTotalOutputPixels(env)
    BY <1>1, <2>1, LimitsAreIntegers DEF OverPixelLimit
  <2>4. QED
    BY <2>1, <2>2, <2>3, LimitsAreIntegers
<1>9. QualityMin(env) <= QualityMax(env) =>
        spec.quality \in QualityMin(env) .. QualityMax(env)
  <2>1. sizes[k].quality \in Int \cup {Nil}
    <3>1. sizes \in Seq([width : Int, height : Int,
                         mode : Modes \cup {"", "other"},
                         quality : Int \cup {Nil}])
      BY InputIsInput DEF IsInput
    <3> HIDE DEF sizes
    <3>2. sizes[k] \in [width : Int, height : Int,
                        mode : Modes \cup {"", "other"},
                        quality : Int \cup {Nil}]
      BY <3>1, ElementOf
    <3>3. QED
      BY <3>2
  <2>2. QED
    BY <1>3, <2>1, EnvOfInput, QualityIsClamped
<1>10. file.sizeKnown => file.bytes <= MaxImageFileSize(env)
  <2>1. file.bytes \in Int
    <3>1. file.bytes \in Nat
      BY InputIsInput DEF IsInput
    <3>2. QED
      BY <3>1
  <2>2. QED
    BY <1>1, <2>1, LimitsAreIntegers DEF AllPass, TooLarge
<1>11. QED
  BY <1>7, <1>8, <1>9, <1>10 DEF spec

\* Every limit holds of every output: sides, area, quality and upload.
THEOREM LimitsAlwaysHold == Spec => []LimitsHold
<1>1. Admitted => LimitsHold
  BY OutputIsLimited DEF LimitsHold
<1>2. QED
  BY <1>1, AdmittedInvariance, PTL

\* A limit that cannot be read reads as 0, which no output is within.
THEOREM UnreadableLimitAdmitsNothing == Spec => []FailsClosed
<1>1. ASSUME Admitted, NEW out \in outputs,
             NEW k \in {"max_total_output_pixels", "max_image_width",
                        "max_image_height", "max_sizes_per_request"},
             env[k] = Garbage
      PROVE  FALSE
  <2>1. k \in Settings
    BY DEF Settings, Default
  <2>2. GetInt(env, k) = 0 /\ ToInt64(env, k) = 0
    BY <1>1, <2>1, EnvOfInput, SettingValues
  <2>3. out.width \in Nat \ {0} /\ out.height \in Nat \ {0}
    BY <1>1, OutputKeepsItsWord DEF Positive
  <2>4. MaxSupportedDimension \in Int
    BY DEF MaxSupportedDimension
  <2>5. CASE k = "max_total_output_pixels"
    <3>1. MaxTotalOutputPixels(env) = 0
      BY <2>2, <2>5 DEF MaxTotalOutputPixels
    <3>2. out.width * out.height > 0
      BY <2>3
    <3>3. out.width * out.height <= 0
      BY <1>1, <3>1, OutputIsLimited
    <3>4. QED
      BY <2>3, <3>2, <3>3
  <2>6. CASE k = "max_image_width"
    <3>1. MaxImageWidth(env) = 0
      BY <2>2, <2>6 DEF MaxImageWidth
    <3>2. out.width <= Smaller(0, MaxSupportedDimension)
      BY <1>1, <3>1, OutputIsLimited
    <3>3. QED
      BY <2>3, <2>4, <3>2 DEF Smaller
  <2>7. CASE k = "max_image_height"
    <3>1. MaxImageHeight(env) = 0
      BY <2>2, <2>7 DEF MaxImageHeight
    <3>2. out.height <= Smaller(0, MaxSupportedDimension)
      BY <1>1, <3>1, OutputIsLimited
    <3>3. QED
      BY <2>3, <2>4, <3>2 DEF Smaller
  <2>8. CASE k = "max_sizes_per_request"
    <3>1. MaxSizesPerRequest(env) = 0
      BY <2>2, <2>8 DEF MaxSizesPerRequest
    <3>2. Len(sizes) \in 1 .. MaxSizesPerRequest(env)
      BY <1>1 DEF Admitted, AllPass
    <3>3. QED
      BY <3>1, <3>2
  <2>9. QED
    BY <2>5, <2>6, <2>7, <2>8
<1>2. Admitted => FailsClosed
  BY <1>1 DEF FailsClosed
<1>3. QED
  BY <1>2, AdmittedInvariance, PTL
=============================================================================
